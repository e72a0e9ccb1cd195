-------------------------- MODULE FrontEnds_proofs --------------------------
(* The scan service keeps its slots, tells every cancelled scan, keeps     *)
(* every outcome, and is a bounded pool: for any number of jobs and slots. *)
(* A registry is the same in its list and its index.  A command line is    *)
(* taken at its last word on the cache.                                    *)
(*                                                                         *)
(* Two scans of one scope at the same time: what each step of one leaves   *)
(* on disk (SiteCache_proofs.tla) is put together to what the two leave    *)
(* when both are through.  First and Second are one argument, once for     *)
(* each scan.                                                              *)
EXTENDS FrontEnds, Induction, FiniteSetTheorems, SequenceTheorems

\* What a job is in each state: one that was not asked for left no trace, one
\* that waits is held and has no end, only a cancelled one was aborted, and
\* the jobs not asked for yet are the last ones.
StagesOf(st, kept, going, fin, told) ==
  \A i \in Id :
    /\ st[i] = "new" => /\ i \notin kept /\ i \notin going /\ fin[i] = "no"
                        /\ \A j \in Id : i < j => st[j] = "new"
    /\ st[i] = "queued" => i \in kept /\ i \notin going /\ fin[i] = "no"
    /\ i \in told => st[i] = "cancelled"

Stages == StagesOf(status, held, scanning, finished, aborted)

JobInv == JobTypeOK /\ SlotsAccounted /\ CancelReachesScan /\ Stages
-----------------------------------------------------------------------------
(* Sets of jobs can be counted. *)
LEMMA JobsFinite ==
  ASSUME NEW S \in SUBSET Id
  PROVE  IsFiniteSet(S) /\ Cardinality(S) \in Nat
<1>1. IsFiniteSet(Id)
  BY FS_Interval, JobAssumption DEF Id, JobAssumption
<1>2. IsFiniteSet(S)
  BY <1>1, FS_Subset
<1> QED
  BY <1>2, FS_CardinalityType

\* A queue in order of arrival whose jobs all wait.
Waits(q, st, kept) ==
  /\ q \in Seq(Id)
  /\ \A m, n \in DOMAIN q : m < n => q[m] < q[n]
  /\ \A n \in DOMAIN q : q[n] \in kept /\ st[q[n]] = "queued"

(* The first n jobs of such a queue are n different jobs. *)
LEMMA FirstJobs ==
  ASSUME NEW q, NEW st, NEW kept, Waits(q, st, kept), NEW n \in 0..Len(q)
  PROVE  /\ Started(q, n, st, kept) = {q[m] : m \in 1..n}
         /\ Cardinality(Started(q, n, st, kept)) = n
<1>1. Started(q, n, st, kept) = {q[m] : m \in 1..n}
  BY DEF Waits, Started
<1> DEFINE T == {q[m] : m \in 1..n}
           f == [m \in 1..n |-> q[m]]
<1>2. /\ \A a, b \in 1..n : f[a] = f[b] => a = b
      /\ f \in [1..n -> T] /\ \A t \in T : \E m \in 1..n : f[m] = t
  <2>1. \A a, b \in 1..n : a < b => q[a] < q[b]
    BY DEF Waits
  <2>2. \A a \in 1..n : q[a] \in Int
    BY JobAssumption DEF Waits, Id, JobAssumption
  <2> QED
    BY <2>1, <2>2
<1>3. ExistsBijection(1..n, T)
  BY <1>2, Zenon DEF ExistsBijection, Bijection, Injection, Surjection, IsInjective
<1>4. IsFiniteSet(1..n) /\ Cardinality(1..n) = n
  BY FS_Interval
<1>5. Cardinality(T) = n
  BY <1>3, <1>4, FS_Bijection
<1> QED
  BY <1>1, <1>5

\* p takes the first t jobs of q: as many as there are free slots, or all.
Takes(p, q, r, t) ==
  /\ p.start = {q[m] : m \in 1..t} /\ Cardinality(p.start) = t
  /\ p.rest = SubSeq(q, t + 1, Len(q))
  /\ r + t <= MaxConcurrent
  /\ t < Len(q) => r + t = MaxConcurrent

(* pump takes as many jobs as there are free slots, or all of them. *)
LEMMA PumpTakes ==
  ASSUME NEW q, NEW st, NEW kept, Waits(q, st, kept), NEW r \in 0..MaxConcurrent
  PROVE  \E t \in 0..Len(q) : Takes(Pump(q, r, st, kept), q, r, t)
<1> DEFINE Stops(n) == n = Len(q) \/ r + Cardinality(Started(q, n, st, kept)) = MaxConcurrent
           least == IF Len(q) < MaxConcurrent - r THEN Len(q) ELSE MaxConcurrent - r
           Right(n) == Stops(n) /\ \A m \in 0..(n - 1) : ~Stops(m)
           t == CHOOSE n \in 0..Len(q) : Right(n)
<1>1. Len(q) \in Nat
  BY DEF Waits
<1>2. \A n \in 0..Len(q) : Stops(n) <=> n = Len(q) \/ r + n = MaxConcurrent
  BY FirstJobs
<1>3. least \in 0..Len(q) /\ MaxConcurrent \in Nat
  BY <1>1, JobAssumption DEF JobAssumption
<1>4. Right(least)
  BY <1>1, <1>2, <1>3
<1>5. t \in 0..Len(q) /\ Right(t)
  <2> HIDE DEF Right, least
  <2> QED BY <1>3, <1>4
<1>6. /\ Pump(q, r, st, kept).start = Started(q, t, st, kept)
      /\ Pump(q, r, st, kept).rest = SubSeq(q, t + 1, Len(q))
  BY DEF Pump
<1>7. t = Len(q) \/ r + t = MaxConcurrent
  BY <1>2, <1>5
<1>8. r + t <= MaxConcurrent
  <2>1. ASSUME r + t > MaxConcurrent PROVE FALSE
    <3>1. MaxConcurrent - r \in 0..(t - 1) /\ MaxConcurrent - r \in 0..Len(q)
      <4> HIDE DEF t
      <4> QED BY <2>1, <1>5, <1>1, <1>3
    <3>2. Stops(MaxConcurrent - r)
      <4> HIDE DEF Stops
      <4> QED BY <3>1, <1>2, <1>3
    <3> QED BY <3>1, <3>2, <1>5
  <2> HIDE DEF t
  <2> QED BY <2>1, <1>5, <1>1, <1>3
<1>9. Started(q, t, st, kept) = {q[m] : m \in 1..t} /\ Cardinality(Started(q, t, st, kept)) = t
  <2> HIDE DEF t
  <2> QED BY <1>5, FirstJobs
<1>10. t < Len(q) => r + t = MaxConcurrent
  <2> HIDE DEF t
  <2> QED BY <1>1, <1>5, <1>7
<1>11. t \in 0..Len(q)
  BY <1>5
<1> HIDE DEF t
<1> WITNESS t \in 0..Len(q)
<1> QED
  BY <1>6, <1>8, <1>9, <1>10 DEF Takes
-----------------------------------------------------------------------------
\* What RunJobs is called with: a queue that waits, of all the queued jobs, and
\* no more scans than slots, which are counted.
Ready(q, r, st, kept, going) ==
  /\ Waits(q, st, kept)
  /\ st \in [Id -> {"new", "queued", "running"} \cup Over]
  /\ going \in SUBSET Id /\ r = Cardinality(going) /\ r <= MaxConcurrent
  /\ \A i \in Id : st[i] = "queued" => i \notin going /\ \E n \in DOMAIN q : q[n] = i

(* runJob for the jobs pump takes: they scan, each in a slot, the others   *)
(* wait in order, and no slot is idle while one does.                      *)
LEMMA RunJobsTakes ==
  ASSUME NEW q, NEW r, NEW st, NEW kept, NEW going,
         Ready(q, r, st, kept, going), RunJobs(q, r, st, kept, going)
  PROVE  \E t \in 0..Len(q) :
           /\ scanning' = going \cup {q[m] : m \in 1..t}
           /\ status' = [i \in Id |-> IF i \in {q[m] : m \in 1..t} THEN "running" ELSE st[i]]
           /\ queue' = SubSeq(q, t + 1, Len(q))
           /\ running' = r + t /\ r + t <= MaxConcurrent
           /\ t < Len(q) => r + t = MaxConcurrent
           /\ running' = Cardinality(scanning')
           /\ SlotsAccounted'
<1>1. r \in 0..MaxConcurrent /\ Len(q) \in Nat
  BY JobsFinite, JobAssumption DEF Ready, Waits, JobAssumption
<1>waits. Waits(q, st, kept)
  BY DEF Ready
<1>taken. PICK t \in 0..Len(q) : Takes(Pump(q, r, st, kept), q, r, t)
  BY <1>1, <1>waits, PumpTakes
<1>2. /\ Pump(q, r, st, kept).start = {q[m] : m \in 1..t}
      /\ Pump(q, r, st, kept).rest = SubSeq(q, t + 1, Len(q))
      /\ Cardinality(Pump(q, r, st, kept).start) = t
      /\ r + t <= MaxConcurrent
      /\ t < Len(q) => r + t = MaxConcurrent
  BY <1>taken DEF Takes
<1> DEFINE start == {q[m] : m \in 1..t}
<1>3. /\ queue' = SubSeq(q, t + 1, Len(q))
      /\ running' = r + t
      /\ scanning' = going \cup start
      /\ status' = [i \in Id |-> IF i \in start THEN "running" ELSE st[i]]
  BY <1>2 DEF RunJobs
<1>4. start \in SUBSET Id /\ start \cap going = {}
  BY <1>2 DEF Ready, Waits
<1>5. Cardinality(scanning') = r + t
  <2>1. IsFiniteSet(start) /\ IsFiniteSet(going)
    BY <1>4, JobsFinite DEF Ready
  <2>2. Cardinality(going \cup start) = Cardinality(going) + Cardinality(start) - Cardinality({})
    BY <2>1, <1>4, FS_Union
  <2>3. Cardinality({}) = 0 /\ Cardinality(start) = t
    BY <1>2, FS_EmptySet
  <2> QED
    BY <2>2, <2>3, <1>1, <1>2, <1>3 DEF Ready
<1>6. /\ Len(queue') = Len(q) - t
      /\ DOMAIN queue' = 1..(Len(q) - t)
      /\ \A n \in 1..(Len(q) - t) : queue'[n] = q[n + t] /\ n + t \in 1..Len(q)
  BY <1>1, <1>2, <1>3 DEF Ready, Waits
<1>7. ASSUME NEW i \in Id PROVE status'[i] = "queued" <=> \E n \in DOMAIN queue' : queue'[n] = i
  <2>1. ASSUME status'[i] = "queued" PROVE \E n \in DOMAIN queue' : queue'[n] = i
    <3>1. i \notin start /\ st[i] = "queued"
      BY <1>3, <2>1
    <3>2. PICK m \in 1..Len(q) : q[m] = i
      BY <3>1 DEF Ready, Waits
    <3>3. m > t
      BY <3>1, <3>2, <1>2
    <3>4. m - t \in 1..(Len(q) - t) /\ (m - t) + t = m
      BY <3>3, <1>1, <1>2
    <3> QED
      BY <3>2, <3>4, <1>6
  <2>2. ASSUME NEW n \in DOMAIN queue', queue'[n] = i PROVE status'[i] = "queued"
    <3>1. n + t \in 1..Len(q) /\ q[n + t] = i /\ n + t > t /\ n \in Nat
      BY <2>2, <1>2, <1>6
    <3>2. st[i] = "queued"
      BY <3>1 DEF Ready, Waits
    <3>3. i \notin start
      <4>1. ASSUME NEW m \in 1..t PROVE q[m] < q[n + t] /\ q[m] \in Int /\ q[n + t] \in Int
        <5>1. m \in 1..Len(q) /\ m < n + t
          BY <3>1, <1>1, <1>2
        <5>2. q \in Seq(Id) /\ q[m] < q[n + t]
          BY <5>1, <3>1 DEF Ready, Waits
        <5> QED
          BY <5>1, <5>2, <3>1, JobAssumption DEF Id, JobAssumption
      <4> QED BY <4>1, <3>1
    <3> QED
      BY <3>2, <3>3, <1>3
  <2> QED
    BY <2>1, <2>2
<1>8. \A m, n \in DOMAIN queue' : m < n => queue'[m] < queue'[n]
  <2>1. SUFFICES ASSUME NEW m \in DOMAIN queue', NEW n \in DOMAIN queue', m < n
                 PROVE  queue'[m] < queue'[n]
    OBVIOUS
  <2>2. m + t \in 1..Len(q) /\ n + t \in 1..Len(q) /\ m + t < n + t
    BY <2>1, <1>1, <1>2, <1>6
  <2>3. q[m + t] < q[n + t]
    BY <2>2 DEF Ready, Waits
  <2> QED
    BY <2>3, <1>6
<1>9. queue' # <<>> => running' = MaxConcurrent
  <2>1. ASSUME queue' # <<>> PROVE t < Len(q)
    <3>1. t = Len(q) => queue' = <<>>
      BY <1>1, <1>3 DEF Ready, Waits
    <3> QED BY <3>1, <2>1, <1>1, <1>2
  <2> QED BY <2>1, <1>2, <1>3
<1>10. SlotsAccounted'
  BY <1>3, <1>5, <1>7, <1>8, <1>9 DEF SlotsAccounted
<1> QED
  BY <1>2, <1>3, <1>5, <1>10
-----------------------------------------------------------------------------
(* A request finds the jobs that wait in front of it. *)
LEMMA SubmitReady ==
  ASSUME JobInv, NEW i \in Id, Submit(i)
  PROVE  Ready(Append(queue, i), running, [status EXCEPT ![i] = "queued"], held', scanning)
<1> DEFINE q == Append(queue, i)
           st == [status EXCEPT ![i] = "queued"]
<1>1. /\ status[i] = "new" /\ held' = held \cup {i} /\ i \notin scanning
      /\ st \in [Id -> {"new", "queued", "running"} \cup Over]
      /\ st[i] = "queued" /\ \A j \in Id : j # i => st[j] = status[j]
  BY DEF Submit, JobInv, JobTypeOK, Stages, StagesOf
<1>2. /\ q \in Seq(Id) /\ Len(queue) \in Nat /\ DOMAIN queue = 1..Len(queue)
      /\ DOMAIN q = 1..(Len(queue) + 1)
      /\ q[Len(queue) + 1] = i /\ \A n \in 1..Len(queue) : q[n] = queue[n] /\ queue[n] \in Id
  BY DEF JobInv, JobTypeOK
<1>3. ASSUME NEW n \in 1..Len(queue)
      PROVE  status[queue[n]] = "queued" /\ queue[n] \in held /\ queue[n] < i
  <2>1. status[queue[n]] = "queued" /\ queue[n] \in held
    BY <1>2 DEF JobInv, SlotsAccounted, Stages, StagesOf
  <2>2. ~(i < queue[n]) /\ queue[n] # i
    BY <2>1, <1>1, <1>2 DEF JobInv, Stages, StagesOf
  <2> QED
    BY <2>1, <2>2, <1>2, JobAssumption DEF Id, JobAssumption
<1>4. Waits(q, st, held')
  <2>1. ASSUME NEW m \in DOMAIN q, NEW n \in DOMAIN q, m < n PROVE q[m] < q[n]
    <3>1. m \in 1..Len(queue)
      BY <2>1, <1>2
    <3>2. CASE n \in 1..Len(queue)
      BY <2>1, <3>1, <3>2, <1>2 DEF JobInv, SlotsAccounted
    <3>3. CASE n = Len(queue) + 1
      BY <3>1, <3>3, <1>2, <1>3
    <3> QED
      BY <3>2, <3>3, <1>2
  <2>2. ASSUME NEW n \in DOMAIN q PROVE q[n] \in held' /\ st[q[n]] = "queued"
    <3>1. CASE n \in 1..Len(queue)
      <4>1. q[n] = queue[n] /\ queue[n] \in Id /\ queue[n] # i
        BY <3>1, <1>1, <1>2, <1>3
      <4> QED
        BY <4>1, <3>1, <1>1, <1>3
    <3>2. CASE n = Len(queue) + 1
      BY <3>2, <1>1, <1>2
    <3> QED
      BY <3>1, <3>2, <1>2
  <2> QED
    BY <2>1, <2>2, <1>2 DEF Waits
<1>5. ASSUME NEW j \in Id, st[j] = "queued"
      PROVE  j \notin scanning /\ \E n \in DOMAIN q : q[n] = j
  <2>1. CASE j = i
    BY <2>1, <1>1, <1>2
  <2>2. CASE j # i
    <3>1. status[j] = "queued"
      BY <2>2, <1>1, <1>5
    <3>2. j \notin scanning /\ \E n \in DOMAIN queue : queue[n] = j
      BY <3>1 DEF JobInv, Stages, StagesOf, SlotsAccounted
    <3> QED
      BY <3>2, <1>2
  <2> QED
    BY <2>1, <2>2
<1> HIDE DEF q, st
<1>6. Ready(q, running, st, held', scanning)
  BY <1>1, <1>4, <1>5, JobAssumption DEF Ready, JobInv, JobTypeOK, SlotsAccounted, JobAssumption
<1> QED
  BY <1>6 DEF q, st

(* When a scan ends its slot is free, and the others are as they were. *)
LEMMA SettleReady ==
  ASSUME JobInv, NEW i \in Id, NEW o \in {"done", "error"}, Settle(i, o)
  PROVE  Ready(queue, running - 1,
               [status EXCEPT ![i] = IF @ = "cancelled" THEN @ ELSE o], held, scanning \ {i})
<1> DEFINE st == [status EXCEPT ![i] = IF @ = "cancelled" THEN @ ELSE o]
<1>1. /\ i \in scanning /\ status[i] \in {"running", "cancelled"}
      /\ st \in [Id -> {"new", "queued", "running"} \cup Over]
      /\ st[i] \in {"cancelled", o} /\ \A j \in Id : j # i => st[j] = status[j]
  BY DEF Settle, JobInv, JobTypeOK, CancelReachesScan, Over
<1>2. \A j \in Id : st[j] = "queued" <=> status[j] = "queued"
  BY <1>1
<1>3. /\ queue \in Seq(Id)
      /\ \A m, n \in DOMAIN queue : m < n => queue[m] < queue[n]
      /\ \A n \in DOMAIN queue : queue[n] \in Id /\ status[queue[n]] = "queued"
                                  /\ queue[n] \in held
  BY DEF JobInv, JobTypeOK, SlotsAccounted, Stages, StagesOf
<1>4. Waits(queue, st, held)
  BY <1>2, <1>3 DEF Waits
<1>5. ASSUME NEW j \in Id, st[j] = "queued"
      PROVE  j \notin scanning \ {i} /\ \E n \in DOMAIN queue : queue[n] = j
  BY <1>2, <1>5 DEF JobInv, SlotsAccounted, Stages, StagesOf
<1>6. Cardinality(scanning \ {i}) = running - 1 /\ running - 1 <= MaxConcurrent
  <2>1. IsFiniteSet(scanning) /\ running = Cardinality(scanning) /\ running \in 0..MaxConcurrent
    BY JobsFinite DEF JobInv, JobTypeOK, SlotsAccounted
  <2> QED
    <3>1. Cardinality(scanning \ {i}) = Cardinality(scanning) - 1
      BY <2>1, <1>1, FS_RemoveElement
    <3> QED BY <3>1, <2>1, JobAssumption DEF JobAssumption
<1> HIDE DEF st
<1>7. Ready(queue, running - 1, st, held, scanning \ {i})
  BY <1>1, <1>4, <1>5, <1>6 DEF Ready, JobInv, JobTypeOK
<1> QED
  BY <1>7 DEF st

(* A cancelled job leaves the queue, and nobody else does. *)
LEMMA WithoutLeaves ==
  ASSUME NEW q \in Seq(Id), NEW i \in Id, \A m, n \in DOMAIN q : m < n => q[m] < q[n]
  PROVE  /\ Without(q, i) \in Seq(Id)
         /\ \A m, n \in DOMAIN Without(q, i) : m < n => Without(q, i)[m] < Without(q, i)[n]
         /\ \A j \in Id : (\E n \in DOMAIN Without(q, i) : Without(q, i)[n] = j)
                           <=> j # i /\ \E n \in DOMAIN q : q[n] = j
         /\ Without(q, i) # <<>> => q # <<>>
<1>1. /\ Len(q) \in Nat /\ DOMAIN q = 1..Len(q)
      /\ \A n \in 1..Len(q) : q[n] \in Id /\ q[n] \in Int
  BY JobAssumption DEF Id, JobAssumption
<1>2. CASE ~\E m \in DOMAIN q : q[m] = i
  BY <1>2 DEF Without
<1>3. CASE \E m \in DOMAIN q : q[m] = i
  <2>1. PICK k \in 1..Len(q) : q[k] = i
    BY <1>1, <1>3
  <2>2. \A n \in 1..Len(q) : q[n] = i => n = k
    BY <1>1, <2>1
  <2> DEFINE First(n) == q[n] = i /\ \A m \in 1..(n - 1) : q[m] # i
             w == [m \in 1..(Len(q) - 1) |-> IF m < k THEN q[m] ELSE q[m + 1]]
  <2>3. First(k)
    BY <1>1, <2>1, <2>2
  <2>4. k = CHOOSE n \in DOMAIN q : First(n)
    BY <1>1, <2>1, <2>2, <2>3
  <2>5. Without(q, i) = w
    BY <1>3, <2>4 DEF Without
  <2>6. w \in Seq(Id) /\ DOMAIN w = 1..(Len(q) - 1)
    BY <1>1, <2>1
  <2>7. \A m, n \in DOMAIN w : m < n => w[m] < w[n]
    <3>1. SUFFICES ASSUME NEW m \in DOMAIN w, NEW n \in DOMAIN w, m < n PROVE w[m] < w[n]
      OBVIOUS
    <3> DEFINE a == IF m < k THEN m ELSE m + 1
               b == IF n < k THEN n ELSE n + 1
    <3>2. a \in DOMAIN q /\ b \in DOMAIN q /\ a < b
      BY <3>1, <1>1, <2>1
    <3>3. w[m] = q[a] /\ w[n] = q[b]
      OBVIOUS
    <3> QED BY <3>2, <3>3
  <2>8. ASSUME NEW j \in Id
        PROVE  (\E n \in DOMAIN w : w[n] = j) <=> j # i /\ \E n \in DOMAIN q : q[n] = j
    <3>1. ASSUME NEW n \in DOMAIN w, w[n] = j PROVE j # i /\ \E m \in DOMAIN q : q[m] = j
      BY <1>1, <2>1, <2>2, <3>1
    <3>2. ASSUME j # i, NEW n \in DOMAIN q, q[n] = j PROVE \E m \in DOMAIN w : w[m] = j
      <4>1. CASE n < k
        <5>1. n \in 1..(Len(q) - 1) /\ w[n] = j
          BY <4>1, <3>2, <1>1, <2>1
        <5> QED BY <5>1
      <4>2. CASE n > k
        <5>1. n - 1 \in 1..(Len(q) - 1) /\ ~(n - 1 < k) /\ (n - 1) + 1 = n
          BY <4>2, <3>2, <1>1, <2>1
        <5>2. w[n - 1] = j
          BY <5>1, <3>2
        <5> QED BY <5>1, <5>2
      <4> QED BY <4>1, <4>2, <3>2, <1>1, <2>1
    <3> QED BY <3>1, <3>2
  <2>9. q # <<>>
    BY <1>1, <2>1
  <2> HIDE DEF w
  <2> QED
    BY <2>5, <2>6, <2>7, <2>8, <2>9
<1> QED
  BY <1>2, <1>3
-----------------------------------------------------------------------------
(* Before any request nothing waits or runs. *)
LEMMA InitJobInv == JobInit => JobInv
<1> SUFFICES ASSUME JobInit PROVE JobInv
  OBVIOUS
<1>1. JobTypeOK
  BY JobAssumption DEF JobInit, JobTypeOK, JobAssumption
<1>2. SlotsAccounted
  BY FS_EmptySet DEF JobInit, SlotsAccounted
<1>3. CancelReachesScan /\ Stages
  BY DEF JobInit, CancelReachesScan, Stages, StagesOf
<1> QED
  BY <1>1, <1>2, <1>3 DEF JobInv

(* Whatever RunJobs is called with, the invariant holds when it is done, if *)
(* the jobs it is told of are in order.                                     *)
LEMMA RunJobsKeeps ==
  ASSUME NEW q, NEW r, NEW st, NEW kept, NEW going, JobInv,
         Ready(q, r, st, kept, going), RunJobs(q, r, st, kept, going),
         StagesOf(st, kept, going, finished', aborted),
         \A i \in going : st[i] \in {"running", "cancelled"}
                          /\ (i \in aborted <=> st[i] = "cancelled"),
         held' = kept, kept \in SUBSET Id, aborted' = aborted, process' = process,
         finished' \in [Id -> {"no", "recent", "old"}]
  PROVE  JobInv'
<1>1. PICK t \in 0..Len(q) :
         /\ scanning' = going \cup {q[m] : m \in 1..t}
         /\ status' = [i \in Id |-> IF i \in {q[m] : m \in 1..t} THEN "running" ELSE st[i]]
         /\ queue' = SubSeq(q, t + 1, Len(q))
         /\ running' = r + t /\ r + t <= MaxConcurrent
         /\ t < Len(q) => r + t = MaxConcurrent
         /\ running' = Cardinality(scanning')
         /\ SlotsAccounted'
  BY RunJobsTakes
<1> DEFINE start == {q[m] : m \in 1..t}
<1>2. /\ scanning' = going \cup start
      /\ status' = [i \in Id |-> IF i \in start THEN "running" ELSE st[i]]
  BY <1>1
<1>3. \A i \in start : i \in Id /\ st[i] = "queued"
  <2>1. \A m \in 1..t : m \in DOMAIN q /\ q[m] \in Id
    BY DEF Ready, Waits
  <2> QED BY <2>1 DEF Ready, Waits
<1>4. st \in [Id -> {"new", "queued", "running"} \cup Over] /\ going \in SUBSET Id
  BY DEF Ready
<1>5. queue' \in Seq(Id) /\ running' \in 0..MaxConcurrent
  <2>1. q \in Seq(Id) /\ Len(q) \in Nat /\ r \in Nat
    BY JobsFinite DEF Ready, Waits
  <2> QED BY <2>1, <1>1, JobAssumption DEF JobAssumption
<1> HIDE DEF start
<1>6. JobTypeOK'
  <2>1. scanning' \subseteq Id /\ status' \in [Id -> {"new", "queued", "running"} \cup Over]
    BY <1>2, <1>3, <1>4
  <2> QED
    BY <2>1, <1>5 DEF JobTypeOK, JobInv
<1>7. CancelReachesScan'
  BY <1>2, <1>3, <1>4 DEF CancelReachesScan, StagesOf
<1>8. Stages'
  <2>1. ASSUME NEW i \in Id, status'[i] = "new"
        PROVE  /\ i \notin kept /\ i \notin scanning' /\ finished'[i] = "no"
               /\ \A j \in Id : i < j => status'[j] = "new"
    <3>1. st[i] = "new" /\ i \notin start
      BY <2>1, <1>2, <1>3
    <3>2. /\ i \notin kept /\ i \notin going /\ finished'[i] = "no"
          /\ \A j \in Id : i < j => st[j] = "new"
      BY <3>1 DEF StagesOf
    <3> QED BY <3>1, <3>2, <1>2, <1>3
  <2>2. ASSUME NEW i \in Id, status'[i] = "queued"
        PROVE  i \in kept /\ i \notin scanning' /\ finished'[i] = "no"
    BY <2>2, <1>2 DEF StagesOf
  <2>3. ASSUME NEW i \in Id, i \in aborted PROVE status'[i] = "cancelled"
    BY <2>3, <1>2, <1>3 DEF StagesOf
  <2> QED
    BY <2>1, <2>2, <2>3 DEF Stages, StagesOf
<1> QED
  BY <1>1, <1>6, <1>7, <1>8 DEF JobInv

(* A request keeps the invariant. *)
LEMMA SubmitKeeps ==
  ASSUME JobInv, NEW i \in Id, Submit(i)
  PROVE  JobInv'
<1> DEFINE q == Append(queue, i)
           st == [status EXCEPT ![i] = "queued"]
<1>1. Ready(q, running, st, held', scanning) /\ RunJobs(q, running, st, held', scanning)
  BY SubmitReady DEF Submit
<1>2. /\ status[i] = "new" /\ held' = held \cup {i} /\ i \notin scanning
      /\ \A j \in 1..(i - 1) : status[j] # "new"
      /\ st[i] = "queued" /\ \A j \in Id : j # i => st[j] = status[j]
      /\ aborted' = aborted /\ finished' = finished /\ process' = process
      /\ i \notin aborted /\ finished[i] = "no"
  BY DEF Submit, JobInv, JobTypeOK, Stages, StagesOf
<1> HIDE DEF q, st
<1>4. \A j \in Id : j < i => status[j] # "new"
  BY <1>2, JobAssumption DEF Id, JobAssumption
<1>5. StagesOf(st, held', scanning, finished', aborted)
  BY <1>2, <1>4, JobAssumption DEF StagesOf, JobInv, Stages, Id, JobAssumption
<1>6. \A j \in scanning : st[j] \in {"running", "cancelled"}
                           /\ (j \in aborted <=> st[j] = "cancelled")
  BY <1>2 DEF JobInv, JobTypeOK, CancelReachesScan
<1>7. held' \in SUBSET Id /\ finished' \in [Id -> {"no", "recent", "old"}]
  BY <1>2 DEF JobInv, JobTypeOK
<1> QED
  BY <1>1, <1>2, <1>5, <1>6, <1>7, RunJobsKeeps

(* The end of a scan keeps the invariant. *)
LEMMA SettleKeeps ==
  ASSUME JobInv, NEW i \in Id, NEW o \in {"done", "error"}, Settle(i, o)
  PROVE  JobInv'
<1> DEFINE st == [status EXCEPT ![i] = IF @ = "cancelled" THEN @ ELSE o]
<1>1. /\ Ready(queue, running - 1, st, held, scanning \ {i})
      /\ RunJobs(queue, running - 1, st, held, scanning \ {i})
  BY SettleReady DEF Settle
<1>2. /\ i \in scanning /\ status[i] \in {"running", "cancelled"}
      /\ st[i] = IF status[i] = "cancelled" THEN "cancelled" ELSE o
      /\ \A j \in Id : j # i => st[j] = status[j]
      /\ aborted' = aborted /\ held' = held /\ process' = process
      /\ finished' = [finished EXCEPT ![i] = "recent"]
      /\ finished' \in [Id -> {"no", "recent", "old"}] /\ held \in SUBSET Id
      /\ scanning \in SUBSET Id
  BY DEF Settle, JobInv, JobTypeOK, CancelReachesScan
<1>3. st[i] \notin {"new", "queued"} /\ \A j \in Id : j # i => finished'[j] = finished[j]
  BY <1>2 DEF JobInv, JobTypeOK
<1> HIDE DEF st
<1>4. StagesOf(st, held, scanning \ {i}, finished', aborted)
  <2>1. \A j \in Id : st[j] = "new" => status[j] = "new" /\ j # i
    BY <1>2, <1>3
  <2>2. \A j \in Id : status[j] = "new" => j # i
    BY <1>2
  <2>3. StagesOf(status, held, scanning, finished, aborted)
    BY DEF JobInv, Stages
  <2> QED
    BY <2>1, <2>2, <2>3, <1>2, <1>3 DEF StagesOf
<1>5. \A j \in scanning \ {i} : st[j] \in {"running", "cancelled"}
                                 /\ (j \in aborted <=> st[j] = "cancelled")
  BY <1>2 DEF JobInv, CancelReachesScan
<1>6. /\ held' = held /\ aborted' = aborted /\ process' = process /\ held \in SUBSET Id
      /\ finished' \in [Id -> {"no", "recent", "old"}]
  BY <1>2
<1> QED
  BY <1>1, <1>4, <1>5, <1>6, RunJobsKeeps

(* A cancel keeps the invariant. *)
LEMMA CancelKeeps ==
  ASSUME JobInv, NEW i \in Id, Cancel(i)
  PROVE  JobInv'
<1>1. /\ queue \in Seq(Id) /\ \A m, n \in DOMAIN queue : m < n => queue[m] < queue[n]
      /\ queue' = Without(queue, i) /\ running' = running /\ scanning' = scanning
      /\ i \in held /\ held' = held /\ process' = process
      /\ status' = [status EXCEPT ![i] = "cancelled"] /\ status[i] # "new"
      /\ finished' = [finished EXCEPT ![i] = "recent"]
      /\ aborted' = IF i \in scanning THEN aborted \cup {i} ELSE aborted
  BY DEF Cancel, JobInv, JobTypeOK, SlotsAccounted, Stages, StagesOf
<1>2. /\ queue' \in Seq(Id)
      /\ \A m, n \in DOMAIN queue' : m < n => queue'[m] < queue'[n]
      /\ \A j \in Id : (\E n \in DOMAIN queue' : queue'[n] = j)
                        <=> j # i /\ \E n \in DOMAIN queue : queue[n] = j
      /\ queue' # <<>> => queue # <<>>
  BY <1>1, WithoutLeaves
<1>3. /\ status'[i] = "cancelled" /\ \A j \in Id : j # i => status'[j] = status[j]
      /\ \A j \in Id : j # i => finished'[j] = finished[j]
  BY <1>1 DEF JobInv, JobTypeOK
<1>4. JobTypeOK'
  BY <1>1, <1>2 DEF JobInv, JobTypeOK, Over
<1>5. SlotsAccounted'
  BY <1>1, <1>2, <1>3 DEF JobInv, SlotsAccounted
<1>6. CancelReachesScan'
  BY <1>1, <1>3 DEF JobInv, JobTypeOK, CancelReachesScan
<1>7. Stages'
  <2>1. \A j \in Id : status'[j] = "new" => status[j] = "new" /\ j # i
    BY <1>3
  <2>2. \A j \in Id : status[j] = "new" => j # i
    BY <1>1
  <2>3. \A j \in aborted' : j \in aborted \/ j = i
    BY <1>1
  <2>4. StagesOf(status, held, scanning, finished, aborted)
    BY DEF JobInv, Stages
  <2> QED
    BY <2>1, <2>2, <2>3, <2>4, <1>1, <1>3 DEF Stages, StagesOf
<1> QED
  BY <1>4, <1>5, <1>6, <1>7 DEF JobInv

(* The clock, the sweep and the shutdown keep the invariant. *)
LEMMA OthersKeep ==
  ASSUME JobInv, TimePasses \/ Sweep \/ Shutdown \/ Exit \/ UNCHANGED jobVars
  PROVE  JobInv'
<1>1. CASE TimePasses
  BY <1>1 DEF TimePasses, JobInv, JobTypeOK, SlotsAccounted, CancelReachesScan, Stages, StagesOf
<1>2. CASE Sweep
  BY <1>2 DEF Sweep, JobInv, JobTypeOK, SlotsAccounted, CancelReachesScan, Stages, StagesOf
<1>3. CASE Shutdown
  <2> DEFINE hit == {i \in held : status[i] = "running"}
  <2>1. /\ status' = [i \in Id |-> IF i \in hit THEN "cancelled" ELSE status[i]]
        /\ aborted' = aborted \cup hit /\ hit \in SUBSET Id
        /\ UNCHANGED <<scanning, finished, held, queue, running>>
        /\ process' = "stopping"
    BY <1>3 DEF Shutdown, JobInv, JobTypeOK
  <2>2. \A i \in hit : status[i] = "running"
    OBVIOUS
  <2> HIDE DEF hit
  <2>3. JobTypeOK'
    BY <2>1 DEF JobInv, JobTypeOK, Over
  <2>4. SlotsAccounted'
    BY <2>1, <2>2 DEF JobInv, SlotsAccounted
  <2>5. CancelReachesScan'
    BY <2>1, <2>2 DEF JobInv, JobTypeOK, CancelReachesScan
  <2>6. Stages'
    <3>1. StagesOf(status, held, scanning, finished, aborted)
      BY DEF JobInv, Stages
    <3> QED
      BY <3>1, <2>1, <2>2 DEF Stages, StagesOf
  <2> QED
    BY <2>3, <2>4, <2>5, <2>6 DEF JobInv
<1>4. CASE Exit \/ UNCHANGED jobVars
  BY <1>4 DEF Exit, jobVars, JobInv, JobTypeOK, SlotsAccounted, CancelReachesScan, Stages, StagesOf
<1> QED
  BY <1>1, <1>2, <1>3, <1>4

(* Every step of the service keeps the invariant. *)
LEMMA JobStep == JobInv /\ [JobNext]_jobVars => JobInv'
  BY SubmitKeeps, SettleKeeps, CancelKeeps, OthersKeep DEF JobNext

(* Every step of a process is a step of its service, or none.              *)
LEMMA FrontStep == [Next]_allVars => [JobNext]_jobVars
  BY DEF Next, allVars

(* The invariant holds throughout. *)
LEMMA JobInductive == Spec => []JobInv
<1>1. Init => JobInv
  BY InitJobInv DEF Init
<1> QED
  BY <1>1, FrontStep, JobStep, PTL DEF Spec

(* Jobs, queue and counter have their types: no more than MaxConcurrent    *)
(* scans are ever counted.                                                 *)
THEOREM JobTypeCorrect == Spec => []JobTypeOK
<1>1. JobInv => JobTypeOK
  BY DEF JobInv
<1> QED
  BY <1>1, JobInductive, PTL

(* Counter, scans and queue agree through every cancel, failure, sweep and *)
(* late result, and no slot is idle while a job waits.                     *)
THEOREM JobSlots == Spec => []SlotsAccounted
<1>1. JobInv => SlotsAccounted
  BY DEF JobInv
<1> QED
  BY <1>1, JobInductive, PTL

(* Of the scans under way those whose job was cancelled have been told, and *)
(* no others.                                                               *)
THEOREM CancelsArrive == Spec => []CancelReachesScan
<1>1. JobInv => CancelReachesScan
  BY DEF JobInv
<1> QED
  BY <1>1, JobInductive, PTL
-----------------------------------------------------------------------------
(* A step leaves the outcomes there are alone. *)
LEMMA OutcomesStay ==
  JobInv /\ [JobNext]_jobVars =>
    [\A i \in Id : status[i] \in Over => status'[i] = status[i]]_jobVars
<1> SUFFICES ASSUME JobInv, JobNext, NEW j \in Id, status[j] \in Over
             PROVE  status'[j] = status[j]
  OBVIOUS
<1>1. ASSUME NEW i \in Id, Submit(i) PROVE status'[j] = status[j]
  <2> DEFINE q == Append(queue, i)
             st == [status EXCEPT ![i] = "queued"]
  <2>1. Ready(q, running, st, held', scanning) /\ RunJobs(q, running, st, held', scanning)
    BY <1>1, SubmitReady DEF Submit
  <2>2. st[j] = status[j]
    BY <1>1 DEF Submit, JobInv, JobTypeOK, Over
  <2> HIDE DEF q, st
  <2>3. \A t \in 0..Len(q) : \A m \in 1..t : st[q[m]] = "queued"
    BY <2>1 DEF Ready, Waits
  <2>4. PICK t \in 0..Len(q) :
          status' = [k \in Id |-> IF k \in {q[m] : m \in 1..t} THEN "running" ELSE st[k]]
    BY <2>1, RunJobsTakes
  <2> QED
    BY <2>2, <2>3, <2>4 DEF Over
<1>2. ASSUME NEW i \in Id, NEW o \in {"done", "error"}, Settle(i, o)
      PROVE  status'[j] = status[j]
  <2> DEFINE st == [status EXCEPT ![i] = IF @ = "cancelled" THEN @ ELSE o]
  <2>1. /\ Ready(queue, running - 1, st, held, scanning \ {i})
        /\ RunJobs(queue, running - 1, st, held, scanning \ {i})
    BY <1>2, SettleReady DEF Settle
  <2>2. st[j] = status[j]
    BY <1>2 DEF Settle, JobInv, JobTypeOK, CancelReachesScan, Over
  <2> HIDE DEF st
  <2>3. \A t \in 0..Len(queue) : \A m \in 1..t : st[queue[m]] = "queued"
    BY <2>1 DEF Ready, Waits
  <2>4. PICK t \in 0..Len(queue) :
          status' = [k \in Id |-> IF k \in {queue[m] : m \in 1..t} THEN "running" ELSE st[k]]
    BY <2>1, RunJobsTakes
  <2> QED
    BY <2>2, <2>3, <2>4 DEF Over
<1>3. ASSUME NEW i \in Id, Cancel(i) PROVE status'[j] = status[j]
  BY <1>3 DEF Cancel, JobInv, JobTypeOK, Over
<1>4. CASE TimePasses \/ Sweep \/ Shutdown \/ Exit
  BY <1>4 DEF TimePasses, Sweep, Shutdown, Exit, JobInv, JobTypeOK, Over
<1> QED
  BY <1>1, <1>2, <1>3, <1>4 DEF JobNext

(* The first outcome of a job stays, whatever arrives later. *)
THEOREM OutcomesAreFinal == Spec => OutcomeFinal
  BY JobInductive, FrontStep, OutcomesStay, PTL DEF Spec, OutcomeFinal
-----------------------------------------------------------------------------
(* A step of the service is a step of the pool, or none: a request asks, or *)
(* is granted a slot at once; a scan that ends gives its slot back or hands *)
(* it to the first job that waits; a cancel turns a waiting job away.       *)
LEMMA JobStepPool ==
  JobInv /\ [JobNext]_jobVars => [Pool!PoolNext]_(Pool!poolVars)
<1> SUFFICES ASSUME JobInv, [JobNext]_jobVars PROVE [Pool!PoolNext]_(Pool!poolVars)
  OBVIOUS
<1> DEFINE asks == {i \in Id : status[i] = "queued"}
<1>0. /\ queue \in Seq(Id) /\ Len(queue) \in Nat /\ DOMAIN queue = 1..Len(queue)
      /\ running = Cardinality(scanning) /\ running \in 0..MaxConcurrent
      /\ queue # <<>> => running = MaxConcurrent
      /\ MaxConcurrent \in Nat \ {0}
  BY JobAssumption DEF JobInv, JobTypeOK, SlotsAccounted, JobAssumption
<1>1. ASSUME NEW i \in Id, Submit(i) PROVE Pool!PoolNext
  <2> DEFINE q == Append(queue, i)
             st == [status EXCEPT ![i] = "queued"]
  <2>1. Ready(q, running, st, held', scanning) /\ RunJobs(q, running, st, held', scanning)
    BY <1>1, SubmitReady DEF Submit
  <2>2. /\ i \notin scanning /\ status[i] = "new" /\ st[i] = "queued"
        /\ \A j \in Id : j # i => st[j] = status[j]
    BY <1>1 DEF Submit, JobInv, JobTypeOK, Stages, StagesOf
  <2>3. Len(q) = Len(queue) + 1 /\ (Len(queue) = 0 => q[1] = i)
    BY <1>0
  <2> HIDE DEF q, st
  <2>4. PICK t \in 0..Len(q) :
           /\ scanning' = scanning \cup {q[m] : m \in 1..t}
           /\ status' = [j \in Id |-> IF j \in {q[m] : m \in 1..t} THEN "running" ELSE st[j]]
           /\ running + t <= MaxConcurrent
    BY <2>1, RunJobsTakes
  <2>5. CASE t = 0
    <3>1. {q[m] : m \in 1..t} = {}
      BY <2>5
    <3>2. scanning' = scanning /\ asks' = asks \cup {i} /\ i \notin asks
      BY <3>1, <2>2, <2>4
    <3>3. Pool!Ask(i)
      BY <3>2, <2>2 DEF Pool!Ask
    <3> QED BY <3>3 DEF Pool!PoolNext
  <2>6. CASE t # 0
    <3>1. running < MaxConcurrent /\ Len(queue) = 0 /\ t = 1
      BY <2>6, <2>3, <2>4, <1>0
    <3>2. {q[m] : m \in 1..t} = {i}
      BY <3>1, <2>3
    <3>3. scanning' = scanning \cup {i} /\ asks' = asks \ {i}
      BY <3>2, <2>2, <2>4
    <3>4. Pool!Grant(i)
      BY <3>1, <3>3, <2>2, <1>0 DEF Pool!Grant, Pool!Cardinality, Cardinality
    <3> QED BY <3>4 DEF Pool!PoolNext
  <2> QED
    BY <2>5, <2>6
<1>2. ASSUME NEW i \in Id, NEW o \in {"done", "error"}, Settle(i, o) PROVE Pool!PoolNext
  <2> DEFINE st == [status EXCEPT ![i] = IF @ = "cancelled" THEN @ ELSE o]
  <2>1. /\ Ready(queue, running - 1, st, held, scanning \ {i})
        /\ RunJobs(queue, running - 1, st, held, scanning \ {i})
    BY <1>2, SettleReady DEF Settle
  <2>2. /\ i \in scanning /\ \A j \in Id : st[j] = "queued" <=> status[j] = "queued"
    BY <1>2 DEF Settle, JobInv, JobTypeOK, CancelReachesScan
  <2> HIDE DEF st
  <2>3. PICK t \in 0..Len(queue) :
           /\ scanning' = (scanning \ {i}) \cup {queue[m] : m \in 1..t}
           /\ status' = [j \in Id |-> IF j \in {queue[m] : m \in 1..t} THEN "running" ELSE st[j]]
           /\ running - 1 + t <= MaxConcurrent
           /\ t < Len(queue) => running - 1 + t = MaxConcurrent
    BY <2>1, RunJobsTakes
  <2>4. CASE Len(queue) = 0
    <3>1. {queue[m] : m \in 1..t} = {}
      BY <2>4, <2>3
    <3>2. scanning' = scanning \ {i} /\ asks' = asks
      BY <3>1, <2>2, <2>3
    <3>3. Pool!GiveBack(i)
      BY <3>2, <2>2 DEF Pool!GiveBack
    <3> QED BY <3>3 DEF Pool!PoolNext
  <2>5. CASE Len(queue) # 0
    <3>1. running = MaxConcurrent /\ queue[1] \in Id /\ 1 \in DOMAIN queue
      BY <2>5, <1>0
    <3>2. t = 1
      BY <3>1, <2>3, <1>0
    <3>3. {queue[m] : m \in 1..t} = {queue[1]} /\ status[queue[1]] = "queued"
      BY <3>1, <3>2 DEF JobInv, SlotsAccounted
    <3>4. scanning' = (scanning \ {i}) \cup {queue[1]} /\ asks' = asks \ {queue[1]}
      BY <3>3, <2>2, <2>3
    <3>5. PICK d \in Id : d = queue[1]
      BY <3>1
    <3>6. Pool!HandOver(i, d)
      BY <3>3, <3>4, <3>5, <2>2 DEF Pool!HandOver
    <3> QED BY <3>6 DEF Pool!PoolNext
  <2> QED
    BY <2>4, <2>5
<1>3. ASSUME NEW i \in Id, Cancel(i) PROVE [Pool!PoolNext]_(Pool!poolVars)
  <2>1. /\ scanning' = scanning /\ asks' = asks \ {i}
    BY <1>3 DEF Cancel, JobInv, JobTypeOK
  <2>2. CASE i \in asks
    <3>1. Pool!TurnAway({i})
      BY <2>1, <2>2 DEF Pool!TurnAway
    <3> QED BY <3>1 DEF Pool!PoolNext
  <2>3. CASE i \notin asks
    BY <2>1, <2>3 DEF Pool!poolVars
  <2> QED
    BY <2>2, <2>3
<1>4. CASE TimePasses \/ Sweep \/ Shutdown \/ Exit \/ UNCHANGED jobVars
  <2>1. asks' = asks /\ scanning' = scanning
    BY <1>4 DEF TimePasses, Sweep, Shutdown, Exit, jobVars, JobInv, JobTypeOK
  <2> QED
    BY <2>1 DEF Pool!poolVars
<1> QED
  BY <1>1, <1>2, <1>3, <1>4 DEF JobNext

(* The service implements the bounded pool of SlotPool.tla. *)
THEOREM ServiceIsPool == Spec => ImplementsPool
<1>1. Init => Pool!PoolInit
  BY DEF Init, JobInit, Pool!PoolInit
<1> QED
  BY <1>1, JobInductive, FrontStep, JobStepPool, PTL DEF Spec, ImplementsPool, Pool!PoolSafety
-----------------------------------------------------------------------------
\* What a registry holds: plugins with a name.
Plugin == [name : STRING, object : Nat]

\* A list without two plugins of one name, and an index of just its members.
AgreesOn(ps, ix) ==
  /\ ps \in Seq(Plugin)
  /\ \A m, n \in DOMAIN ps : ps[m].name = ps[n].name => m = n
  /\ \A n \in DOMAIN ps : ps[n].name \in DOMAIN ix /\ ix[ps[n].name] = ps[n]
  /\ \A name \in DOMAIN ix : ix[name].name = name /\ \E n \in DOMAIN ps : ps[n] = ix[name]

Agrees(r) == AgreesOn(r.plugins, r.byName)

(* The index has as many names as the list has plugins. *)
LEMMA NamesCounted ==
  ASSUME NEW ps, NEW ix, AgreesOn(ps, ix)
  PROVE  Len(ps) = Cardinality(DOMAIN ix)
<1> DEFINE f == [n \in 1..Len(ps) |-> ps[n].name]
<1>1. DOMAIN ps = 1..Len(ps) /\ Len(ps) \in Nat
  BY DEF AgreesOn
<1>2. /\ \A a, b \in 1..Len(ps) : f[a] = f[b] => a = b
      /\ f \in [1..Len(ps) -> DOMAIN ix] /\ \A name \in DOMAIN ix : \E n \in 1..Len(ps) : f[n] = name
  BY <1>1 DEF AgreesOn
<1>3. ExistsBijection(1..Len(ps), DOMAIN ix)
  BY <1>2, Zenon DEF ExistsBijection, Bijection, Injection, Surjection, IsInjective
<1> QED
  BY <1>1, <1>3, FS_CountingElements

(* A new registry is empty in both ways. *)
LEMMA NewAgrees == Agrees(NewRegistry)
BY DEF Agrees, AgreesOn, NewRegistry

(* A plugin's place in the list is found by looking for the plugin. *)
LEMMA PlaceOf ==
  ASSUME NEW r, Agrees(r), NEW name \in Names(r)
  PROVE  /\ IndexIn(r, r.byName[name]) \in DOMAIN r.plugins
         /\ r.plugins[IndexIn(r, r.byName[name])] = r.byName[name]
         /\ r.byName[name].name = name
BY DEF Agrees, AgreesOn, Names, IndexIn

(* Putting a plugin in the place of its namesake keeps list and index      *)
(* together.                                                               *)
LEMMA PutAgrees ==
  ASSUME NEW ps, NEW ix, AgreesOn(ps, ix), NEW p \in Plugin, NEW at \in DOMAIN ps,
         ps[at].name = p.name,
         NEW jx, jx = [n \in (DOMAIN ix) \cup {p.name} |-> IF n = p.name THEN p ELSE ix[n]]
  PROVE  AgreesOn([ps EXCEPT ![at] = p], jx)
<1> DEFINE qs == [ps EXCEPT ![at] = p]
<1>1. /\ ps \in Seq(Plugin) /\ DOMAIN qs = DOMAIN ps /\ qs \in Seq(Plugin)
      /\ \A n \in DOMAIN ps : qs[n] = IF n = at THEN p ELSE ps[n]
  BY DEF AgreesOn
<1> HIDE DEF qs
<1>2. \A n \in DOMAIN ps : qs[n].name = ps[n].name
  BY <1>1
<1>3. \A m, n \in DOMAIN qs : qs[m].name = qs[n].name => m = n
  BY <1>1, <1>2 DEF AgreesOn
<1>4. \A n \in DOMAIN qs : qs[n].name \in DOMAIN jx /\ jx[qs[n].name] = qs[n]
  BY <1>1, <1>2, <1>3 DEF AgreesOn
<1>5. \A x \in DOMAIN jx : jx[x].name = x /\ \E n \in DOMAIN qs : qs[n] = jx[x]
  <2> TAKE x \in DOMAIN jx
  <2>1. CASE x = p.name
    BY <2>1, <1>1
  <2>2. CASE x # p.name
    <3>1. x \in DOMAIN ix /\ jx[x] = ix[x] /\ ix[x].name = x
      BY <2>2 DEF AgreesOn
    <3>2. PICK n \in DOMAIN ps : ps[n] = ix[x]
      BY <3>1 DEF AgreesOn
    <3> QED
      BY <3>1, <3>2, <2>2, <1>1
  <2> QED
    BY <2>1, <2>2
<1>6. AgreesOn(qs, jx)
  BY <1>1, <1>3, <1>4, <1>5 DEF AgreesOn
<1> QED
  BY <1>6 DEF qs

(* So does adding one of a new name.                                       *)
LEMMA AddAgrees ==
  ASSUME NEW ps, NEW ix, AgreesOn(ps, ix), NEW p \in Plugin, p.name \notin DOMAIN ix,
         NEW jx, jx = [n \in (DOMAIN ix) \cup {p.name} |-> IF n = p.name THEN p ELSE ix[n]]
  PROVE  AgreesOn(Append(ps, p), jx)
<1> DEFINE qs == Append(ps, p)
           k == Len(ps) + 1
<1>1. /\ ps \in Seq(Plugin) /\ Len(ps) \in Nat /\ DOMAIN ps = 1..Len(ps)
      /\ qs \in Seq(Plugin) /\ DOMAIN qs = 1..k /\ qs[k] = p
      /\ \A n \in DOMAIN ps : qs[n] = ps[n]
  BY AppendProperties DEF AgreesOn
<1>2. \A n \in DOMAIN qs : n = k \/ n \in DOMAIN ps
  BY <1>1
<1> HIDE DEF qs
<1>3. \A n \in DOMAIN ps : qs[n].name # p.name
  BY <1>1 DEF AgreesOn
<1>4. \A m, n \in DOMAIN qs : qs[m].name = qs[n].name => m = n
  BY <1>1, <1>2, <1>3 DEF AgreesOn
<1>5. \A n \in DOMAIN qs : qs[n].name \in DOMAIN jx /\ jx[qs[n].name] = qs[n]
  BY <1>1, <1>2, <1>3 DEF AgreesOn
<1>6. \A x \in DOMAIN jx : jx[x].name = x /\ \E n \in DOMAIN qs : qs[n] = jx[x]
  <2> TAKE x \in DOMAIN jx
  <2>1. CASE x = p.name
    <3>1. k \in DOMAIN qs
      BY <1>1
    <3> QED
      BY <2>1, <3>1, <1>1
  <2>2. CASE x # p.name
    <3>1. x \in DOMAIN ix /\ jx[x] = ix[x] /\ ix[x].name = x
      BY <2>2 DEF AgreesOn
    <3>2. PICK n \in DOMAIN ps : ps[n] = ix[x]
      BY <3>1 DEF AgreesOn
    <3>3. n \in DOMAIN qs
      BY <1>1
    <3> QED
      BY <3>1, <3>2, <3>3, <1>1
  <2> QED
    BY <2>1, <2>2
<1>7. AgreesOn(qs, jx)
  BY <1>1, <1>4, <1>5, <1>6 DEF AgreesOn
<1> QED
  BY <1>7 DEF qs

(* register keeps list and index together, for a new name and a known one. *)
LEMMA RegisterAgrees ==
  ASSUME NEW r, Agrees(r), NEW p \in Plugin
  PROVE  Agrees(Register(r, p))
<1> DEFINE jx == [n \in Names(r) \cup {p.name} |-> IF n = p.name THEN p ELSE r.byName[n]]
<1>1. CASE p.name \in Names(r)
  <2> DEFINE at == IndexIn(r, r.byName[p.name])
  <2>1. at \in DOMAIN r.plugins /\ r.plugins[at].name = p.name
    BY <1>1, PlaceOf
  <2>2. /\ Register(r, p).plugins = [r.plugins EXCEPT ![at] = p]
        /\ Register(r, p).byName = jx
    BY <1>1 DEF Register
  <2> HIDE DEF at
  <2> QED
    BY <2>1, <2>2, PutAgrees DEF Agrees, Names
<1>2. CASE p.name \notin Names(r)
  <2>1. Register(r, p).plugins = Append(r.plugins, p) /\ Register(r, p).byName = jx
    BY <1>2 DEF Register
  <2> QED
    BY <2>1, <1>2, AddAgrees DEF Agrees, Names
<1> QED
  BY <1>1, <1>2

(* Splicing one element out of a sequence moves the ones behind it up.     *)
LEMMA Spliced ==
  ASSUME NEW ps \in Seq(Plugin), NEW at \in 1..Len(ps)
  PROVE  LET qs == SubSeq(ps, 1, at - 1) \o SubSeq(ps, at + 1, Len(ps))
         IN  /\ qs \in Seq(Plugin) /\ DOMAIN qs = 1..(Len(ps) - 1)
             /\ \A n \in 1..(Len(ps) - 1) : qs[n] = IF n < at THEN ps[n] ELSE ps[n + 1]
<1> DEFINE before == SubSeq(ps, 1, at - 1)
           back == SubSeq(ps, at + 1, Len(ps))
<1>1. Len(ps) \in Nat /\ \A n \in 1..Len(ps) : ps[n] \in Plugin
  OBVIOUS
<1>2. /\ before \in Seq(Plugin) /\ Len(before) = at - 1
      /\ \A n \in 1..(at - 1) : before[n] = ps[n]
  <2>1. \A n \in 1..(at - 1) : ps[n] \in Plugin
    BY <1>1
  <2>2. 1 \in Int /\ at - 1 \in Int /\ at \in Int
    BY <1>1
  <2>3. /\ before \in Seq(Plugin)
        /\ Len(before) = IF 1 <= at - 1 THEN (at - 1) - 1 + 1 ELSE 0
        /\ \A n \in 1..((at - 1) - 1 + 1) : before[n] = ps[1 + n - 1]
    BY <2>1, <2>2, SubSeqProperties
  <2> QED
    BY <2>3, <1>1
<1>3. /\ back \in Seq(Plugin) /\ Len(back) = Len(ps) - at
      /\ \A n \in 1..(Len(ps) - at) : back[n] = ps[at + n]
  <2>1. \A n \in (at + 1)..Len(ps) : ps[n] \in Plugin
    BY <1>1
  <2>2. at \in Int /\ at + 1 \in Int /\ Len(ps) \in Int
    BY <1>1
  <2>3. /\ back \in Seq(Plugin)
        /\ Len(back) = IF at + 1 <= Len(ps) THEN Len(ps) - (at + 1) + 1 ELSE 0
        /\ \A n \in 1..(Len(ps) - (at + 1) + 1) : back[n] = ps[(at + 1) + n - 1]
    BY <2>1, <2>2, SubSeqProperties
  <2> QED
    BY <2>3, <1>1
<1> HIDE DEF before, back
<1>4. /\ before \o back \in Seq(Plugin)
      /\ Len(before \o back) = Len(before) + Len(back)
      /\ \A n \in 1..(Len(before) + Len(back)) :
           (before \o back)[n] = IF n <= Len(before) THEN before[n] ELSE back[n - Len(before)]
  BY <1>2, <1>3, ConcatProperties
<1>5. /\ DOMAIN (before \o back) = 1..(Len(ps) - 1)
      /\ \A n \in 1..(Len(ps) - 1) :
           (before \o back)[n] = IF n < at THEN ps[n] ELSE ps[n + 1]
  <2>1. Len(before) + Len(back) = Len(ps) - 1
    BY <1>1, <1>2, <1>3
  <2>2. DOMAIN (before \o back) = 1..(Len(ps) - 1)
    BY <1>4, <2>1
  <2>3. \A n \in 1..(Len(ps) - 1) :
           (before \o back)[n] = IF n < at THEN ps[n] ELSE ps[n + 1]
    <3> TAKE n \in 1..(Len(ps) - 1)
    <3>1. CASE n < at
      BY <3>1, <2>1, <1>1, <1>2, <1>4
    <3>2. CASE ~(n < at)
      <4>1. n - (at - 1) \in 1..(Len(ps) - at) /\ at + (n - (at - 1)) = n + 1
        BY <3>2, <1>1
      <4>2. n \in 1..(Len(before) + Len(back)) /\ ~(n <= Len(before))
        BY <3>2, <2>1, <1>1, <1>2
      <4>3. (before \o back)[n] = back[n - (at - 1)]
        BY <4>2, <1>2, <1>4
      <4>4. back[n - (at - 1)] = ps[n + 1]
        BY <4>1, <1>3
      <4> QED
        BY <3>2, <4>3, <4>4
    <3> QED
      BY <3>1, <3>2
  <2> QED
    BY <2>2, <2>3
<1> QED
  BY <1>4, <1>5 DEF before, back

(* remove takes a plugin out of both. *)
LEMMA RemoveAgrees ==
  ASSUME NEW r, Agrees(r), NEW name
  PROVE  Agrees(Remove(r, name))
<1>1. CASE name \notin Names(r)
  BY <1>1 DEF Remove
<1>2. CASE name \in Names(r)
  <2> DEFINE ps == r.plugins
             at == IndexIn(r, r.byName[name])
             qs == SubSeq(ps, 1, at - 1) \o SubSeq(ps, at + 1, Len(ps))
             jx == [n \in Names(r) \ {name} |-> r.byName[n]]
  <2>1. at \in DOMAIN ps /\ ps[at] = r.byName[name] /\ r.byName[name].name = name
    BY <1>2, PlaceOf
  <2>2. Remove(r, name).plugins = qs /\ Remove(r, name).byName = jx
    BY <1>2 DEF Remove
  <2> HIDE DEF at
  <2>3. ps \in Seq(Plugin) /\ at \in 1..Len(ps)
    BY <2>1 DEF Agrees, AgreesOn
  <2>4. /\ qs \in Seq(Plugin) /\ DOMAIN qs = 1..(Len(ps) - 1)
        /\ \A n \in 1..(Len(ps) - 1) : qs[n] = IF n < at THEN ps[n] ELSE ps[n + 1]
    BY <2>3, Spliced
  <2> HIDE DEF qs
  <2>5. \A m \in DOMAIN ps : m # at => \E n \in DOMAIN qs : qs[n] = ps[m]
    <3> TAKE m \in DOMAIN ps
    <3>1. CASE m < at
      BY <3>1, <2>3, <2>4, SMTT(20)
    <3>2. CASE m > at
      <4>1. m - 1 \in DOMAIN qs /\ ~(m - 1 < at) /\ (m - 1) + 1 = m
        BY <3>2, <2>3, <2>4
      <4> QED
        BY <4>1, <2>4
    <3> QED
      BY <3>1, <3>2, <2>3
  <2>6. AgreesOn(qs, jx)
    <3>1. \A m, n \in DOMAIN qs : qs[m].name = qs[n].name => m = n
      BY <2>3, <2>4, SMTT(20) DEF Agrees, AgreesOn
    <3>2. \A n \in DOMAIN qs : \E m \in DOMAIN ps : m # at /\ qs[n] = ps[m]
      BY <2>3, <2>4
    <3>3. \A n \in DOMAIN qs : qs[n].name \in DOMAIN jx /\ jx[qs[n].name] = qs[n]
      BY <3>2, <2>1 DEF Agrees, AgreesOn, Names
    <3>4. \A x \in DOMAIN jx : jx[x].name = x /\ \E n \in DOMAIN qs : qs[n] = jx[x]
      BY <2>5, <2>1 DEF Agrees, AgreesOn, Names
    <3> QED
      BY <2>4, <3>1, <3>3, <3>4 DEF AgreesOn
  <2> QED
    BY <2>2, <2>6 DEF Agrees
<1> QED
  BY <1>1, <1>2

\* One turn of the loop that fills a registry.
Turn(f, ps, out, n) ==
  IF n = 0 THEN NewRegistry
  ELSE IF ps[n].name \in out THEN f[n - 1] ELSE Register(f[n - 1], ps[n])

(* The loop that fills a registry leaves one that agrees. *)
LEMMA RegisteredAgrees ==
  ASSUME NEW ps \in Seq(Plugin), NEW out
  PROVE  Agrees(RegisteredBut(ps, out))
<1> DEFINE k == Len(ps)
           Fills(f, n) == f = [m \in 0..n |-> Turn(f, ps, out, m)]
<1>0. k \in Nat
  OBVIOUS
<1>1. \E f : Fills(f, k)
  <2> DEFINE S == {n \in 0..k : \E f : Fills(f, n)}
  <2>1. 0 \in S
    <3> DEFINE g == [m \in 0..0 |-> NewRegistry]
    <3>1. g = [m \in 0..0 |-> Turn(g, ps, out, m)]
      BY DEF Turn
    <3> QED
      BY <1>0, <3>1
  <2>2. \A n \in 1..k : n - 1 \in S => n \in S
    <3> SUFFICES ASSUME NEW n \in 1..k, n - 1 \in S PROVE \E f : Fills(f, n)
      BY <1>0
    <3>1. PICK f : f = [m \in 0..(n - 1) |-> Turn(f, ps, out, m)]
      OBVIOUS
    <3> DEFINE g == [m \in 0..n |-> IF m = n THEN Turn(f, ps, out, n) ELSE f[m]]
    <3>2. \A m \in 0..n : Turn(g, ps, out, m) = Turn(f, ps, out, m)
      <4> TAKE m \in 0..n
      <4>1. m # 0 => g[m - 1] = f[m - 1]
        BY <1>0
      <4> HIDE DEF g
      <4> QED
        BY <4>1 DEF Turn
    <3>3. \A m \in 0..(n - 1) : f[m] = Turn(f, ps, out, m)
      BY <3>1
    <3>4. g = [m \in 0..n |-> Turn(g, ps, out, m)]
      <4>1. \A m \in 0..n : g[m] = Turn(g, ps, out, m)
        <5> TAKE m \in 0..n
        <5>1. g[m] = IF m = n THEN Turn(f, ps, out, n) ELSE f[m]
          OBVIOUS
        <5>2. m # n => m \in 0..(n - 1)
          BY <1>0
        <5> HIDE DEF g
        <5> QED
          BY <5>1, <5>2, <3>2, <3>3
      <4>2. DOMAIN g = 0..n /\ g = [m \in 0..n |-> g[m]]
        OBVIOUS
      <4> HIDE DEF g
      <4> QED
        BY <4>1, <4>2
    <3> HIDE DEF g
    <3> QED
      BY <3>4
  <2> HIDE DEF S
  <2>3. 0..k \subseteq S
    BY <2>1, <2>2, <1>0, InductionUpTo
  <2> QED
    BY <2>3, <1>0 DEF S
<1> DEFINE upTo == CHOOSE f : Fills(f, k)
<1>2. Fills(upTo, k)
  BY <1>1
<1>3. RegisteredBut(ps, out) = upTo[k]
  BY DEF RegisteredBut, Turn
<1> HIDE DEF upTo
<1>4. \A n \in 0..k : upTo[n] = Turn(upTo, ps, out, n)
  BY <1>2
<1> DEFINE S == {n \in 0..k : Agrees(upTo[n])}
<1>5. 0 \in S
  BY <1>0, <1>4, NewAgrees DEF Turn
<1>6. \A n \in 1..k : n - 1 \in S => n \in S
  <2> SUFFICES ASSUME NEW n \in 1..k, Agrees(upTo[n - 1]) PROVE Agrees(upTo[n])
    BY <1>0
  <2>1. upTo[n] = Turn(upTo, ps, out, n) /\ n # 0 /\ ps[n] \in Plugin
    BY <1>0, <1>4
  <2>2. Agrees(Register(upTo[n - 1], ps[n]))
    BY <2>1, RegisterAgrees
  <2> QED
    BY <2>1, <2>2 DEF Turn
<1>7. k \in S
  <2> HIDE DEF S
  <2>1. 0..k \subseteq S
    BY <1>0, <1>5, <1>6, InductionUpTo
  <2> QED
    BY <2>1, <1>0
<1> QED
  BY <1>3, <1>7

(* select and exclude leave registries that agree. *)
LEMMA SelectAgrees ==
  ASSUME NEW r, Agrees(r), NEW names, NEW k \in Nat, DOMAIN names = 1..k, ~Unknown(r, names)
  PROVE  Agrees(Select(r, names))
<1> DEFINE ps == [n \in DOMAIN names |-> r.byName[names[n]]]
<1>1. \A x \in Names(r) : r.byName[x] \in Plugin
  BY DEF Agrees, AgreesOn, Names
<1>2. \A n \in 1..k : r.byName[names[n]] \in Plugin
  BY <1>1 DEF Unknown
<1>3. ps \in Seq(Plugin)
  BY <1>2
<1> QED
  BY <1>3, RegisteredAgrees DEF Select, Registered

LEMMA ExcludeAgrees ==
  ASSUME NEW r, Agrees(r), NEW names
  PROVE  Agrees(Exclude(r, names))
BY RegisteredAgrees DEF Exclude, Agrees, AgreesOn

(* The built-in plugins make a registry that agrees. *)
LEMMA DefaultAgrees == Agrees(DefaultRegistry)
<1>1. [n \in DOMAIN Builtin |-> Plain(Builtin[n])] \in Seq(Plugin)
  <2>1. DOMAIN Builtin = 1..Len(Builtin) /\ Len(Builtin) \in Nat
    BY ScanAssumption DEF ScanAssumption
  <2>2. \A n \in 1..Len(Builtin) : Builtin[n] \in STRING
    BY ScanAssumption DEF ScanAssumption
  <2>3. \A n \in 1..Len(Builtin) : Plain(Builtin[n]) \in Plugin
    BY <2>2 DEF Plain, Plugin
  <2> QED
    BY <2>1, <2>3
<1> QED
  BY <1>1, RegisteredAgrees DEF DefaultRegistry, Registered

\* What the lists of names in the options come from: they are sequences,
\* given by the caller or split from a word of the command line.
WordOfFlag == DOMAIN Listed

OptionsTyped ==
  /\ options.plugins \in BOOLEAN /\ options.onlyPlugins \in Seq(STRING)
  /\ argv \in Seq(WordOfFlag \X (WordOfFlag \cup {None})) /\ index \in Nat \ {0}
  /\ "values" \in DOMAIN parsed
  /\ parsed.values \in [Value -> WordOfFlag \cup {None}]

RegistryInv == Agrees(mine) /\ Agrees(used) /\ OptionsTyped

LEMMA RegistryInit == Init => RegistryInv
<1> SUFFICES ASSUME Init PROVE RegistryInv
  OBVIOUS
<1>1. Agrees(mine) /\ Agrees(used)
  BY DefaultAgrees, NewAgrees DEF Init, ScanInit
<1>2. options.plugins \in BOOLEAN /\ options.onlyPlugins \in Seq(STRING)
  <2>1. <<>> \in Seq(STRING)
    BY EmptySeq
  <2>2. DefaultOptions.plugins = FALSE /\ DefaultOptions.onlyPlugins = <<>>
    BY DEF DefaultOptions
  <2> QED
    BY <2>1, <2>2 DEF Init, ScanInit
<1>3. argv \in Seq(WordOfFlag \X (WordOfFlag \cup {None})) /\ index \in Nat \ {0}
  <2>1. argv \in Argvs /\ index \in {1, 2}
    BY DEF Init, CliInit
  <2>2. Argvs \subseteq Seq(WordOfFlag \X (WordOfFlag \cup {None}))
    BY CliAssumption, Zenon DEF CliAssumption, WordOfFlag
  <2>3. argv \in Seq(WordOfFlag \X (WordOfFlag \cup {None}))
    BY <2>1, <2>2, Zenon
  <2> QED
    BY <2>1, <2>3
<1>4. "values" \in DOMAIN parsed /\ parsed.values \in [Value -> WordOfFlag \cup {None}]
  <2>1. "values" \in DOMAIN Empty /\ Empty.values = [f \in Value |-> None]
    BY DEF Empty
  <2>2. \E c : parsed = Empty \/ parsed = [Empty EXCEPT !.command = c]
    BY DEF Init, CliInit
  <2> QED
    BY <2>1, <2>2
<1> QED
  BY <1>1, <1>2, <1>3, <1>4 DEF RegistryInv, OptionsTyped

(* A scan is given a registry that agrees. *)
LEMMA ChosenAgrees ==
  ASSUME RegistryInv, ~Throws
  PROVE  Agrees(Chosen)
<1>1. CASE options.plugins
  BY <1>1 DEF Chosen, RegistryInv
<1>2. CASE ~options.plugins /\ options.onlyPlugins # <<>>
  <2>1. Agrees(Select(DefaultRegistry, options.onlyPlugins))
    <3>1. PICK k \in Nat : DOMAIN options.onlyPlugins = 1..k
      BY DEF RegistryInv, OptionsTyped
    <3>2. ~Unknown(DefaultRegistry, options.onlyPlugins)
      BY <1>2 DEF Throws
    <3> QED
      BY <3>1, <3>2, DefaultAgrees, SelectAgrees
  <2> QED
    BY <1>2, <2>1 DEF Chosen
<1>3. CASE ~options.plugins /\ ~(options.onlyPlugins # <<>>)
  <2>1. Agrees(Exclude(DefaultRegistry, options.excludePlugins))
    BY DefaultAgrees, ExcludeAgrees
  <2> QED
    BY <1>3, <2>1 DEF Chosen
<1> QED
  BY <1>1, <1>2, <1>3

LEMMA ScanKeepsRegistry ==
  ASSUME RegistryInv, ScanNext
  PROVE  Agrees(mine') /\ Agrees(used') /\ options' = options
<1>1. CASE Prepare
  BY <1>1, ChosenAgrees DEF Prepare, RegistryInv
<1>2. CASE PrepareThrows \/ Close \/ \E ok \in BOOLEAN : Run(ok)
  BY <1>2 DEF PrepareThrows, Close, Run, RegistryInv
<1> QED
  BY <1>1, <1>2 DEF ScanNext

LEMMA RecomposeAgrees ==
  ASSUME RegistryInv, Recompose
  PROVE  Agrees(mine')
<1>0. Agrees(mine)
  BY DEF RegistryInv
<1>1. ASSUME NEW p \in Custom, mine' = Register(mine, p) PROVE Agrees(mine')
  BY <1>0, <1>1, RegisterAgrees, FrontAssumption DEF FrontAssumption, Plugin
<1>2. ASSUME NEW name \in Names(mine), mine' = Remove(mine, name) PROVE Agrees(mine')
  BY <1>0, <1>2, RemoveAgrees
<1>3. ASSUME NEW a \in Names(mine), NEW b \in Names(mine), mine' = Select(mine, <<a, b>>)
      PROVE  Agrees(mine')
  <2> DEFINE names == <<a, b>>
  <2>1. DOMAIN names = 1..2 /\ 2 \in Nat
    OBVIOUS
  <2>2. ~Unknown(mine, names)
    BY <2>1 DEF Unknown
  <2> HIDE DEF names
  <2>3. Agrees(Select(mine, names))
    BY <1>0, <2>1, <2>2, SelectAgrees
  <2> QED
    BY <1>3, <2>3 DEF names
<1>4. ASSUME NEW name \in Names(mine), mine' = Exclude(mine, <<name>>) PROVE Agrees(mine')
  BY <1>0, <1>4, ExcludeAgrees
<1> QED
  BY <1>1, <1>2, <1>3, <1>4 DEF Recompose

(* The command line hands on lists of names, and leaves the registry alone. *)
LEMMA CliKeepsTypes ==
  ASSUME RegistryInv, CliNext
  PROVE  RegistryInv'
<1> USE DEF RegistryInv
<1>0. argv' = argv
  BY DEF CliNext, ValueFlag, Header, SwitchFlag, NoCache, CacheFlag, EndOfFlags, Positional,
         Inform, ParseError, Parsed, Fail, MainInforms, MainRefuses, MainScans, MainExits, cliVars
<1>1. CASE ValueFlag /\ UNCHANGED scanVars
  <2>1. Taken \in WordOfFlag
    <3>1. index \in DOMAIN argv
      BY <1>1 DEF ValueFlag, Looping, OptionsTyped
    <3>2. CASE Here[2] # None
      BY <3>1, <3>2 DEF OptionsTyped, Here, Taken
    <3>3. CASE Here[2] = None
      <4>1. index + 1 \in DOMAIN argv
        BY <1>1, <3>3 DEF ValueFlag, HasValue, OptionsTyped
      <4> QED
        BY <4>1, <3>3 DEF OptionsTyped, Next1, Taken
    <3> QED
      BY <3>2, <3>3
  <2>2. /\ "values" \in DOMAIN parsed'
        /\ parsed'.values \in [Value -> WordOfFlag \cup {None}]
    <3>1. parsed' = [parsed EXCEPT !.values = [parsed.values EXCEPT ![Here[1]] = Taken]]
      BY <1>1 DEF ValueFlag
    <3> QED
      BY <3>1, <2>1 DEF OptionsTyped
  <2>3. index' \in Nat \ {0}
    BY <1>1 DEF ValueFlag, Goto, After, OptionsTyped
  <2> QED
    BY <1>0, <1>1, <2>2, <2>3 DEF OptionsTyped, scanVars
<1>2. CASE /\ Header \/ SwitchFlag \/ NoCache \/ CacheFlag \/ EndOfFlags \/ Positional
              \/ Inform \/ ParseError \/ Parsed
           /\ UNCHANGED scanVars
  <2>1. /\ "values" \in DOMAIN parsed'
        /\ parsed'.values = parsed.values
    <3>0. "values" \in DOMAIN parsed
      BY DEF OptionsTyped
    <3>1. CASE Header \/ SwitchFlag \/ NoCache
      BY <3>0, <3>1 DEF Header, SwitchFlag, NoCache
    <3>2. CASE CacheFlag
      BY <3>0, <3>2 DEF CacheFlag
    <3>3. CASE EndOfFlags
      BY <3>0, <3>3 DEF EndOfFlags
    <3>4. CASE Positional
      BY <3>0, <3>4 DEF Positional
    <3>5. CASE Inform
      BY <3>0, <3>5 DEF Inform
    <3>6. CASE ParseError \/ Parsed
      BY <3>0, <3>6 DEF ParseError, Parsed, Fail
    <3> QED
      BY <1>2, <3>1, <3>2, <3>3, <3>4, <3>5, <3>6
  <2>2. index' \in Nat \ {0}
    <3>0. index \in Nat \ {0} /\ Len(argv) \in Nat
      BY DEF OptionsTyped
    <3>1. CASE Header
      BY <3>0, <3>1 DEF Header, Goto, After
    <3>2. CASE SwitchFlag \/ NoCache \/ Positional \/ Inform \/ ParseError \/ Parsed
      BY <3>0, <3>2 DEF SwitchFlag, NoCache, Positional, Inform, ParseError, Parsed, Fail, Goto
    <3>3. CASE CacheFlag
      <4>1. AfterCache \in {index + 1, index + 2}
        BY Zenon DEF AfterCache
      <4>2. index' = AfterCache
        BY <3>3 DEF CacheFlag, Goto
      <4> QED
        BY <3>0, <4>1, <4>2
    <3>4. CASE EndOfFlags
      BY <3>0, <3>4 DEF EndOfFlags, Goto
    <3> QED
      BY <1>2, <3>1, <3>2, <3>3, <3>4
  <2> QED
    BY <1>0, <1>2, <2>1, <2>2 DEF OptionsTyped, scanVars
<1>3. CASE MainInforms \/ MainRefuses \/ MainExits
  BY <1>0, <1>3 DEF MainInforms, MainRefuses, MainExits, Fail, scanVars, OptionsTyped
<1>4. CASE MainScans
  <2>1. \A w \in WordOfFlag \cup {None} : List(w) \in Seq(STRING)
    <3>1. <<>> \in Seq(STRING)
      BY EmptySeq
    <3>2. \A w \in WordOfFlag : Listed[w] \in Seq(STRING)
      BY CliAssumption, Zenon DEF CliAssumption, WordOfFlag
    <3> QED
      BY <3>1, <3>2 DEF List
  <2>2. List(parsed.values["--only-plugins"]) \in Seq(STRING)
    BY <2>1 DEF OptionsTyped, Value
  <2>3. options'.plugins = FALSE /\ options'.onlyPlugins = List(parsed.values["--only-plugins"])
    BY <1>4 DEF MainScans, DefaultOptions
  <2> QED
    BY <1>0, <1>4, <2>2, <2>3 DEF MainScans, OptionsTyped
<1>5. CASE ScanNext /\ UNCHANGED cliVars
  BY <1>5, ScanKeepsRegistry DEF cliVars, OptionsTyped
<1> QED
  BY <1>1, <1>2, <1>3, <1>4, <1>5 DEF CliNext

LEMMA RegistryInductive == RegistryInv /\ [Next]_allVars => RegistryInv'
<1> SUFFICES ASSUME RegistryInv, [Next]_allVars PROVE RegistryInv'
  OBVIOUS
<1>1. CASE CliNext
  BY <1>1, CliKeepsTypes
<1>2. CASE Recompose /\ UNCHANGED cliVars
  BY <1>2, RecomposeAgrees DEF Recompose, cliVars, RegistryInv, OptionsTyped
<1>3. CASE CallScan /\ UNCHANGED cliVars
  BY <1>3, FrontAssumption DEF FrontAssumption, CallScan, cliVars, RegistryInv, OptionsTyped
<1>4. CASE ScanNext /\ UNCHANGED cliVars
  BY <1>4, ScanKeepsRegistry DEF cliVars, RegistryInv, OptionsTyped
<1>5. CASE UNCHANGED <<scanVars, cliVars>>
  BY <1>5 DEF scanVars, cliVars, RegistryInv, OptionsTyped
<1> QED
  BY <1>1, <1>2, <1>3, <1>4, <1>5 DEF Next, allVars

(* The list and the index of the caller's registry, and of the one a scan  *)
(* runs with, hold the same plugins, one per name, after any changes: for  *)
(* any built-in plugins, any plugins of the caller's and any options.      *)
THEOREM RegistriesAgree == Spec => []RegistryAgrees
<1>1. ASSUME NEW r, Agrees(r)
      PROVE  /\ \A n \in DOMAIN r.plugins : LET p == r.plugins[n]
                                           IN p.name \in Names(r) /\ r.byName[p.name] = p
             /\ \A name \in Names(r) : \E n \in DOMAIN r.plugins : r.plugins[n] = r.byName[name]
             /\ Len(r.plugins) = Cardinality(Names(r))
  BY <1>1, NamesCounted DEF Agrees, AgreesOn, Names
<1>2. RegistryInv => RegistryAgrees
  BY <1>1 DEF RegistryInv, RegistryAgrees
<1> QED
  BY <1>2, RegistryInit, RegistryInductive, PTL DEF Spec
-----------------------------------------------------------------------------
(* How the arguments of a line are read, by the places they start at.       *)

\* Whether a word of the line stands for a value: what Starts computes from.
LEMMA StartsAt ==
  ASSUME NEW line \in Argvs
  PROVE  /\ Len(line) \in Nat
         /\ \A n \in 1..Len(line) :
              Starts(line)[n] = (n = 1 \/ ~Starts(line)[n - 1] \/ ~Wants(line, n - 1))
<1> DEFINE k == Len(line)
           wants == [n \in 1..k |-> Wants(line, n - 1)]
           step == [n \in 1..k |-> [b \in BOOLEAN |-> ~b \/ ~wants[n]]]
           Fills(f) == f = [n \in 1..k |-> n = 1 \/ ~f[n - 1] \/ ~Wants(line, n - 1)]
<1>0. k \in Nat
  <2>1. line \in Seq((DOMAIN Listed) \X ((DOMAIN Listed) \cup {None}))
    BY CliAssumption, Zenon DEF CliAssumption
  <2> QED
    BY <2>1
<1>1. PICK f \in [0..k -> BOOLEAN] : Steps(f, k, FALSE, step)
  <2>1. step \in [1..k -> [BOOLEAN -> BOOLEAN]] /\ FALSE \in BOOLEAN
    OBVIOUS
  <2> HIDE DEF step, k
  <2> QED
    BY <1>0, <2>1, StepwiseFunction
<1> DEFINE g == [n \in 1..k |-> f[n]]
<1>2. \A n \in 1..k : f[n] = (~f[n - 1] \/ ~Wants(line, n - 1))
  <2> TAKE n \in 1..k
  <2>1. n - 1 \in 0..k
    BY <1>0
  <2>2. f[n - 1] \in BOOLEAN
    BY <2>1
  <2>3. f[n] = step[n][f[n - 1]]
    BY <1>1, Zenon DEF Steps
  <2>4. step[n][f[n - 1]] = (~f[n - 1] \/ ~wants[n])
    BY <2>2, Zenon
  <2>5. wants[n] = Wants(line, n - 1)
    BY Zenon
  <2> QED
    BY <2>3, <2>4, <2>5, Zenon
<1>3. \A n \in 1..k : g[n] = (n = 1 \/ ~g[n - 1] \/ ~Wants(line, n - 1))
  <2> TAKE n \in 1..k
  <2>1. g[n] = (~f[n - 1] \/ ~Wants(line, n - 1))
    BY <1>2, Zenon
  <2>2. CASE n = 1
    <3>1. f[n - 1] = FALSE
      BY <1>1, <2>2 DEF Steps
    <3> QED
      BY <2>1, <2>2, <3>1, Zenon
  <2>3. CASE n # 1
    <3>1. n - 1 \in 1..k
      BY <1>0, <2>3
    <3>2. g[n - 1] = f[n - 1]
      BY <3>1, Zenon
    <3> QED
      BY <2>1, <2>3, <3>2, Zenon
  <2> QED
    BY <2>2, <2>3
<1>4. Fills(g)
  <2>1. g = [n \in 1..k |-> g[n]]
    BY Zenon
  <2> HIDE DEF g, k
  <2>2. [n \in 1..k |-> g[n]] = [n \in 1..k |-> n = 1 \/ ~g[n - 1] \/ ~Wants(line, n - 1)]
    BY <1>3, Zenon
  <2> QED
    BY <2>1, <2>2, Zenon
<1> DEFINE starts == CHOOSE h : Fills(h)
<1>5. Fills(starts)
  BY <1>4, Zenon
<1>6. Starts(line) = starts
  BY DEF Starts
<1> HIDE DEF starts, g, k
<1>7. \A n \in 1..k : starts[n] = (n = 1 \/ ~starts[n - 1] \/ ~Wants(line, n - 1))
  BY <1>5, Zenon
<1> QED
  BY <1>0, <1>6, <1>7, Zenon DEF k

\* The loop of parseArgs stands at i, and i starts an argument; no `--` did.
Reading(line, i) ==
  /\ i \in 1..(Len(line) + 1)
  /\ i <= Len(line) => Starts(line)[i]
  /\ \A m \in 1..(i - 1) : Starts(line)[m] => line[m] # <<"--", None>>

\* The arguments before i that speak of the cache.
Spoken(line, i) == {n \in SpeaksOfCache(line) : n < i}

(* The next argument starts right after one that takes no value.            *)
LEMMA ReadOne ==
  ASSUME NEW line \in Argvs, NEW i, Reading(line, i), i <= Len(line),
         ~Wants(line, i), line[i] # <<"--", None>>
  PROVE  /\ Reading(line, i + 1)
         /\ line[i][1] \in {"--cache", "--no-cache"} =>
              Spoken(line, i + 1) = Spoken(line, i) \cup {i}
         /\ line[i][1] \notin {"--cache", "--no-cache"} => Spoken(line, i + 1) = Spoken(line, i)
<1>0. Len(line) \in Nat /\ i \in 1..Len(line) /\ Starts(line)[i]
  BY StartsAt DEF Reading
<1>1. i + 1 <= Len(line) => Starts(line)[i + 1]
  <2> SUFFICES ASSUME i + 1 <= Len(line) PROVE Starts(line)[i + 1]
    OBVIOUS
  <2>1. i + 1 \in 1..Len(line) /\ (i + 1) - 1 = i
    BY <1>0
  <2> QED
    BY <2>1, StartsAt
<1>2. \A m \in 1..((i + 1) - 1) : m = i \/ m \in 1..(i - 1)
  BY <1>0
<1>3. i + 1 \in 1..(Len(line) + 1)
  BY <1>0
<1>4. Reading(line, i + 1)
  BY <1>1, <1>2, <1>3 DEF Reading
<1>5. i \in ReadAsFlag(line)
  BY <1>0 DEF Reading, ReadAsFlag
<1>6. \A n \in ReadAsFlag(line) : n < i + 1 <=> (n < i \/ n = i)
  BY <1>0 DEF ReadAsFlag
<1> QED
  BY <1>4, <1>5, <1>6 DEF Spoken, SpeaksOfCache

(* A flag that wants a value takes the next argument for it.                *)
LEMMA ReadTwo ==
  ASSUME NEW line \in Argvs, NEW i, Reading(line, i), i < Len(line), Wants(line, i)
  PROVE  Reading(line, i + 2) /\ Spoken(line, i + 2) = Spoken(line, i)
<1>0. Len(line) \in Nat /\ i \in 1..Len(line) /\ Starts(line)[i]
  BY StartsAt DEF Reading
<1>1. ~Starts(line)[i + 1]
  <2>1. i + 1 \in 1..Len(line) /\ (i + 1) - 1 = i /\ i + 1 # 1
    BY <1>0
  <2> QED
    BY <1>0, <2>1, StartsAt
<1>2. i + 2 <= Len(line) => Starts(line)[i + 2]
  <2> SUFFICES ASSUME i + 2 <= Len(line) PROVE Starts(line)[i + 2]
    OBVIOUS
  <2>1. i + 2 \in 1..Len(line) /\ (i + 2) - 1 = i + 1
    BY <1>0
  <2> QED
    BY <1>1, <2>1, StartsAt
<1>3. line[i][1] \in Value \cup {"--header"}
  BY DEF Wants
<1>4. line[i] # <<"--", None>> /\ line[i][1] \notin {"--cache", "--no-cache"}
  BY <1>3 DEF Value
<1>5. \A m \in 1..((i + 2) - 1) : m = i \/ m = i + 1 \/ m \in 1..(i - 1)
  BY <1>0
<1>6. i + 2 \in 1..(Len(line) + 1)
  BY <1>0
<1>7. Reading(line, i + 2)
  BY <1>1, <1>2, <1>4, <1>5, <1>6 DEF Reading
<1>8. \A n \in ReadAsFlag(line) : n < i + 2 <=> (n < i \/ n = i)
  <2>1. i + 1 \notin ReadAsFlag(line)
    BY <1>1 DEF ReadAsFlag
  <2>2. ReadAsFlag(line) \subseteq 1..Len(line)
    BY DEF ReadAsFlag
  <2> QED
    BY <1>0, <2>1, <2>2
<1> QED
  BY <1>4, <1>7, <1>8 DEF Spoken, SpeaksOfCache

(* At the end of the line, and at a `--`, all that speaks of the cache has  *)
(* been read.                                                              *)
LEMMA ReadAll ==
  ASSUME NEW line \in Argvs, NEW i, Reading(line, i),
         i > Len(line) \/ line[i] = <<"--", None>>
  PROVE  Spoken(line, i) = SpeaksOfCache(line)
<1>0. Len(line) \in Nat /\ i \in 1..(Len(line) + 1)
  BY StartsAt DEF Reading
<1>1. ReadAsFlag(line) \subseteq 1..Len(line)
  BY DEF ReadAsFlag
<1>2. CASE i > Len(line)
  BY <1>0, <1>1, <1>2 DEF Spoken, SpeaksOfCache
<1>3. CASE i <= Len(line) /\ line[i] = <<"--", None>>
  <2>1. i \in 1..Len(line) /\ Starts(line)[i]
    BY <1>0, <1>3 DEF Reading
  <2>2. ASSUME NEW n \in SpeaksOfCache(line), ~(n < i) PROVE FALSE
    <3>1. n \in ReadAsFlag(line) /\ line[n][1] \in {"--cache", "--no-cache"}
      BY <2>2 DEF SpeaksOfCache
    <3>2. n # i
      BY <1>3, <3>1
    <3>3. i \in 1..(n - 1)
      BY <1>0, <1>1, <2>1, <2>2, <3>1, <3>2
    <3> QED
      BY <1>3, <2>1, <3>1, <3>3 DEF ReadAsFlag
  <2> QED
    BY <2>2 DEF Spoken
<1> QED
  BY <1>0, <1>2, <1>3

(* The last that spoke decides.                                            *)
LEMMA LastSpeaks ==
  ASSUME NEW line \in Argvs, NEW i \in Nat
  PROVE  Allows(line, Spoken(line, i) \cup {i}) = ~SaysNo(line, i)
<1> DEFINE said == Spoken(line, i) \cup {i}
           Last(n) == n \in said /\ \A m \in said : m <= n
<1>1. \A m \in said : m \in Int /\ m <= i
  <2>1. SpeaksOfCache(line) \subseteq Int
    BY StartsAt DEF SpeaksOfCache, ReadAsFlag
  <2> QED
    BY <2>1 DEF Spoken
<1>2. Last(i)
  BY <1>1
<1>3. \A n : Last(n) => n = i
  <2> TAKE n
  <2>1. ASSUME Last(n) PROVE n = i
    <3>1. n \in Int /\ n <= i /\ i <= n
      BY <1>1, <1>2, <2>1
    <3> QED
      BY <3>1
  <2> QED
    BY <2>1
<1> DEFINE last == CHOOSE n \in said : \A m \in said : m <= n
<1>4. last = i
  <2>1. Last(last)
    BY <1>2, Zenon
  <2> QED
    BY <1>3, <2>1, Zenon
<1> HIDE DEF last
<1>5. said # {}
  OBVIOUS
<1> HIDE DEF said
<1>6. Allows(line, said) = ~SaysNo(line, last)
  BY <1>5, Zenon DEF Allows, last
<1> QED
  BY <1>4, <1>6, Zenon DEF said

(* The loop begins at the first argument, with nothing said.                *)
LEMMA ReadStart ==
  ASSUME NEW line \in Argvs, line # <<>>
  PROVE  Len(line) >= 1 /\ Reading(line, 1) /\ Spoken(line, 1) = {} /\ Allows(line, {}) = TRUE
<1>1. Len(line) \in Nat /\ Len(line) >= 1
  <2>1. line \in Seq((DOMAIN Listed) \X ((DOMAIN Listed) \cup {None}))
    BY CliAssumption, Zenon DEF CliAssumption
  <2> QED
    BY <2>1
<1>2. Starts(line)[1]
  <2>1. 1 \in 1..Len(line)
    BY <1>1
  <2>2. Starts(line)[1] = (1 = 1 \/ ~Starts(line)[1 - 1] \/ ~Wants(line, 1 - 1))
    BY <2>1, StartsAt, Zenon
  <2> QED
    BY <2>2, Zenon
<1>3. Reading(line, 1)
  BY <1>1, <1>2 DEF Reading
<1>4. Spoken(line, 1) = {}
  BY <1>1 DEF Spoken, SpeaksOfCache, ReadAsFlag
<1>5. Allows(line, {}) = TRUE
  BY Zenon DEF Allows
<1> QED
  BY <1>1, <1>3, <1>4, <1>5

\* While parseArgs loops, what it has taken up is what the arguments before say.
Heard == Reading(argv, index) /\ parsed.cache = Allows(argv, Spoken(argv, index))
HeardAll == parsed.cache = Allows(argv, SpeaksOfCache(argv))

Fields == {"command", "url", "values", "switches", "headers", "cache", "writeCache"}

ParseInv ==
  /\ argv \in Argvs
  /\ Fields \subseteq DOMAIN parsed /\ parsed.writeCache = TRUE
  /\ cli = "parsing" /\ parsed.command = "scan" => Heard
  /\ cli = "main" /\ parsed.command = "scan" => HeardAll

LEMMA ParseInit == CliInit => ParseInv
<1> SUFFICES ASSUME CliInit PROVE ParseInv
  OBVIOUS
<1>1. argv \in Argvs /\ cli = "parsing"
  BY DEF CliInit
<1>2. parsed.cache = TRUE /\ parsed.writeCache = TRUE /\ Fields \subseteq DOMAIN parsed
  <2>1. \E c : parsed = Empty \/ parsed = [Empty EXCEPT !.command = c]
    BY DEF CliInit
  <2> QED
    BY <2>1 DEF Empty, Fields
<1>3. ASSUME parsed.command = "scan" PROVE Heard
  <2>1. argv # <<>>
    BY <1>3 DEF CliInit, Empty
  <2>2. Heard \/ index # 1
    BY <1>1, <1>2, <2>1, ReadStart DEF Heard
  <2>3. CASE index # 1
    <3>1. index = 1 + 1 /\ argv[1] = <<"scan", None>>
      BY <2>3, <2>1 DEF CliInit
    <3>2. ~Wants(argv, 1) /\ argv[1][1] \notin {"--cache", "--no-cache"}
          /\ argv[1] # <<"--", None>>
      BY <3>1 DEF Wants, Value
    <3>3. Reading(argv, 1) /\ 1 <= Len(argv) /\ Spoken(argv, 1) = {}
      BY <1>1, <2>1, ReadStart, StartsAt
    <3>4. Reading(argv, 1 + 1) /\ Spoken(argv, 1 + 1) = Spoken(argv, 1)
      BY <1>1, <3>2, <3>3, ReadOne
    <3> QED
      BY <1>1, <1>2, <2>1, <3>1, <3>3, <3>4, ReadStart DEF Heard
  <2> QED
    BY <2>2, <2>3
<1> QED
  BY <1>1, <1>2, <1>3 DEF ParseInv

(* A flag takes its value from behind `=` or from the next argument.        *)
LEMMA ReadValue ==
  ASSUME ParseInv, Looping, Here[1] \in Value \cup {"--header"}, HasValue,
         index' = After, argv' = argv, parsed'.cache = parsed.cache
  PROVE  Heard'
<1>1. Heard /\ argv \in Argvs /\ index <= Len(argv)
  BY DEF ParseInv, Looping
<1>2. argv[index] # <<"--", None>> /\ argv[index][1] \notin {"--cache", "--no-cache"}
  BY DEF Here, Value
<1>3. CASE Here[2] # None
  <2>1. ~Wants(argv, index) /\ index' = index + 1
    BY <1>3 DEF Wants, After, Here
  <2> QED
    BY <1>1, <1>2, <2>1, ReadOne DEF Heard
<1>4. CASE Here[2] = None
  <2>1. Wants(argv, index) /\ index' = index + 2 /\ index < Len(argv)
    BY <1>4 DEF Wants, After, Here, HasValue
  <2> QED
    BY <1>1, <2>1, ReadTwo DEF Heard
<1> QED
  BY <1>3, <1>4

(* An argument that has nothing to do with the cache and takes no value.    *)
LEMMA ReadPlain ==
  ASSUME ParseInv, Looping,
         Here[1] \notin Value \cup {"--header", "--", "--cache", "--no-cache"},
         index' = index + 1, argv' = argv, parsed'.cache = parsed.cache
  PROVE  Heard'
<1>1. Heard /\ argv \in Argvs /\ index <= Len(argv)
  BY DEF ParseInv, Looping
<1>2. /\ argv[index] # <<"--", None>> /\ argv[index][1] \notin {"--cache", "--no-cache"}
      /\ ~Wants(argv, index)
  BY DEF Here, Wants
<1> QED
  BY <1>1, <1>2, ReadOne DEF Heard

(* --no-cache says no, whatever went before.                                *)
LEMMA ReadNoCache ==
  ASSUME ParseInv, NoCache
  PROVE  Heard'
<1>1. Heard /\ argv \in Argvs /\ index <= Len(argv) /\ argv' = argv /\ index' = index + 1
  BY DEF ParseInv, Looping, NoCache, Goto
<1>2. argv[index][1] = "--no-cache"
  BY DEF NoCache, Here
<1>3. ~Wants(argv, index) /\ argv[index] # <<"--", None>>
  BY <1>2 DEF Wants, Value
<1>4. Reading(argv, index + 1) /\ Spoken(argv, index + 1) = Spoken(argv, index) \cup {index}
  BY <1>1, <1>2, <1>3, ReadOne DEF Heard
<1>5. parsed'.cache = FALSE
  BY DEF NoCache, ParseInv, Fields
<1>6. SaysNo(argv, index)
  BY <1>2 DEF SaysNo
<1>7. index \in Nat
  BY <1>1, StartsAt DEF Heard, Reading
<1>8. Allows(argv, Spoken(argv, index) \cup {index}) = ~SaysNo(argv, index)
  BY <1>1, <1>7, LastSpeaks
<1> QED
  BY <1>1, <1>4, <1>5, <1>6, <1>8, Zenon DEF Heard

(* --cache says what its word says, and the word says nothing by itself.    *)
LEMMA ReadCache ==
  ASSUME ParseInv, CacheFlag
  PROVE  Heard'
<1>1. Heard /\ argv \in Argvs /\ index <= Len(argv) /\ argv' = argv /\ index' = AfterCache
  BY DEF ParseInv, Looping, CacheFlag, Goto
<1>0. index \in Nat /\ Len(argv) \in Nat /\ index \in 1..Len(argv)
  BY <1>1, StartsAt DEF Heard, Reading
<1>2. argv[index][1] = "--cache" /\ Here = argv[index]
  BY DEF CacheFlag, Here
<1>3. ~Wants(argv, index) /\ argv[index] # <<"--", None>>
  BY <1>2 DEF Wants, Value
<1>4. Reading(argv, index + 1) /\ Spoken(argv, index + 1) = Spoken(argv, index) \cup {index}
  BY <1>1, <1>2, <1>3, ReadOne DEF Heard
<1>5. parsed'.cache = (CacheWord \notin NoWords)
  BY Zenon DEF CacheFlag, ParseInv, Fields
<1>6. \A n \in 1..Len(argv) : argv[n][1] \notin Flag => argv[n][2] = None
  <2>1. \A n \in DOMAIN argv : argv[n][1] \notin Flag => argv[n][2] = None
    BY <1>1, CliAssumption, Zenon DEF CliAssumption
  <2>2. argv \in Seq((DOMAIN Listed) \X ((DOMAIN Listed) \cup {None}))
    BY <1>1, CliAssumption, Zenon DEF CliAssumption
  <2> QED
    BY <2>1, <2>2
<1>7. \A n \in 1..Len(argv) : argv[n] = <<argv[n][1], argv[n][2]>>
  <2>2. argv \in Seq((DOMAIN Listed) \X ((DOMAIN Listed) \cup {None}))
    BY <1>1, CliAssumption, Zenon DEF CliAssumption
  <2> QED
    BY <2>2
<1>8. "" \notin NoWords /\ None \notin NoWords /\ NoWords \cap Flag = {}
  BY CliAssumption, Zenon DEF CliAssumption
<1>9. Reading(argv, AfterCache) /\ Spoken(argv, AfterCache) = Spoken(argv, index) \cup {index}
  <2>1. CASE Here[2] = None /\ Lends
    <3>1. /\ AfterCache = (index + 1) + 1 /\ index + 1 <= Len(argv)
          /\ argv[index + 1][1] \notin Flag
      BY <2>1, <1>0 DEF AfterCache, Lends, IsFlag, Next1
    <3>2. /\ ~Wants(argv, index + 1) /\ argv[index + 1] # <<"--", None>>
          /\ argv[index + 1][1] \notin {"--cache", "--no-cache"}
      BY <3>1 DEF Wants, Flag
    <3> QED
      BY <1>1, <1>4, <3>1, <3>2, ReadOne
  <2>2. CASE ~(Here[2] = None /\ Lends)
    <3>1. AfterCache = index + 1
      BY <2>2, Zenon DEF AfterCache
    <3> QED
      BY <1>4, <3>1
  <2> QED
    BY <2>1, <2>2
<1>10. CacheWord \in NoWords <=> SaysNo(argv, index)
  <2>1. CASE Here[2] # None
    BY <2>1, <1>2 DEF CacheWord, SaysNo
  <2>2. CASE Here[2] = None /\ Lends
    <3>1. CacheWord = argv[index + 1][1] /\ index < Len(argv)
      BY <2>2 DEF CacheWord, Lends, Next1
    <3>2. argv[index + 1] = <<argv[index + 1][1], None>>
      <4>1. index + 1 \in 1..Len(argv)
        BY <1>0, <3>1
      <4>2. argv[index + 1][1] \notin Flag
        BY <2>2 DEF Lends, IsFlag, Next1
      <4> QED
        BY <4>1, <4>2, <1>6, <1>7, Zenon
    <3>3. argv[index + 1] \in {<<w, None>> : w \in NoWords} <=> CacheWord \in NoWords
      <4>1. \A w : <<argv[index + 1][1], None>> = <<w, None>> => w = argv[index + 1][1]
        OBVIOUS
      <4> QED
        BY <3>1, <3>2, <4>1, Zenon
    <3>4. argv[index][1] # "--no-cache" /\ argv[index][2] = None
      BY <1>2, <2>2
    <3> QED
      BY <3>1, <3>3, <3>4, <1>8, Zenon DEF SaysNo
  <2>3. CASE Here[2] = None /\ ~Lends
    <3>1. CacheWord = ""
      BY <2>3 DEF CacheWord
    <3>2. ASSUME index < Len(argv), NEW w \in NoWords, argv[index + 1] = <<w, None>>
          PROVE  FALSE
      <4>1. argv[index + 1][1] = w
        BY <3>2
      <4>2. argv[index + 1][1] \in Flag
        BY <2>3, <3>2, Zenon DEF Lends, IsFlag, Next1
      <4> QED
        BY <4>1, <4>2, <1>8
    <3> QED
      BY <3>1, <3>2, <2>3, <1>2, <1>8 DEF SaysNo
  <2> QED
    BY <2>1, <2>2, <2>3
<1>11. Allows(argv, Spoken(argv, index) \cup {index}) = ~SaysNo(argv, index)
  BY <1>0, <1>1, LastSpeaks
<1> QED
  BY <1>1, <1>5, <1>9, <1>10, <1>11, Zenon DEF Heard

\* What main hands on, and where a process stands that did not start as the
\* command line.
CliInv ==
  /\ ParseInv
  /\ cli \in {"parsing", "main"} /\ front = "cli" => call = "idle"
  /\ front # "cli" => cli = "parsing"
  /\ cli = "scan" /\ call = "asked" =>
       /\ options.cache = Allows(argv, SpeaksOfCache(argv)) /\ options.writeCache = TRUE
       /\ options.storage = FALSE /\ options.noCache = FALSE
  /\ CacheFlagsHonoured

LEMMA CliInitInv == Init => CliInv
<1> SUFFICES ASSUME Init PROVE CliInv
  OBVIOUS
<1>1. ParseInv /\ cli = "parsing" /\ call = "idle"
  BY ParseInit DEF Init, CliInit, ScanInit
<1> QED
  BY <1>1 DEF CliInv, CacheFlagsHonoured

(* Each step of parseArgs takes up what the arguments it passes say.        *)
LEMMA ParseStep ==
  ASSUME ParseInv,
         \/ ValueFlag \/ Header \/ SwitchFlag \/ NoCache \/ CacheFlag \/ EndOfFlags
         \/ Positional \/ Inform \/ ParseError \/ Parsed
  PROVE  ParseInv' /\ cli = "parsing" /\ cli' \in {"parsing", "main", "exited"}
<1> USE DEF ParseInv
<1>0. argv' = argv /\ cli = "parsing" /\ cli' \in {"parsing", "main", "exited"}
  BY DEF ValueFlag, Header, SwitchFlag, NoCache, CacheFlag, EndOfFlags, Positional, Inform,
         ParseError, Parsed, Fail, Goto, Looping
<1>1. Fields \subseteq DOMAIN parsed' /\ parsed'.writeCache = TRUE
  <2>1. CASE ValueFlag \/ Header \/ SwitchFlag
    BY <2>1 DEF ValueFlag, Header, SwitchFlag, Fields
  <2>2. CASE NoCache \/ CacheFlag \/ EndOfFlags
    BY <2>2 DEF NoCache, CacheFlag, EndOfFlags, Fields
  <2>3. CASE Positional \/ Inform \/ ParseError \/ Parsed
    BY <2>3 DEF Positional, Inform, ParseError, Parsed, Fail, Fields
  <2> QED
    BY <2>1, <2>2, <2>3
<1>2. CASE ValueFlag \/ Header
  <2>1. /\ Looping /\ Here[1] \in Value \cup {"--header"} /\ HasValue
        /\ index' = After /\ cli' = "parsing" /\ parsed'.cache = parsed.cache
    BY <1>2 DEF ValueFlag, Header, Goto, Fields
  <2>2. Heard'
    BY <1>0, <2>1, ReadValue
  <2> QED
    BY <1>0, <1>1, <2>1, <2>2
<1>3. CASE SwitchFlag \/ Positional
  <2>1. /\ Looping /\ index' = index + 1 /\ cli' = "parsing" /\ parsed'.cache = parsed.cache
    BY <1>3 DEF SwitchFlag, Positional, Goto, Fields
  <2>2. Here[1] \notin Value \cup {"--header", "--", "--cache", "--no-cache"}
    BY <1>3 DEF SwitchFlag, Positional, IsFlag, Flag, Switch, Value
  <2>3. Heard'
    BY <1>0, <2>1, <2>2, ReadPlain
  <2> QED
    BY <1>0, <1>1, <2>1, <2>3
<1>4. CASE NoCache \/ CacheFlag
  <2>1. cli' = "parsing"
    BY <1>4 DEF NoCache, CacheFlag, Goto
  <2>2. Heard'
    BY <1>4, ReadNoCache, ReadCache
  <2> QED
    BY <1>0, <1>1, <2>1, <2>2
<1>5. CASE EndOfFlags
  <2>1. Heard /\ argv[index] = <<"--", None>> /\ cli' = "main" /\ parsed'.cache = parsed.cache
    BY <1>5 DEF EndOfFlags, Looping, Goto, Here, Fields
  <2>2. HeardAll'
    BY <1>0, <2>1, ReadAll DEF Heard, HeardAll
  <2> QED
    BY <1>0, <1>1, <2>1, <2>2
<1>6. CASE Inform
  <2>1. parsed'.command # "scan"
    BY <1>6 DEF Inform, Fields
  <2> QED
    BY <1>0, <1>1, <2>1
<1>7. CASE ParseError
  BY <1>0, <1>1, <1>7 DEF ParseError, Fail
<1>8. CASE Parsed
  <2>1. parsed' = parsed /\ cli' = "main" /\ (index > Len(argv) \/ parsed.command # "scan")
    BY <1>8 DEF Parsed, Goto
  <2>2. ASSUME parsed.command = "scan" PROVE HeardAll'
    BY <1>0, <2>1, <2>2, ReadAll DEF Heard, HeardAll
  <2> QED
    BY <1>0, <1>1, <2>1, <2>2
<1> QED
  BY <1>2, <1>3, <1>4, <1>5, <1>6, <1>7, <1>8

(* The scan is given the store the arguments asked for, and keeps it.       *)
LEMMA ScanStore ==
  ASSUME CliInv, cli = "scan", ScanNext, UNCHANGED cliVars, front' = front, front = "cli"
  PROVE  CliInv'
<1>0. ParseInv' /\ cli' = "scan" /\ argv' = argv
  BY DEF CliInv, ParseInv, Heard, HeardAll, cliVars
<1>1. CASE Prepare
  <2>1. /\ options.cache = Allows(argv, SpeaksOfCache(argv)) /\ options.writeCache = TRUE
        /\ options.storage = FALSE /\ options.noCache = FALSE
    BY <1>1 DEF CliInv, Prepare
  <2>2. HasFilesystem \in BOOLEAN
    BY ScanAssumption DEF ScanAssumption
  <2>3. Allows(argv, SpeaksOfCache(argv)) \in BOOLEAN
    BY Zenon DEF Allows
  <2>4. store' = Access /\ call' = "running"
    BY <1>1 DEF Prepare
  <2>5. Access.readable = (HasFilesystem /\ Allows(argv, SpeaksOfCache(argv)))
    <3>1. CASE HasFilesystem
      <4>1. Access.readable = (~options.noCache /\ options.cache)
        BY <3>1 DEF Access
      <4>2. (~options.noCache /\ options.cache) = Allows(argv, SpeaksOfCache(argv))
        BY <2>1, <2>3, Zenon
      <4> QED
        BY <3>1, <4>1, <4>2, <2>3, Zenon
    <3>2. CASE ~HasFilesystem
      <4>1. Access.readable = FALSE
        BY <3>2, <2>1 DEF Access, NoAccess
      <4> QED
        BY <3>2, <4>1, Zenon
    <3> QED
      BY <3>1, <3>2
  <2>6. Access.writable = HasFilesystem
    BY <2>1, <2>2 DEF Access, NoAccess
  <2>7. CacheFlagsHonoured'
    BY <1>0, <2>4, <2>5, <2>6, Zenon DEF CacheFlagsHonoured
  <2> QED
    BY <1>0, <2>4, <2>7 DEF CliInv
<1>2. CASE PrepareThrows
  BY <1>0, <1>2 DEF PrepareThrows, CliInv, CacheFlagsHonoured
<1>3. CASE Close \/ \E ok \in BOOLEAN : Run(ok)
  BY <1>0, <1>3 DEF Close, Run, CliInv, CacheFlagsHonoured
<1> QED
  BY <1>1, <1>2, <1>3 DEF ScanNext

LEMMA CliInductive == CliInv /\ [Next]_allVars => CliInv'
<1> SUFFICES ASSUME CliInv, [Next]_allVars PROVE CliInv'
  OBVIOUS
<1>1. CASE /\ front = "cli" /\ front' = front /\ UNCHANGED scanVars
           /\ \/ ValueFlag \/ Header \/ SwitchFlag \/ NoCache \/ CacheFlag \/ EndOfFlags
              \/ Positional \/ Inform \/ ParseError \/ Parsed
  BY <1>1, ParseStep DEF CliInv, CacheFlagsHonoured, scanVars
<1>2. CASE front = "cli" /\ front' = front /\ (MainInforms \/ MainRefuses)
  BY <1>2 DEF MainInforms, MainRefuses, Fail, scanVars, CliInv, ParseInv, CacheFlagsHonoured
<1>3. CASE front = "cli" /\ front' = front /\ MainScans
  <2>1. parsed.command = "scan" /\ cli = "main" /\ cli' = "scan" /\ call' = "asked"
    BY <1>3 DEF MainScans, Informational
  <2>2. HeardAll /\ parsed.writeCache = TRUE /\ argv' = argv /\ parsed' = parsed
    BY <1>3, <2>1 DEF MainScans, CliInv, ParseInv
  <2>3. /\ options'.cache = parsed.cache /\ options'.writeCache = parsed.writeCache
        /\ options'.storage = FALSE /\ options'.noCache = FALSE
    BY <1>3 DEF MainScans, DefaultOptions
  <2>4. ParseInv'
    BY <2>1, <2>2 DEF CliInv, ParseInv
  <2> QED
    BY <1>3, <2>1, <2>2, <2>3, <2>4 DEF CliInv, HeardAll, CacheFlagsHonoured
<1>4. CASE front = "cli" /\ front' = front /\ MainExits
  BY <1>4 DEF MainExits, scanVars, CliInv, ParseInv, CacheFlagsHonoured
<1>5. CASE front = "cli" /\ front' = front /\ cli = "scan" /\ ScanNext /\ UNCHANGED cliVars
  BY <1>5, ScanStore
<1>6. CASE front # "cli" /\ front' = front /\ UNCHANGED cliVars
  BY <1>6 DEF cliVars, CliInv, ParseInv, Heard, HeardAll, CacheFlagsHonoured
<1>7. CASE UNCHANGED <<front, cliVars, scanVars>>
  BY <1>7 DEF cliVars, scanVars, CliInv, ParseInv, Heard, HeardAll, CacheFlagsHonoured
<1>8. CASE Next
  <2>1. CASE front = "cli" /\ CliNext /\ front' = front
    BY <2>1, <1>1, <1>2, <1>3, <1>4, <1>5 DEF CliNext
  <2>2. CASE front # "cli" /\ front' = front /\ UNCHANGED cliVars
    BY <2>2, <1>6
  <2> QED
    BY <1>8, <2>1, <2>2 DEF Next
<1>9. CASE UNCHANGED allVars
  BY <1>9, <1>7 DEF allVars
<1> QED
  BY <1>8, <1>9

(* Whether a scan started from the command line answers from the cache is   *)
(* what the last argument that speaks of it says, and it saves what it      *)
(* downloads wherever there is a file system: for every command line.       *)
THEOREM LastWordDecides == Spec => []CacheFlagsHonoured
<1>1. CliInv => CacheFlagsHonoured
  BY DEF CliInv
<1> QED
  BY <1>1, CliInitInv, CliInductive, PTL DEF Spec

-----------------------------------------------------------------------------
P1 == INSTANCE SiteCache_proofs WITH
  phase <- phase1, mode <- mode1, aborted <- aborted1, exact <- exact1, task <- task1,
  body <- body1, listed <- listed1, mapped <- mapped1, recorded <- recorded1,
  restored <- restored1, toReplay <- toReplay1, result <- result1

P2 == INSTANCE SiteCache_proofs WITH
  phase <- phase2, mode <- mode2, aborted <- aborted2, exact <- exact2, task <- task2,
  body <- body2, listed <- listed2, mapped <- mapped2, recorded <- recorded2,
  restored <- restored2, toReplay <- toReplay2, result <- result2

LEMMA FirstAssumption == P1!CacheAssumption
  BY ScopeAssumption
  DEF ScopeAssumption, P1!CacheAssumption, One!Page, P1!Page, One!Content, P1!Content,
      One!Meta, P1!Meta, One!Report, P1!Report, One!Held, P1!Held

LEMMA FirstInit == One!Init => P1!Init
  BY DEF One!Page, P1!Page, One!Slot, P1!Slot, One!Path, P1!Path, One!Content, P1!Content,
      One!Held, P1!Held, One!Meta, P1!Meta, One!Report, P1!Report, One!Nothing, P1!Nothing,
      One!Init, P1!Init

LEMMA FirstNext == One!Next => P1!Next
  BY DEF One!Page, P1!Page, One!Slot, P1!Slot, One!Path, P1!Path, One!Content, P1!Content,
      One!Whole, P1!Whole, One!Cut, P1!Cut, One!Held, P1!Held, One!Meta, P1!Meta,
      One!CutMeta, P1!CutMeta, One!Report, P1!Report, One!disk, P1!disk,
      One!crawled, P1!crawled, One!memory, P1!memory, One!history, P1!history,
      One!vars, P1!vars, One!Readable, P1!Readable, One!Writable, P1!Writable,
      One!Nothing, P1!Nothing, One!Mishap, P1!Mishap, One!Written, P1!Written,
      One!Outcome, P1!Outcome, One!Forget, P1!Forget, One!Return, P1!Return,
      One!Begin, P1!Begin, One!PrimeHit, P1!PrimeHit, One!PrimeDownload, P1!PrimeDownload,
      One!PrimeStored, P1!PrimeStored, One!PrimeFails, P1!PrimeFails,
      One!OpenMeta, P1!OpenMeta, One!StartCrawl, P1!StartCrawl,
      One!Restoring, P1!Restoring, One!Restore, P1!Restore,
      One!SourcesPresent, P1!SourcesPresent, One!MapReadable, P1!MapReadable,
      One!Replay, P1!Replay, One!ReplayDone, P1!ReplayDone, One!Cached, P1!Cached,
      One!Finds, P1!Finds, One!Analyse, P1!Analyse, One!DownloadFails, P1!DownloadFails,
      One!Stored, P1!Stored, One!ProbeCached, P1!ProbeCached,
      One!ProbeNetwork, P1!ProbeNetwork, One!ProbeFails, P1!ProbeFails,
      One!MapStored, P1!MapStored, One!SourceStored, P1!SourceStored,
      One!CrawlEnds, P1!CrawlEnds, One!Record, P1!Record,
      One!SaveSiteMetadata, P1!SaveSiteMetadata, One!Abort, P1!Abort, One!Tear, P1!Tear,
      One!IsCut, P1!IsCut, One!SomeFileCut, P1!SomeFileCut, One!Crash, P1!Crash,
      One!Lose, P1!Lose, One!Next, P1!Next

LEMMA FirstCrash == P1!Crash => One!Crash
  BY DEF One!Page, P1!Page, One!Slot, P1!Slot, One!Path, P1!Path, One!Cut, P1!Cut,
      One!Nothing, P1!Nothing, One!CutMeta, P1!CutMeta, One!IsCut, P1!IsCut,
      One!SomeFileCut, P1!SomeFileCut, One!Mishap, P1!Mishap, One!Forget, P1!Forget,
      One!disk, P1!disk, One!Crash, P1!Crash

LEMMA SecondAssumption == P2!CacheAssumption
  BY ScopeAssumption
  DEF ScopeAssumption, P2!CacheAssumption, One!Page, P2!Page, One!Content, P2!Content,
      One!Meta, P2!Meta, One!Report, P2!Report, One!Held, P2!Held

LEMMA SecondInit == Other!Init => P2!Init
  BY DEF Other!Page, P2!Page, Other!Slot, P2!Slot, Other!Path, P2!Path,
      Other!Content, P2!Content, Other!Held, P2!Held, Other!Meta, P2!Meta,
      Other!Report, P2!Report, Other!Nothing, P2!Nothing, Other!Init, P2!Init

LEMMA SecondNext == Other!Next => P2!Next
  BY DEF Other!Page, P2!Page, Other!Slot, P2!Slot, Other!Path, P2!Path,
      Other!Content, P2!Content, Other!Whole, P2!Whole, Other!Cut, P2!Cut,
      Other!Held, P2!Held, Other!Meta, P2!Meta, Other!CutMeta, P2!CutMeta,
      Other!Report, P2!Report, Other!disk, P2!disk, Other!crawled, P2!crawled,
      Other!memory, P2!memory, Other!history, P2!history, Other!vars, P2!vars,
      Other!Readable, P2!Readable, Other!Writable, P2!Writable, Other!Nothing, P2!Nothing,
      Other!Mishap, P2!Mishap, Other!Written, P2!Written, Other!Outcome, P2!Outcome,
      Other!Forget, P2!Forget, Other!Return, P2!Return, Other!Begin, P2!Begin,
      Other!PrimeHit, P2!PrimeHit, Other!PrimeDownload, P2!PrimeDownload,
      Other!PrimeStored, P2!PrimeStored, Other!PrimeFails, P2!PrimeFails,
      Other!OpenMeta, P2!OpenMeta, Other!StartCrawl, P2!StartCrawl,
      Other!Restoring, P2!Restoring, Other!Restore, P2!Restore,
      Other!SourcesPresent, P2!SourcesPresent, Other!MapReadable, P2!MapReadable,
      Other!Replay, P2!Replay, Other!ReplayDone, P2!ReplayDone, Other!Cached, P2!Cached,
      Other!Finds, P2!Finds, Other!Analyse, P2!Analyse,
      Other!DownloadFails, P2!DownloadFails, Other!Stored, P2!Stored,
      Other!ProbeCached, P2!ProbeCached, Other!ProbeNetwork, P2!ProbeNetwork,
      Other!ProbeFails, P2!ProbeFails, Other!MapStored, P2!MapStored,
      Other!SourceStored, P2!SourceStored, Other!CrawlEnds, P2!CrawlEnds,
      Other!Record, P2!Record, Other!SaveSiteMetadata, P2!SaveSiteMetadata,
      Other!Abort, P2!Abort, Other!Tear, P2!Tear, Other!IsCut, P2!IsCut,
      Other!SomeFileCut, P2!SomeFileCut, Other!Crash, P2!Crash, Other!Lose, P2!Lose,
      Other!Next, P2!Next

LEMMA SecondCrash == P2!Crash => Other!Crash
  BY DEF Other!Page, P2!Page, Other!Slot, P2!Slot, Other!Path, P2!Path, Other!Cut, P2!Cut,
      Other!Nothing, P2!Nothing, Other!CutMeta, P2!CutMeta, Other!IsCut, P2!IsCut,
      Other!SomeFileCut, P2!SomeFileCut, Other!Mishap, P2!Mishap, Other!Forget, P2!Forget,
      Other!disk, P2!disk, Other!Crash, P2!Crash

-----------------------------------------------------------------------------
LEMMA SameSets ==
  /\ P1!Page = P2!Page /\ P1!Slot = P2!Slot /\ P1!Path = P2!Path
  /\ P1!Held = P2!Held /\ P1!Meta = P2!Meta /\ P1!Report = P2!Report
  /\ P1!CutMeta = P2!CutMeta
  BY DEF P1!Page, P2!Page, P1!Slot, P2!Slot, P1!Path, P2!Path, P1!Held, P2!Held, P1!Content,
         P2!Content, P1!Meta, P2!Meta, P1!Report, P2!Report, P1!CutMeta, P2!CutMeta, P1!Cut, P2!Cut

LEMMA SlotAndPath == \A s \in Script : SlotOf[s] \in P1!Slot /\ PathOf[s] \in P1!Path
  BY DEF P1!Slot, P1!Path, P1!Page

\* A file is there, or one of the two scans is writing it.
EitherSlot(s) == P1!SlotHeld(SlotOf[s]) \/ P2!SlotHeld(SlotOf[s])
EitherPath(s) == P1!PathHeld(PathOf[s]) \/ P2!PathHeld(PathOf[s])
Backs(scripts, sources) ==
  (\A s \in scripts : EitherSlot(s)) /\ (\A s \in sources : EitherPath(s))

\* What is torn is being written by one of the two scans, or is metadata of two saves.
AllHeld ==
  /\ \A s \in Script : P1!MapHeld(s) \/ P2!MapHeld(s)
  /\ \A x \in P1!Path : P1!PathWhole(x) \/ P2!PathWhole(x)
  /\ P1!MetaHeld \/ P2!MetaHeld \/ tangled

\* What the metadata names, and what a scan will name in it, is there.
AllEarned ==
  /\ meta \in P1!Meta => Backs(meta.listed, meta.kept)
  /\ P1!Records => Backs(listed1, {s \in Script : restored1[s] # NoFile})
  /\ P2!Records => Backs(listed2, {s \in Script : restored2[s] # NoFile})

MemoryInv ==
  /\ P1!TypeInv /\ P1!Stage /\ P1!Early /\ P1!Quiet
  /\ P2!TypeInv /\ P2!Stage /\ P2!Early /\ P2!Quiet

ScopeInv ==
  /\ MemoryInv /\ P1!ForeignApart /\ crashed \in BOOLEAN /\ tangled \in BOOLEAN
  /\ ~damaged /\ ~lost /\ ~crashed => AllHeld /\ AllEarned

-----------------------------------------------------------------------------
LEMMA FirstStep ==
  ASSUME ScopeInv, P1!Next, UNCHANGED second, crashed' = (crashed \/ One!Crash),
         tangled' = Tangles(phase1, phase1', phase2)
  PROVE  ScopeInv'
<1>1. P1!TypeInv /\ P1!Stage /\ P1!Early /\ P1!Quiet /\ P1!ForeignApart
  BY DEF ScopeInv, MemoryInv, P1!ForeignApart, P2!ForeignApart
<1>2. P1!TypeInv'
  BY <1>1, FirstAssumption, P1!StepTypes
<1>3. P1!Stage' /\ P1!Early' /\ P1!Quiet' /\ P1!ForeignApart'
  BY <1>1, FirstAssumption, P1!StepStage, P1!StepEarly, P1!StepForeign
<1>4. P2!TypeInv'
  <2>1. P2!TypeInv /\ P1!TypeOK'
    BY <1>2 DEF ScopeInv, MemoryInv, P1!TypeInv
  <2>2. P2!TypeOK'
    BY <2>1, SameSets DEF P2!TypeInv, P1!TypeOK, P2!TypeOK, second
  <2> QED
    BY <2>1, <2>2 DEF P2!TypeInv, P2!BodyHeld, P2!Replaying, second
<1>5. P2!Stage' /\ P2!Early' /\ P2!Quiet'
  BY DEF ScopeInv, MemoryInv, P2!Stage, P2!Early, P2!Quiet, P2!Nothing, P2!Writable,
         P2!Page, second
<1>6. ASSUME ~damaged', ~lost', ~crashed' PROVE AllHeld' /\ AllEarned'
  <2>1. ~damaged /\ ~lost /\ ~crashed /\ ~P1!Crash /\ ~P1!Lose
    <3>1. (damaged => damaged') /\ (lost => lost')
      BY <1>1, FirstAssumption, P1!HistoryGrows
    <3>2. crashed \in BOOLEAN /\ ~crashed /\ ~P1!Crash
      BY <1>6, FirstCrash DEF ScopeInv
    <3> QED
      BY <1>6, <3>1, <3>2 DEF P1!Lose
  <2>2. AllHeld /\ AllEarned
    BY <2>1 DEF ScopeInv
  <2>3. P1!FilesHeld
    BY <1>1, <1>6, <2>1, FirstAssumption, P1!StepHeld
  <2>4. AllHeld'
    <3>1. P1!MetaHeld' \/ P2!MetaHeld' \/ tangled'
      <4>1. P1!MetaHeld \/ phase2 = "save" \/ tangled
        BY <2>2, SameSets DEF AllHeld, P1!MetaHeld, P2!MetaHeld
      <4> QED
        BY <2>3, <4>1 DEF P1!FilesHeld, P1!MetaHeld, P2!MetaHeld, Tangles, second
    <3> QED
      BY <2>2, <2>3, <3>1, SameSets
      DEF AllHeld, P1!FilesHeld, P1!MapHeld, P2!MapHeld, P1!PathWhole, P2!PathWhole,
          P2!WritesPath, P1!IsCut, P2!IsCut, P1!Whole, P2!Whole, second
  <2>5. ASSUME NEW s \in Script, EitherSlot(s) PROVE EitherSlot(s)'
    BY <2>3, <2>5, SameSets, SlotAndPath
    DEF EitherSlot, P1!FilesHeld, P1!SlotHeld, P2!SlotHeld, P2!WritesSlot, second
  <2>6. ASSUME NEW s \in Script, EitherPath(s) PROVE EitherPath(s)'
    BY <2>3, <2>6, SameSets, SlotAndPath
    DEF EitherPath, P1!FilesHeld, P1!PathHeld, P2!PathHeld, P2!WritesPath, second
  <2>7. P2!Records' => P2!Records /\ UNCHANGED <<listed2, restored2>>
    BY DEF P2!Records, P2!Writable, second
  <2>8. ASSUME P1!Records'
        PROVE  Backs(listed1, {s \in Script : restored1[s] # NoFile})'
    <3>1. /\ \A s \in listed1' : (P1!Records /\ s \in listed1) \/ page'[SlotOf[s]] # NoFile
          /\ \A s \in Script : restored1'[s] # NoFile =>
               (P1!Records /\ restored1[s] # NoFile) \/ source'[PathOf[s]] # NoFile
      BY <1>1, <1>6, <2>8, FirstAssumption, P1!StepEarns
    <3>2. P1!Records => Backs(listed1, {s \in Script : restored1[s] # NoFile})
      BY <2>2 DEF AllEarned
    <3>3. listed1' \subseteq Script
      BY <1>2 DEF P1!TypeInv, P1!TypeOK
    <3>4. ASSUME NEW s \in listed1' PROVE EitherSlot(s)'
      <4>1. s \in Script /\ (P1!Records /\ s \in listed1 => EitherSlot(s))
        BY <3>2, <3>3, <3>4 DEF Backs
      <4>2. (P1!Records /\ s \in listed1) \/ page'[SlotOf[s]] # NoFile
        BY <3>1, <3>4
      <4>3. page'[SlotOf[s]] # NoFile => EitherSlot(s)'
        BY DEF EitherSlot, P1!SlotHeld
      <4>4. EitherSlot(s) => EitherSlot(s)'
        BY <2>5, <4>1
      <4> QED
        BY <4>1, <4>2, <4>3, <4>4
    <3>5. ASSUME NEW s \in Script, restored1'[s] # NoFile PROVE EitherPath(s)'
      <4>1. P1!Records /\ restored1[s] # NoFile => EitherPath(s)
        BY <3>2 DEF Backs
      <4>2. (P1!Records /\ restored1[s] # NoFile) \/ source'[PathOf[s]] # NoFile
        BY <3>1, <3>5
      <4>3. source'[PathOf[s]] # NoFile => EitherPath(s)'
        BY DEF EitherPath, P1!PathHeld
      <4>4. EitherPath(s) => EitherPath(s)'
        BY <2>6
      <4> QED
        BY <4>1, <4>2, <4>3, <4>4
    <3> QED
      BY <3>4, <3>5 DEF Backs
  <2>9. ASSUME P2!Records'
        PROVE  Backs(listed2, {s \in Script : restored2[s] # NoFile})'
    <3>1. listed2 \subseteq Script
      BY DEF ScopeInv, MemoryInv, P2!TypeInv, P2!TypeOK
    <3> QED
      BY <2>2, <2>5, <2>6, <2>7, <2>9, <3>1 DEF AllEarned, Backs
  <2>10. ASSUME meta' \in P1!Meta PROVE Backs(meta.listed, meta.kept)'
    <3>1. CASE meta' = meta
      <4>1. meta.listed \subseteq Script /\ meta.kept \subseteq Script
        BY <2>10, <3>1 DEF P1!Meta
      <4> QED
        BY <2>2, <2>5, <2>6, <2>10, <3>1, <4>1 DEF AllEarned, Backs
    <3>2. CASE meta' # meta
      <4>1. /\ P1!Records /\ meta'.listed = listed1
            /\ meta'.kept = {s \in listed1 : restored1[s] # NoFile}
        BY <1>1, <1>6, <2>10, <3>2, SameSets, FirstAssumption, P1!StepRecords
      <4>2. listed1 \subseteq Script
        BY <1>1 DEF P1!TypeInv, P1!TypeOK
      <4> QED
        BY <2>2, <2>5, <2>6, <4>1, <4>2 DEF AllEarned, Backs
    <3> QED
      BY <3>1, <3>2
  <2> QED
    BY <2>4, <2>8, <2>9, <2>10 DEF AllEarned
<1>7. crashed' \in BOOLEAN /\ tangled' \in BOOLEAN
  BY DEF ScopeInv, Tangles
<1> QED
  BY <1>2, <1>3, <1>4, <1>5, <1>6, <1>7 DEF ScopeInv, MemoryInv, P1!ForeignApart, P2!ForeignApart

LEMMA SecondStep ==
  ASSUME ScopeInv, P2!Next, UNCHANGED first, crashed' = (crashed \/ Other!Crash),
         tangled' = Tangles(phase2, phase2', phase1)
  PROVE  ScopeInv'
<1>1. P2!TypeInv /\ P2!Stage /\ P2!Early /\ P2!Quiet /\ P2!ForeignApart
  BY DEF ScopeInv, MemoryInv, P1!ForeignApart, P2!ForeignApart
<1>2. P2!TypeInv'
  BY <1>1, SecondAssumption, P2!StepTypes
<1>3. P2!Stage' /\ P2!Early' /\ P2!Quiet' /\ P2!ForeignApart'
  BY <1>1, SecondAssumption, P2!StepStage, P2!StepEarly, P2!StepForeign
<1>4. P1!TypeInv'
  <2>1. P1!TypeInv /\ P2!TypeOK'
    BY <1>2 DEF ScopeInv, MemoryInv, P2!TypeInv
  <2>2. P1!TypeOK'
    BY <2>1, SameSets DEF P1!TypeInv, P2!TypeOK, P1!TypeOK, first
  <2> QED
    BY <2>1, <2>2 DEF P1!TypeInv, P1!BodyHeld, P1!Replaying, first
<1>5. P1!Stage' /\ P1!Early' /\ P1!Quiet'
  BY DEF ScopeInv, MemoryInv, P1!Stage, P1!Early, P1!Quiet, P1!Nothing, P1!Writable,
         P1!Page, first
<1>6. ASSUME ~damaged', ~lost', ~crashed' PROVE AllHeld' /\ AllEarned'
  <2>1. ~damaged /\ ~lost /\ ~crashed /\ ~P2!Crash /\ ~P2!Lose
    <3>1. (damaged => damaged') /\ (lost => lost')
      BY <1>1, SecondAssumption, P2!HistoryGrows
    <3>2. crashed \in BOOLEAN /\ ~crashed /\ ~P2!Crash
      BY <1>6, SecondCrash DEF ScopeInv
    <3> QED
      BY <1>6, <3>1, <3>2 DEF P2!Lose
  <2>2. AllHeld /\ AllEarned
    BY <2>1 DEF ScopeInv
  <2>3. P2!FilesHeld
    BY <1>1, <1>6, <2>1, SecondAssumption, P2!StepHeld
  <2>4. AllHeld'
    <3>1. P1!MetaHeld' \/ P2!MetaHeld' \/ tangled'
      <4>1. P2!MetaHeld \/ phase1 = "save" \/ tangled
        BY <2>2, SameSets DEF AllHeld, P1!MetaHeld, P2!MetaHeld
      <4> QED
        BY <2>3, <4>1 DEF P2!FilesHeld, P1!MetaHeld, P2!MetaHeld, Tangles, first
    <3> QED
      BY <2>2, <2>3, <3>1, SameSets
      DEF AllHeld, P2!FilesHeld, P1!MapHeld, P2!MapHeld, P1!PathWhole, P2!PathWhole,
          P1!WritesPath, P1!IsCut, P2!IsCut, P1!Whole, P2!Whole, first
  <2>5. ASSUME NEW s \in Script, EitherSlot(s) PROVE EitherSlot(s)'
    BY <2>3, <2>5, SameSets, SlotAndPath
    DEF EitherSlot, P2!FilesHeld, P1!SlotHeld, P2!SlotHeld, P1!WritesSlot, first
  <2>6. ASSUME NEW s \in Script, EitherPath(s) PROVE EitherPath(s)'
    BY <2>3, <2>6, SameSets, SlotAndPath
    DEF EitherPath, P2!FilesHeld, P1!PathHeld, P2!PathHeld, P1!WritesPath, first
  <2>7. P1!Records' => P1!Records /\ UNCHANGED <<listed1, restored1>>
    BY DEF P1!Records, P1!Writable, first
  <2>8. ASSUME P2!Records'
        PROVE  Backs(listed2, {s \in Script : restored2[s] # NoFile})'
    <3>1. /\ \A s \in listed2' : (P2!Records /\ s \in listed2) \/ page'[SlotOf[s]] # NoFile
          /\ \A s \in Script : restored2'[s] # NoFile =>
               (P2!Records /\ restored2[s] # NoFile) \/ source'[PathOf[s]] # NoFile
      BY <1>1, <1>6, <2>8, SecondAssumption, P2!StepEarns
    <3>2. P2!Records => Backs(listed2, {s \in Script : restored2[s] # NoFile})
      BY <2>2 DEF AllEarned
    <3>3. listed2' \subseteq Script
      BY <1>2 DEF P2!TypeInv, P2!TypeOK
    <3>4. ASSUME NEW s \in listed2' PROVE EitherSlot(s)'
      <4>1. s \in Script /\ (P2!Records /\ s \in listed2 => EitherSlot(s))
        BY <3>2, <3>3, <3>4 DEF Backs
      <4>2. (P2!Records /\ s \in listed2) \/ page'[SlotOf[s]] # NoFile
        BY <3>1, <3>4
      <4>3. page'[SlotOf[s]] # NoFile => EitherSlot(s)'
        BY DEF EitherSlot, P1!SlotHeld
      <4>4. EitherSlot(s) => EitherSlot(s)'
        BY <2>5, <4>1
      <4> QED
        BY <4>1, <4>2, <4>3, <4>4
    <3>5. ASSUME NEW s \in Script, restored2'[s] # NoFile PROVE EitherPath(s)'
      <4>1. P2!Records /\ restored2[s] # NoFile => EitherPath(s)
        BY <3>2 DEF Backs
      <4>2. (P2!Records /\ restored2[s] # NoFile) \/ source'[PathOf[s]] # NoFile
        BY <3>1, <3>5
      <4>3. source'[PathOf[s]] # NoFile => EitherPath(s)'
        BY DEF EitherPath, P1!PathHeld
      <4>4. EitherPath(s) => EitherPath(s)'
        BY <2>6
      <4> QED
        BY <4>1, <4>2, <4>3, <4>4
    <3> QED
      BY <3>4, <3>5 DEF Backs
  <2>9. ASSUME P1!Records'
        PROVE  Backs(listed1, {s \in Script : restored1[s] # NoFile})'
    <3>1. listed1 \subseteq Script
      BY DEF ScopeInv, MemoryInv, P1!TypeInv, P1!TypeOK
    <3> QED
      BY <2>2, <2>5, <2>6, <2>7, <2>9, <3>1 DEF AllEarned, Backs
  <2>10. ASSUME meta' \in P1!Meta PROVE Backs(meta.listed, meta.kept)'
    <3>1. CASE meta' = meta
      <4>1. meta.listed \subseteq Script /\ meta.kept \subseteq Script
        BY <2>10, <3>1 DEF P1!Meta
      <4> QED
        BY <2>2, <2>5, <2>6, <2>10, <3>1, <4>1 DEF AllEarned, Backs
    <3>2. CASE meta' # meta
      <4>1. /\ P2!Records /\ meta'.listed = listed2
            /\ meta'.kept = {s \in listed2 : restored2[s] # NoFile}
        BY <1>1, <1>6, <2>10, <3>2, SameSets, SecondAssumption, P2!StepRecords
      <4>2. listed2 \subseteq Script
        BY <1>1 DEF P2!TypeInv, P2!TypeOK
      <4> QED
        BY <2>2, <2>5, <2>6, <4>1, <4>2 DEF AllEarned, Backs
    <3> QED
      BY <3>1, <3>2
  <2> QED
    BY <2>4, <2>8, <2>9, <2>10 DEF AllEarned
<1>7. crashed' \in BOOLEAN /\ tangled' \in BOOLEAN
  BY DEF ScopeInv, Tangles
<1> QED
  BY <1>2, <1>3, <1>4, <1>5, <1>6, <1>7 DEF ScopeInv, MemoryInv, P1!ForeignApart, P2!ForeignApart

\* A save that was written over while the other scan saved too changes no file.
LEMMA FirstSavedOver ==
  ASSUME ScopeInv, phase1 = "save", SavedOver(phase2), One!Return(FALSE), UNCHANGED second,
         crashed' = (crashed \/ One!Crash), tangled' = Tangles(phase1, phase1', phase2)
  PROVE  ScopeInv'
<1>1. P1!TypeInv /\ P1!Stage /\ P1!Quiet /\ P2!TypeInv
  BY DEF ScopeInv, MemoryInv
<1>2. P1!Return(FALSE)
  BY DEF One!Return, P1!Return, One!Forget, P1!Forget, One!Page, P1!Page,
     One!Nothing, P1!Nothing
<1>3. P1!Forget
  BY <1>2 DEF P1!Return
<1>4. P1!Stage' /\ P1!BackInv'
  BY <1>3, FirstAssumption, P1!ForgetStage, P1!ForgetBack
<1>5. P1!TypeInv'
  <2>1. result1' \in P1!Report
    BY <1>1, <1>2, FirstAssumption, P1!ReturnTypes
  <2>2. cutOff' \in Nat
    BY DEF SavedOver
  <2>3. UNCHANGED <<page, mapFile, source, meta, damaged, lost, scans, mishaps>>
    BY DEF SavedOver
  <2> QED
    BY <1>1, <1>3, <2>1, <2>2, <2>3, FirstAssumption, P1!ForgetTypes
    DEF P1!TypeInv, P1!TypeOK, P1!TaskState
<1>6. P2!TypeInv' /\ P2!Stage' /\ P2!Early' /\ P2!Quiet'
  <2>1. cutOff' \in Nat /\ UNCHANGED <<page, mapFile, source, meta, damaged, lost, scans, mishaps>>
    BY DEF SavedOver
  <2>2. P2!TypeInv'
    BY <1>1, <2>1 DEF P2!TypeInv, P2!TypeOK, P2!BodyHeld, P2!Replaying, second
  <2> QED
    BY <2>2 DEF ScopeInv, MemoryInv, P2!Stage, P2!Early, P2!Quiet, P2!Nothing, P2!Writable,
       P2!Page, second
<1>7. phase1' = "off" /\ tangled' = TRUE
  BY <1>3 DEF P1!Forget, SavedOver, Tangles, ScopeInv
<1>8. \A p \in P1!Page : task1[p] \notin {"storing", "mapping", "restoring"}
  BY <1>1 DEF P1!Stage, P1!Page
<1>9. ASSUME ~damaged', ~lost', ~crashed' PROVE AllHeld' /\ AllEarned'
  <2>1. AllHeld /\ AllEarned
    BY <1>9 DEF ScopeInv, SavedOver
  <2>2. /\ \A k : P1!WritesSlot(k) => P1!WritesSlot(k)'
        /\ \A x : P1!WritesPath(x) => P1!WritesPath(x)'
        /\ \A s \in Script : P1!MapHeld(s) => P1!MapHeld(s)'
    BY <1>8 DEF P1!WritesSlot, P1!WritesPath, P1!MapHeld, P1!Page, P1!Whole, SavedOver
  <2>3. AllHeld'
    <3>1. UNCHANGED source /\ \A x : P2!WritesPath(x)' = P2!WritesPath(x)
      BY DEF SavedOver, P2!WritesPath, second
    <3>2. \A x : (P1!PathWhole(x) => P1!PathWhole(x)') /\ (P2!PathWhole(x) => P2!PathWhole(x)')
      BY <2>2, <3>1 DEF P1!PathWhole, P2!PathWhole, P1!IsCut, P2!IsCut
    <3>3. \A s \in Script : P2!MapHeld(s) => P2!MapHeld(s)'
      BY DEF P2!MapHeld, P2!Whole, SavedOver, second
    <3> QED
      BY <1>7, <2>1, <2>2, <3>2, <3>3 DEF AllHeld
  <2>4. \A s \in Script : (EitherSlot(s) => EitherSlot(s)') /\ (EitherPath(s) => EitherPath(s)')
    BY <2>2
    DEF EitherSlot, EitherPath, P1!SlotHeld, P2!SlotHeld, P1!PathHeld, P2!PathHeld,
        P2!WritesSlot, P2!WritesPath, SavedOver, second
  <2>5. ASSUME meta' \in P1!Meta PROVE Backs(meta.listed, meta.kept)'
    <3>1. meta' = meta /\ meta.listed \subseteq Script /\ meta.kept \subseteq Script
      BY <2>5 DEF SavedOver, P1!Meta
    <3> QED
      BY <2>1, <2>4, <2>5, <3>1 DEF AllEarned, Backs
  <2>6. ~P1!Records'
    BY <1>7 DEF P1!Records
  <2>7. ASSUME P2!Records' PROVE Backs(listed2, {s \in Script : restored2[s] # NoFile})'
    <3>1. listed2 \subseteq Script
      BY <1>1 DEF P2!TypeInv, P2!TypeOK
    <3>2. P2!Records /\ UNCHANGED <<listed2, restored2>>
      BY <2>7 DEF P2!Records, P2!Writable, second
    <3> QED
      BY <2>1, <2>4, <3>1, <3>2 DEF AllEarned, Backs
  <2> QED
    BY <2>3, <2>5, <2>6, <2>7 DEF AllEarned
<1>10. crashed' \in BOOLEAN /\ tangled' \in BOOLEAN /\ P1!ForeignApart'
  BY <1>7 DEF ScopeInv, SavedOver, P1!ForeignApart
<1> QED
  BY <1>4, <1>5, <1>6, <1>9, <1>10 DEF ScopeInv, MemoryInv, P1!BackInv

LEMMA SecondSavedOver ==
  ASSUME ScopeInv, phase2 = "save", SavedOver(phase1), Other!Return(FALSE), UNCHANGED first,
         crashed' = (crashed \/ Other!Crash), tangled' = Tangles(phase2, phase2', phase1)
  PROVE  ScopeInv'
<1>1. P2!TypeInv /\ P2!Stage /\ P2!Quiet /\ P1!TypeInv
  BY DEF ScopeInv, MemoryInv
<1>2. P2!Return(FALSE)
  BY DEF Other!Return, P2!Return, Other!Forget, P2!Forget, Other!Page, P2!Page,
     Other!Nothing, P2!Nothing
<1>3. P2!Forget
  BY <1>2 DEF P2!Return
<1>4. P2!Stage' /\ P2!BackInv'
  BY <1>3, SecondAssumption, P2!ForgetStage, P2!ForgetBack
<1>5. P2!TypeInv'
  <2>1. result2' \in P2!Report
    BY <1>1, <1>2, SecondAssumption, P2!ReturnTypes
  <2>2. cutOff' \in Nat
    BY DEF SavedOver
  <2>3. UNCHANGED <<page, mapFile, source, meta, damaged, lost, scans, mishaps>>
    BY DEF SavedOver
  <2> QED
    BY <1>1, <1>3, <2>1, <2>2, <2>3, SecondAssumption, P2!ForgetTypes
    DEF P2!TypeInv, P2!TypeOK, P2!TaskState
<1>6. P1!TypeInv' /\ P1!Stage' /\ P1!Early' /\ P1!Quiet'
  <2>1. cutOff' \in Nat /\ UNCHANGED <<page, mapFile, source, meta, damaged, lost, scans, mishaps>>
    BY DEF SavedOver
  <2>2. P1!TypeInv'
    BY <1>1, <2>1 DEF P1!TypeInv, P1!TypeOK, P1!BodyHeld, P1!Replaying, first
  <2> QED
    BY <2>2 DEF ScopeInv, MemoryInv, P1!Stage, P1!Early, P1!Quiet, P1!Nothing, P1!Writable,
       P1!Page, first
<1>7. phase2' = "off" /\ tangled' = TRUE
  BY <1>3 DEF P2!Forget, SavedOver, Tangles, ScopeInv
<1>8. \A p \in P2!Page : task2[p] \notin {"storing", "mapping", "restoring"}
  BY <1>1 DEF P2!Stage, P2!Page
<1>9. ASSUME ~damaged', ~lost', ~crashed' PROVE AllHeld' /\ AllEarned'
  <2>1. AllHeld /\ AllEarned
    BY <1>9 DEF ScopeInv, SavedOver
  <2>2. /\ \A k : P2!WritesSlot(k) => P2!WritesSlot(k)'
        /\ \A x : P2!WritesPath(x) => P2!WritesPath(x)'
        /\ \A s \in Script : P2!MapHeld(s) => P2!MapHeld(s)'
    BY <1>8 DEF P2!WritesSlot, P2!WritesPath, P2!MapHeld, P2!Page, P2!Whole, SavedOver
  <2>3. AllHeld'
    <3>1. UNCHANGED source /\ \A x : P1!WritesPath(x)' = P1!WritesPath(x)
      BY DEF SavedOver, P1!WritesPath, first
    <3>2. \A x : (P2!PathWhole(x) => P2!PathWhole(x)') /\ (P1!PathWhole(x) => P1!PathWhole(x)')
      BY <2>2, <3>1 DEF P2!PathWhole, P1!PathWhole, P2!IsCut, P1!IsCut
    <3>3. \A s \in Script : P1!MapHeld(s) => P1!MapHeld(s)'
      BY DEF P1!MapHeld, P1!Whole, SavedOver, first
    <3> QED
      BY <1>7, <2>1, <2>2, <3>2, <3>3 DEF AllHeld
  <2>4. \A s \in Script : (EitherSlot(s) => EitherSlot(s)') /\ (EitherPath(s) => EitherPath(s)')
    BY <2>2
    DEF EitherSlot, EitherPath, P1!SlotHeld, P2!SlotHeld, P1!PathHeld, P2!PathHeld,
        P1!WritesSlot, P1!WritesPath, SavedOver, first
  <2>5. ASSUME meta' \in P1!Meta PROVE Backs(meta.listed, meta.kept)'
    <3>1. meta' = meta /\ meta.listed \subseteq Script /\ meta.kept \subseteq Script
      BY <2>5 DEF SavedOver, P1!Meta
    <3> QED
      BY <2>1, <2>4, <2>5, <3>1 DEF AllEarned, Backs
  <2>6. ~P2!Records'
    BY <1>7 DEF P2!Records
  <2>7. ASSUME P1!Records' PROVE Backs(listed1, {s \in Script : restored1[s] # NoFile})'
    <3>1. listed1 \subseteq Script
      BY <1>1 DEF P1!TypeInv, P1!TypeOK
    <3>2. P1!Records /\ UNCHANGED <<listed1, restored1>>
      BY <2>7 DEF P1!Records, P1!Writable, first
    <3> QED
      BY <2>1, <2>4, <3>1, <3>2 DEF AllEarned, Backs
  <2> QED
    BY <2>3, <2>5, <2>6, <2>7 DEF AllEarned
<1>10. crashed' \in BOOLEAN /\ tangled' \in BOOLEAN /\ P1!ForeignApart'
  BY <1>7 DEF ScopeInv, SavedOver, P1!ForeignApart
<1> QED
  BY <1>4, <1>5, <1>6, <1>9, <1>10 DEF ScopeInv, MemoryInv, P2!BackInv

LEMMA MixStep == ASSUME ScopeInv, Mix PROVE ScopeInv'
<1>1. /\ UNCHANGED <<page, mapFile, source, damaged, lost, cutOff, scans, mishaps, crashed, tangled>>
      /\ UNCHANGED first /\ UNCHANGED second /\ tangled /\ meta' = P1!CutMeta
  BY DEF Mix, One!CutMeta, P1!CutMeta, One!Cut, P1!Cut
<1>2. P1!TypeInv /\ P2!TypeInv
  BY DEF ScopeInv, MemoryInv
<1>3. P1!TypeInv' /\ P2!TypeInv'
  BY <1>1, <1>2, SameSets
  DEF P1!TypeInv, P1!TypeOK, P1!BodyHeld, P1!Replaying, P2!TypeInv, P2!TypeOK, P2!BodyHeld,
      P2!Replaying, first, second
<1>4. MemoryInv' /\ P1!ForeignApart'
  BY <1>1, <1>3
  DEF ScopeInv, MemoryInv, P1!Stage, P1!Early, P1!Quiet, P1!Nothing, P1!Writable, P1!Page, P2!Stage,
      P2!Early, P2!Quiet, P2!Nothing, P2!Writable, P2!Page, P1!ForeignApart, first, second
<1>5. AllHeld => AllHeld'
  BY <1>1
  DEF AllHeld, P1!MapHeld, P2!MapHeld, P1!PathWhole, P2!PathWhole, P1!WritesPath, P2!WritesPath,
      first, second
<1>6. meta' \notin P1!Meta
  BY <1>1 DEF P1!CutMeta, P1!Cut, P1!Meta
<1>7. AllEarned => AllEarned'
  BY <1>1, <1>6
  DEF AllEarned, Backs, EitherSlot, EitherPath, P1!SlotHeld, P2!SlotHeld, P1!PathHeld, P2!PathHeld,
      P1!WritesSlot, P2!WritesSlot, P1!WritesPath, P2!WritesPath, P1!Records, P2!Records,
      P1!Writable, P2!Writable, first, second
<1> QED
  BY <1>1, <1>4, <1>5, <1>7 DEF ScopeInv

-----------------------------------------------------------------------------
LEMMA ScopeStarts == ScopeInit => ScopeInv
<1> SUFFICES ASSUME ScopeInit PROVE ScopeInv
  OBVIOUS
<1>1. P1!Init /\ P2!Init /\ crashed = FALSE /\ tangled = FALSE
  BY FirstInit, SecondInit DEF ScopeInit
<1>2. P1!TypeInv /\ P2!TypeInv /\ P1!Stage /\ P2!Stage /\ P1!BackInv /\ P2!BackInv
  BY <1>1, FirstAssumption, SecondAssumption, P1!InitTypes, P2!InitTypes, P1!InitStage,
     P2!InitStage, P1!InitBack, P2!InitBack
<1>3. P1!ForeignApart
  BY <1>1, ScopeAssumption DEF ScopeAssumption, P1!Init, P1!Nothing, P1!ForeignApart
<1>4. AllHeld
  BY <1>1 DEF P1!Init, P1!Nothing, AllHeld, P1!MapHeld, P1!PathWhole, P1!IsCut, P1!MetaHeld
<1>5. AllEarned
  <2>1. meta \notin P1!Meta
    BY <1>1, FirstAssumption DEF P1!CacheAssumption, P1!Init
  <2> QED
    BY <1>1, <2>1 DEF AllEarned, P1!Init, P2!Init, P1!Records, P2!Records
<1> QED
  BY <1>1, <1>2, <1>3, <1>4, <1>5 DEF ScopeInv, MemoryInv, P1!BackInv, P2!BackInv

LEMMA ScopeStays == ASSUME ScopeInv, UNCHANGED scopeVars PROVE ScopeInv'
<1>0. UNCHANGED <<page, mapFile, source, meta, damaged, lost, cutOff, scans, mishaps, crashed, tangled>>
      /\ UNCHANGED first /\ UNCHANGED second
  BY DEF scopeVars
<1>1. UNCHANGED P1!vars /\ UNCHANGED P2!vars
  BY <1>0 DEF first, second, P1!vars, P1!disk, P1!memory, P1!crawled, P1!history,
     P2!vars, P2!disk, P2!memory, P2!crawled, P2!history
<1>2. MemoryInv' /\ P1!ForeignApart'
  BY <1>1, FirstAssumption, SecondAssumption, P1!StepTypes, P2!StepTypes, P1!StepStage,
     P2!StepStage, P1!StepEarly, P2!StepEarly, P1!StepForeign DEF ScopeInv, MemoryInv
<1>3. AllHeld' = AllHeld
  BY <1>0
  DEF AllHeld, P1!MapHeld, P2!MapHeld, P1!PathWhole, P2!PathWhole, P1!MetaHeld, P2!MetaHeld,
      P1!WritesPath, P2!WritesPath, first, second
<1>4. AllEarned' = AllEarned
  BY <1>0
  DEF AllEarned, Backs, EitherSlot, EitherPath, P1!SlotHeld, P2!SlotHeld, P1!PathHeld, P2!PathHeld,
      P1!WritesSlot, P2!WritesSlot, P1!WritesPath, P2!WritesPath, P1!Records, P2!Records,
      P1!Writable, P2!Writable, first, second
<1> QED
  BY <1>0, <1>2, <1>3, <1>4 DEF ScopeInv

LEMMA ScopeInductive == ScopeInv /\ [Next]_allVars => ScopeInv'
<1> SUFFICES ASSUME ScopeInv, [Next]_allVars PROVE ScopeInv'
  OBVIOUS
<1>1. CASE UNCHANGED scopeVars
  BY <1>1, ScopeStays
<1>2. CASE ScopeNext
  <2>1. CASE /\ One!Next \/ (phase1 = "save" /\ SavedOver(phase2) /\ One!Return(FALSE))
             /\ crashed' = (crashed \/ One!Crash) /\ tangled' = Tangles(phase1, phase1', phase2)
             /\ UNCHANGED second
    BY <2>1, FirstNext, FirstStep, FirstSavedOver
  <2>2. CASE /\ Other!Next \/ (phase2 = "save" /\ SavedOver(phase1) /\ Other!Return(FALSE))
             /\ crashed' = (crashed \/ Other!Crash) /\ tangled' = Tangles(phase2, phase2', phase1)
             /\ UNCHANGED first
    BY <2>2, SecondNext, SecondStep, SecondSavedOver
  <2>3. CASE Mix
    BY <2>3, MixStep
  <2> QED
    BY <1>2, <2>1, <2>2, <2>3 DEF ScopeNext
<1> QED
  BY <1>1, <1>2 DEF Next, allVars

LEMMA ScopeKept == ScopeInv => ScopeSound
<1> SUFFICES ASSUME ScopeInv, Quiet, ~damaged, ~lost, ~crashed
             PROVE  /\ meta \in One!Meta \cup {NoFile} \/ (tangled /\ meta = One!CutMeta)
                    /\ meta \in One!Meta => /\ \A s \in meta.listed : page[SlotOf[s]] # NoFile
                                            /\ \A s \in meta.kept : source[PathOf[s]] # NoFile
                    /\ \A s \in Script : mapFile[s] \in {NoFile, One!Whole(s)}
                    /\ \A s \in Script : ~One!IsCut(source[PathOf[s]])
  BY DEF ScopeSound
<1>1. AllHeld /\ AllEarned
  BY DEF ScopeInv
<1>2. \A p \in P1!Page : task1[p] \notin {"storing", "mapping", "restoring"}
  BY DEF ScopeInv, MemoryInv, Quiet, P1!Stage, P1!Page
<1>3. \A p \in P2!Page : task2[p] \notin {"storing", "mapping", "restoring"}
  BY DEF ScopeInv, MemoryInv, Quiet, P2!Stage, P2!Page
<1>4. /\ \A k : ~P1!WritesSlot(k) /\ ~P2!WritesSlot(k)
      /\ \A x : ~P1!WritesPath(x) /\ ~P2!WritesPath(x)
  BY <1>2, <1>3 DEF P1!WritesSlot, P2!WritesSlot, P1!WritesPath, P2!WritesPath, P1!Page, P2!Page
<1>5. P1!Meta = One!Meta
  BY DEF P1!Meta, One!Meta, P1!Held, One!Held, P1!Content, One!Content, P1!Page, One!Page
<1>6. meta \in One!Meta \cup {NoFile} \/ (tangled /\ meta = One!CutMeta)
  <2>1. meta \in P1!Meta \cup {P1!CutMeta, NoFile}
    BY DEF ScopeInv, MemoryInv, P1!TypeInv, P1!TypeOK
  <2>2. P1!CutMeta = One!CutMeta
    BY DEF P1!CutMeta, One!CutMeta, P1!Cut, One!Cut
  <2> QED
    BY <1>1, <1>5, <2>1, <2>2, SameSets DEF AllHeld, P1!MetaHeld, P2!MetaHeld, Quiet
<1>7. meta \in One!Meta => /\ \A s \in meta.listed : page[SlotOf[s]] # NoFile
                          /\ \A s \in meta.kept : source[PathOf[s]] # NoFile
  BY <1>1, <1>4, <1>5
  DEF AllEarned, Backs, EitherSlot, EitherPath, P1!SlotHeld, P2!SlotHeld, P1!PathHeld, P2!PathHeld
<1>8. \A s \in Script : mapFile[s] \in {NoFile, One!Whole(s)}
  BY <1>1, <1>2, <1>3
  DEF AllHeld, P1!MapHeld, P2!MapHeld, P1!Page, P2!Page, P1!Whole, P2!Whole, One!Whole
<1>9. \A s \in Script : ~One!IsCut(source[PathOf[s]])
  BY <1>1, <1>4, SlotAndPath DEF AllHeld, P1!PathWhole, P2!PathWhole, P1!IsCut, P2!IsCut, One!IsCut
<1> QED
  BY <1>6, <1>7, <1>8, <1>9

(* Two scans of a scope at the same time leave metadata whose scripts and   *)
(* sources are on disk, or, if their saves overlapped, metadata that cannot *)
(* be parsed; and maps, and sources of paths of their own, that are whole:  *)
(* for any site and any number of scans one after another, two at a time.   *)
THEOREM SharedScopeSound == Spec => []ScopeSound
<1>1. Init => ScopeInv
  BY ScopeStarts DEF Init
<1> QED
  BY <1>1, ScopeInductive, ScopeKept, PTL DEF Spec
=============================================================================
