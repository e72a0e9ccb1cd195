----------------------------- MODULE JobService -----------------------------
(***************************************************************************)
(* The scan service of src/examples/05-http-service/server.mjs: requests   *)
(* create jobs, at most MaxConcurrent of them scan at a time, the rest     *)
(* wait in a queue; a job may be cancelled at any moment, a result is kept *)
(* for a while and then swept, and a signal ends the process.              *)
(*                                                                         *)
(* A handler runs undisturbed once its body is read, and so do the then,   *)
(* catch and finally of one settled scan: each is one action.  Of the scan *)
(* itself there is only that it ends, well or badly (Discovery.tla has the *)
(* rest); reports and lists read the state and change nothing.             *)
(***************************************************************************)
EXTENDS Integers, Sequences, FiniteSets

CONSTANTS MaxJobs,        \* bound: requests to scan
          MaxConcurrent   \* MAX_CONCURRENT_SCANS

ASSUME JobAssumption == MaxJobs \in Nat /\ MaxConcurrent \in Nat \ {0}

Id == 1..MaxJobs

VARIABLES status,     \* job.status, "new" before the request
          scanning,   \* the jobs whose scan is under way
          aborted,    \* the jobs whose controller has been aborted
          finished,   \* finishedAt: "no", "recent", or "old", past JOB_TTL_MS
          held,       \* the jobs the map still knows
          queue,      \* ids waiting for a slot
          running,    \* the counter of running scans
          process     \* "up", "stopping" (shuttingDown) or "exited"

jobVars == <<status, scanning, aborted, finished, held, queue, running, process>>

Over == {"done", "error", "cancelled"}

JobTypeOK ==
  /\ status \in [Id -> {"new", "queued", "running"} \cup Over]
  /\ scanning \subseteq Id /\ aborted \subseteq Id /\ held \subseteq Id
  /\ finished \in [Id -> {"no", "recent", "old"}]
  /\ queue \in Seq(Id)
  /\ running \in 0..MaxConcurrent
  /\ process \in {"up", "stopping", "exited"}

JobInit ==
  /\ status = [i \in Id |-> "new"] /\ finished = [i \in Id |-> "no"]
  /\ scanning = {} /\ aborted = {} /\ held = {}
  /\ queue = <<>> /\ running = 0 /\ process = "up"
-----------------------------------------------------------------------------
\* Bug: the loop tests the slots once, and drains the queue.
PumpEverything(q, r, st, kept) ==
  IF r < MaxConcurrent
  THEN [start |-> {q[n] : n \in DOMAIN q}, rest |-> <<>>]
  ELSE [start |-> {}, rest |-> q]

\* The jobs started among the first n ids of the queue: an id the map no
\* longer holds, or whose job is not queued, is skipped.
Started(q, n, st, kept) ==
  {q[m] : m \in {x \in 1..n : q[x] \in kept /\ st[q[x]] = "queued"}}

\* What one call of pump takes off queue q when r scans run: it stops when
\* the slots are taken or the queue is empty.
Pump(q, r, st, kept) ==
  LET Stops(n) == n = Len(q) \/ r + Cardinality(Started(q, n, st, kept)) = MaxConcurrent
      taken == CHOOSE n \in 0..Len(q) : Stops(n) /\ \A m \in 0..(n - 1) : ~Stops(m)
  IN [start |-> Started(q, taken, st, kept), rest |-> SubSeq(q, taken + 1, Len(q))]

\* runJob for every job taken: with a slot and a fresh controller each.
RunJobs(q, r, st, kept, scans) ==
  LET p == Pump(q, r, st, kept)
  IN /\ queue' = p.rest
     /\ running' = r + Cardinality(p.start)
     /\ scanning' = scans \cup p.start
     /\ status' = [i \in Id |-> IF i \in p.start THEN "running" ELSE st[i]]

\* POST /scan with a valid body: also of a request whose body was still on its
\* way when the process began to stop.
Submit(i) ==
  /\ process # "exited"
  /\ status[i] = "new" /\ \A j \in 1..(i - 1) : status[j] # "new"
  /\ held' = held \cup {i}
  /\ RunJobs(Append(queue, i), running, [status EXCEPT ![i] = "queued"], held', scanning)
  /\ UNCHANGED <<aborted, finished, process>>

\* Bug: the result is stored without looking at the status.
SettleOverwrites(i, outcome) ==
  /\ process # "exited" /\ i \in scanning
  /\ RunJobs(queue, running - 1, [status EXCEPT ![i] = outcome], held, scanning \ {i})
  /\ finished' = [finished EXCEPT ![i] = "recent"]
  /\ UNCHANGED <<aborted, held, process>>

\* Bug: finally does not pump.
SettleWithoutPump(i, outcome) ==
  /\ process # "exited" /\ i \in scanning
  /\ status' = [status EXCEPT ![i] = IF @ = "cancelled" THEN @ ELSE outcome]
  /\ running' = running - 1 /\ scanning' = scanning \ {i}
  /\ finished' = [finished EXCEPT ![i] = "recent"]
  /\ UNCHANGED <<aborted, held, queue, process>>

\* Bug: a cancelled job returns before the slot is given back.
SettleLeaksSlot(i, outcome) ==
  /\ process # "exited" /\ i \in scanning
  /\ RunJobs(queue, IF status[i] = "cancelled" THEN running ELSE running - 1,
             [status EXCEPT ![i] = IF @ = "cancelled" THEN @ ELSE outcome],
             held, scanning \ {i})
  /\ finished' = [finished EXCEPT ![i] = "recent"]
  /\ UNCHANGED <<aborted, held, process>>

\* The scan of job i ends: then or catch, which leave a cancelled job as it
\* is, then finally.  The map need not hold the job any more.
Settle(i, outcome) ==
  /\ process # "exited" /\ i \in scanning
  /\ RunJobs(queue, running - 1,
             [status EXCEPT ![i] = IF @ = "cancelled" THEN @ ELSE outcome],
             held, scanning \ {i})
  /\ finished' = [finished EXCEPT ![i] = "recent"]
  /\ UNCHANGED <<aborted, held, process>>

\* indexOf and splice: the first occurrence of i goes.
Without(q, i) ==
  LET n == CHOOSE n \in DOMAIN q : q[n] = i /\ \A m \in 1..(n - 1) : q[m] # i
  IN IF \E m \in DOMAIN q : q[m] = i
     THEN [m \in 1..(Len(q) - 1) |-> IF m < n THEN q[m] ELSE q[m + 1]]
     ELSE q

\* Bug: the controller is not told.
CancelInNameOnly(i) ==
  /\ process # "exited" /\ i \in held /\ status[i] \notin {"done", "error"}
  /\ status' = [status EXCEPT ![i] = "cancelled"]
  /\ finished' = [finished EXCEPT ![i] = "recent"]
  /\ queue' = Without(queue, i)
  /\ UNCHANGED <<scanning, aborted, held, running, process>>

\* POST /scan/:id/cancel: a running job keeps its slot until its scan ends;
\* cancelling it again is allowed, and dates its end anew.
Cancel(i) ==
  /\ process # "exited" /\ i \in held /\ status[i] \notin {"done", "error"}
  /\ status' = [status EXCEPT ![i] = "cancelled"]
  /\ aborted' = IF i \in scanning THEN aborted \cup {i} ELSE aborted
  /\ finished' = [finished EXCEPT ![i] = "recent"]
  /\ queue' = Without(queue, i)
  /\ UNCHANGED <<scanning, held, running, process>>

\* Ten minutes go by, for everything that was finished.
TimePasses ==
  /\ process # "exited" /\ \E i \in Id : finished[i] = "recent"
  /\ finished' = [i \in Id |-> IF finished[i] = "recent" THEN "old" ELSE finished[i]]
  /\ UNCHANGED <<status, scanning, aborted, held, queue, running, process>>

\* The interval: finishedAt, not the status, decides what is dropped.
Sweep ==
  /\ process # "exited" /\ \E i \in held : finished[i] = "old"
  /\ held' = {i \in held : finished[i] # "old"}
  /\ UNCHANGED <<status, scanning, aborted, finished, queue, running, process>>

\* The first SIGINT or SIGTERM; a second one does nothing.  Queued jobs stay
\* queued, and a job swept from the map is not found.
Shutdown ==
  /\ process = "up"
  /\ process' = "stopping"
  /\ LET hit == {i \in held : status[i] = "running"}
     IN /\ status' = [i \in Id |-> IF i \in hit THEN "cancelled" ELSE status[i]]
        /\ aborted' = aborted \cup hit
  /\ UNCHANGED <<scanning, finished, held, queue, running>>

\* server.close found no connection left, or five seconds are over.
Exit ==
  /\ process = "stopping"
  /\ process' = "exited"
  /\ UNCHANGED <<status, scanning, aborted, finished, held, queue, running>>

JobNext ==
  \/ \E i \in Id : Submit(i) \/ Cancel(i) \/ \E o \in {"done", "error"} : Settle(i, o)
  \/ TimePasses \/ Sweep \/ Shutdown \/ Exit

\* A scan ends, aborted or not (Termination of Discovery.tla).
ScanEnds(i) == \E o \in {"done", "error"} : Settle(i, o)
-----------------------------------------------------------------------------
(* The counter, the scans under way and the queue tell one story through   *)
(* every cancel, failure, sweep and late result: the counter is the number *)
(* of scans, the queue holds each queued job once, in order, and no slot   *)
(* is idle while a job waits.                                              *)
SlotsAccounted ==
  /\ running = Cardinality(scanning)
  /\ \A i \in Id : status[i] = "queued" <=> \E n \in DOMAIN queue : queue[n] = i
  /\ \A m, n \in DOMAIN queue : m < n => queue[m] < queue[n]
  /\ queue # <<>> => running = MaxConcurrent

(* A scan whose job was cancelled has been told, even while it still runs  *)
(* and after its job was swept, and no other scan has.                     *)
CancelReachesScan ==
  \A i \in scanning : status[i] \in {"running", "cancelled"}
                       /\ (i \in aborted <=> status[i] = "cancelled")

(* The first outcome of a job stays: a result or an error that arrives     *)
(* after a cancel, or a cancel after the result, changes nothing.          *)
OutcomeFinal ==
  [][\A i \in Id : status[i] \in Over => status'[i] = status[i]]_jobVars

(* The service is a pool of MaxConcurrent slots for scans: the safety part *)
(* of SlotPool.tla.  A job asks while it is queued and holds while its     *)
(* scan runs; the process may exit on those who ask.                       *)
Pool == INSTANCE SlotPool WITH
          Call <- Id, Limit <- MaxConcurrent,
          asking <- {i \in Id : status[i] = "queued"}, holding <- scanning

ImplementsPool == Pool!PoolSafety
=============================================================================
