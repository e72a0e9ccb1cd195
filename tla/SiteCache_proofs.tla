-------------------------- MODULE SiteCache_proofs --------------------------
(***************************************************************************)
(* Proofs about the cache of a scope: its types, and that meta.json comes  *)
(* last, for any site, any store options and any sequence of crashes and   *)
(* failed writes, shared slots and shared source paths included; that the  *)
(* cache only saves time; and, last, what one step of a scan does to the   *)
(* files, for those who put several scans together.                        *)
(***************************************************************************)
EXTENDS SiteCache, TLAPS

LEMMA HeldFacts ==
  /\ \A p \in Page : Whole(p) \in Content /\ Whole(p) \in Held /\ Cut(p) \in Held
  /\ NoFile \in Held /\ NoFile \notin Content
  /\ \A f \in Held : f # NoFile => f \in Content
  /\ \A f \in Content : f \in Held /\ f.of \in Page
  /\ \A p \in Page : SlotOf[p] \in Slot
  /\ \A s \in Script : s \in Page /\ PathOf[s] \in Path
  /\ Entry \in Page /\ Entry \notin Script
  BY CacheAssumption DEF Held, Content, Whole, Cut, Page, Slot, Path

LEMMA NothingHeld == Nothing \in [Script -> Held]
  BY HeldFacts DEF Nothing

TaskState == {"new", "queued", "storing", "probing", "mapping", "restoring", "done"}

\* A script is stored from a body.
BodyHeld == \A s \in Script : task[s] = "storing" => body[s] # NoFile

\* What is replayed is a record.
Replaying == phase = "replay" => recorded \in Meta

TypeInv == TypeOK /\ BodyHeld /\ Replaying

LEMMA InitTypes == Init => TypeInv
<1> SUFFICES ASSUME Init PROVE TypeInv
  OBVIOUS
<1>1. /\ page \in [Slot -> Held] /\ source \in [Path -> Held]
  BY HeldFacts DEF Init
<1>2. mapFile \in [Script -> Held] /\ body \in [Script -> Held] /\ restored \in [Script -> Held]
  BY NothingHeld DEF Init
<1>3. task \in [Page -> TaskState]
  BY DEF Init, TaskState
<1>4. /\ scans \in 0..MaxScans /\ mishaps \in 0..MaxMishaps
  BY CacheAssumption DEF Init
<1>5. BodyHeld
  BY HeldFacts DEF Init, BodyHeld
<1>6. Replaying
  BY DEF Init, Replaying
<1>7. QED
  BY <1>1, <1>2, <1>3, <1>4, <1>5, <1>6 DEF Init, TypeInv, TypeOK, TaskState

LEMMA ForgetTypes ==
  ASSUME TypeInv, Forget
  PROVE  /\ phase' = "off" /\ mode' \in Modes \cup {"none"} /\ aborted' \in BOOLEAN
         /\ task' \in [Page -> TaskState] /\ body' \in [Script -> Held]
         /\ listed' \subseteq Script /\ mapped' \subseteq Script /\ toReplay' \subseteq Script
         /\ recorded' \in Meta \cup {NoFile}
         /\ restored' \in [Script -> Held] /\ exact' \in BOOLEAN
         /\ BodyHeld' /\ Replaying'
  BY NothingHeld, HeldFacts DEF Forget, TaskState, BodyHeld, Replaying

LEMMA ReturnTypes ==
  ASSUME TypeInv, NEW replayed \in BOOLEAN, Return(replayed),
         replayed => recorded \in Meta
  PROVE  result' \in Report
  <1>1. (IF replayed THEN recorded.aborted ELSE aborted) \in BOOLEAN
    BY DEF TypeInv, TypeOK, Meta
  <1>2. QED
    BY <1>1 DEF Return, Report, TypeInv, TypeOK

LEMMA RecordType == ASSUME TypeInv PROVE Record \in Meta
  BY DEF TypeInv, TypeOK, Record, Meta

\* Counting a mishap, or none, keeps the count and damaged in their types.
LEMMA MishapTypes ==
  ASSUME TypeInv
  PROVE  /\ Mishap => mishaps' \in 0..MaxMishaps
         /\ \A f, new : Outcome(f, new) => mishaps' \in 0..MaxMishaps /\ damaged' \in BOOLEAN
<1>1. Mishap => mishaps' \in 0..MaxMishaps
  BY CacheAssumption DEF TypeInv, TypeOK, Mishap
<1>2. ASSUME NEW f, NEW new, Outcome(f, new)
      PROVE  mishaps' \in 0..MaxMishaps /\ damaged' \in BOOLEAN
  <2>1. CASE UNCHANGED <<damaged, mishaps>>
    BY <2>1 DEF TypeInv, TypeOK
  <2>2. CASE Mishap /\ damaged' = TRUE
    BY <2>2, <1>1
  <2>3. QED
    BY <1>2, <2>1, <2>2 DEF Outcome
<1>3. QED
  BY <1>1, <1>2

LEMMA RestoreTypes ==
  ASSUME TypeInv, NEW s \in Script, Restore(s)
  PROVE  /\ task' \in [Page -> TaskState] /\ restored' \in [Script -> Held]
         /\ \A t \in Script : task'[t] = "storing" => task[t] = "storing"
  BY HeldFacts DEF Restore, TypeInv, TypeOK, TaskState

LEMMA PrimeTypes ==
  ASSUME TypeInv, PrimeHit \/ PrimeDownload \/ PrimeStored \/ PrimeFails
  PROVE  TypeInv'
<1>1. CASE PrimeHit
  BY <1>1 DEF PrimeHit, TypeInv, TypeOK, BodyHeld, Replaying, disk, memory, crawled, history
<1>2. CASE PrimeDownload
  <2>1. task' \in [Page -> TaskState]
    BY <1>2 DEF PrimeDownload, TypeInv, TypeOK, TaskState
  <2>2. \A s \in Script : task'[s] = task[s]
    BY <1>2, HeldFacts DEF PrimeDownload, TypeInv, TypeOK
  <2>3. QED
    BY <1>2, <2>1, <2>2 DEF PrimeDownload, TypeInv, TypeOK, BodyHeld, Replaying, TaskState, disk, history
<1>3. CASE PrimeStored
  <2>1. task' \in [Page -> TaskState] /\ \A s \in Script : task'[s] = task[s]
    BY <1>3, HeldFacts DEF PrimeStored, TypeInv, TypeOK, TaskState
  <2>2. page' \in [Slot -> Held] /\ mishaps' \in 0..MaxMishaps /\ damaged' \in BOOLEAN
    <3>1. PICK f \in Written(page[SlotOf[Entry]], Whole(Entry)) :
             page' = [page EXCEPT ![SlotOf[Entry]] = f] /\ Outcome(f, Whole(Entry))
      BY <1>3 DEF PrimeStored
    <3>2. f \in Held
      BY HeldFacts DEF Written, TypeInv, TypeOK
    <3>3. QED
      BY <3>1, <3>2, MishapTypes DEF TypeInv, TypeOK
  <2>3. QED
    BY <1>3, <2>1, <2>2 DEF PrimeStored, TypeInv, TypeOK, BodyHeld, Replaying, TaskState
<1>4. CASE PrimeFails
  BY <1>4, ForgetTypes, MishapTypes DEF PrimeFails, TypeInv, TypeOK, TaskState, disk
<1>5. QED
  BY <1>1, <1>2, <1>3, <1>4

LEMMA ReplayTypes ==
  ASSUME TypeInv, OpenMeta \/ StartCrawl \/ (\E s \in Script : Replay(s)) \/ ReplayDone
  PROVE  TypeInv'
<1>1. CASE OpenMeta
  BY <1>1 DEF OpenMeta, TypeInv, TypeOK, BodyHeld, Replaying, Meta, disk, history
<1>2. CASE StartCrawl
  <2>1. task' \in [Page -> TaskState] /\ \A s \in Script : task'[s] = task[s]
    BY <1>2, HeldFacts DEF StartCrawl, TypeInv, TypeOK, TaskState
  <2>2. QED
    BY <1>2, <2>1 DEF StartCrawl, TypeInv, TypeOK, BodyHeld, Replaying, TaskState, disk, history
<1>3. ASSUME NEW s \in Script, Replay(s) PROVE TypeInv'
  <2>1. /\ task' \in [Page -> TaskState] /\ restored' \in [Script -> Held]
        /\ \A t \in Script : task'[t] = "storing" => task[t] = "storing"
    <3>1. CASE Restore(s)
      BY <3>1, RestoreTypes
    <3>2. CASE restored' = [restored EXCEPT ![s] = source[PathOf[s]]] /\ UNCHANGED task
      BY <3>2, HeldFacts DEF TypeInv, TypeOK, TaskState
    <3>3. CASE UNCHANGED <<task, restored>>
      BY <3>3 DEF TypeInv, TypeOK, TaskState
    <3>4. QED
      BY <1>3, <3>1, <3>2, <3>3 DEF Replay
  <2>2. listed' \subseteq Script /\ mapped' \subseteq Script /\ toReplay' \subseteq Script
    BY <1>3 DEF Replay, TypeInv, TypeOK
  <2>3. QED
    BY <1>3, <2>1, <2>2 DEF Replay, TypeInv, TypeOK, BodyHeld, Replaying, TaskState, disk, history
<1>4. CASE ReplayDone
  <2>1. result' \in Report
    BY <1>4, ReturnTypes DEF ReplayDone, TypeInv, Replaying
  <2>2. QED
    BY <1>4, <2>1, ForgetTypes DEF ReplayDone, Return, TypeInv, TypeOK, TaskState, disk, history
<1>5. QED
  BY <1>1, <1>2, <1>3, <1>4

LEMMA AnalyseTypes == ASSUME TypeInv, NEW p \in Page, Analyse(p) PROVE TypeInv'
<1> DEFINE b == IF Cached(p) THEN page[SlotOf[p]] ELSE Whole(p)
           next == IF p = Entry THEN "done" ELSE IF Writable THEN "storing" ELSE "probing"
<1>1. b \in Content
  BY HeldFacts DEF Cached, TypeInv, TypeOK, Whole, Content
<1>2. next \in TaskState
  BY DEF TaskState
<1>3. next = "storing" => p \in Script
  BY DEF Page
<1>4. next = "probing" => p \in Script
  BY DEF Page
<1>5. body' = IF next = "storing" THEN [body EXCEPT ![p] = b] ELSE body
  BY DEF Analyse
<1>6. PICK found : task' = [q \in Page |->
                              IF q = p THEN next
                              ELSE IF q \in found /\ task[q] = "new" THEN "queued"
                              ELSE task[q]]
  BY DEF Analyse
<1>7. listed' = IF next = "probing" THEN listed \cup {p} ELSE listed
  BY DEF Analyse
<1> HIDE DEF b, next
<1>8. task' \in [Page -> TaskState]
  BY <1>6, <1>2 DEF TypeInv, TypeOK, TaskState
<1>9. body' \in [Script -> Held]
  BY <1>5, <1>1, HeldFacts DEF TypeInv, TypeOK
<1>10. BodyHeld'
  <2> SUFFICES ASSUME NEW s \in Script, task'[s] = "storing" PROVE body'[s] # NoFile
    BY DEF BodyHeld
  <2>1. CASE s = p
    BY <2>1, <1>1, <1>3, <1>5, <1>6, HeldFacts DEF TypeInv, TypeOK
  <2>2. CASE s # p
    BY <2>2, <1>3, <1>5, <1>6, HeldFacts DEF TypeInv, TypeOK, BodyHeld
  <2>3. QED
    BY <2>1, <2>2
<1>11. listed' \subseteq Script
  BY <1>7, <1>4 DEF TypeInv, TypeOK
<1>12. QED
  BY <1>8, <1>9, <1>10, <1>11 DEF Analyse, TypeInv, TypeOK, TaskState, Replaying, disk, history

LEMMA StoredTypes == ASSUME TypeInv, NEW s \in Script, Stored(s) PROVE TypeInv'
<1>1. PICK f \in Written(page[SlotOf[s]], body[s]) :
         page' = [page EXCEPT ![SlotOf[s]] = f] /\ Outcome(f, body[s])
  BY DEF Stored
<1>2. f \in Held
  BY HeldFacts DEF Written, TypeInv, TypeOK
<1>3. page' \in [Slot -> Held] /\ mishaps' \in 0..MaxMishaps /\ damaged' \in BOOLEAN
  BY <1>1, <1>2, MishapTypes DEF TypeInv, TypeOK
<1>4. /\ task' \in [Page -> TaskState] /\ body' \in [Script -> Held]
      /\ listed' \subseteq Script
  BY HeldFacts DEF Stored, TypeInv, TypeOK, TaskState
<1>5. BodyHeld'
  BY HeldFacts DEF Stored, TypeInv, TypeOK, BodyHeld
<1>6. QED
  BY <1>3, <1>4, <1>5 DEF Stored, TypeInv, TypeOK, TaskState, Replaying

LEMMA MapTypes ==
  ASSUME TypeInv, NEW s \in Script,
         ProbeCached(s) \/ ProbeNetwork(s) \/ ProbeFails(s) \/ MapStored(s) \/ SourceStored(s)
  PROVE  TypeInv'
<1>1. CASE ProbeCached(s)
  <2>1. /\ task' \in [Page -> TaskState] /\ restored' \in [Script -> Held]
        /\ \A t \in Script : task'[t] = "storing" => task[t] = "storing"
    <3>1. CASE Restore(s)
      BY <3>1, RestoreTypes
    <3>2. CASE task' = [task EXCEPT ![s] = "done"] /\ UNCHANGED restored
      BY <3>2, HeldFacts DEF TypeInv, TypeOK, TaskState
    <3>3. QED
      BY <1>1, <3>1, <3>2 DEF ProbeCached
  <2>2. QED
    BY <1>1, <2>1 DEF ProbeCached, TypeInv, TypeOK, BodyHeld, Replaying, TaskState, disk, history
<1>2. CASE ProbeNetwork(s)
  <2>1. /\ task' \in [Page -> TaskState] /\ restored' \in [Script -> Held]
        /\ \A t \in Script : task'[t] = "storing" => task[t] = "storing"
    <3>1. CASE Restore(s)
      BY <3>1, RestoreTypes
    <3>2. CASE task' = [task EXCEPT ![s] = "mapping"] /\ UNCHANGED restored
      BY <3>2, HeldFacts DEF TypeInv, TypeOK, TaskState
    <3>3. QED
      BY <1>2, <3>1, <3>2 DEF ProbeNetwork
  <2>2. QED
    BY <1>2, <2>1 DEF ProbeNetwork, TypeInv, TypeOK, BodyHeld, Replaying, TaskState, disk, history
<1>3. CASE ProbeFails(s)
  <2>1. /\ task' \in [Page -> TaskState]
        /\ \A t \in Script : task'[t] = "storing" => task[t] = "storing"
    BY <1>3, HeldFacts DEF ProbeFails, TypeInv, TypeOK, TaskState
  <2>2. mishaps' \in 0..MaxMishaps /\ exact' \in BOOLEAN
    BY <1>3, MishapTypes DEF ProbeFails, TypeInv, TypeOK
  <2>3. QED
    BY <1>3, <2>1, <2>2 DEF ProbeFails, TypeInv, TypeOK, BodyHeld, Replaying, TaskState, disk
<1>4. CASE MapStored(s)
  <2>1. mapFile' \in [Script -> Held] /\ mishaps' \in 0..MaxMishaps /\ damaged' \in BOOLEAN
    <3>1. CASE UNCHANGED <<mapFile, damaged, mishaps>>
      BY <3>1 DEF TypeInv, TypeOK
    <3>2. ASSUME NEW f \in Written(mapFile[s], Whole(s)),
                 mapFile' = [mapFile EXCEPT ![s] = f], Outcome(f, Whole(s))
          PROVE  mapFile' \in [Script -> Held] /\ mishaps' \in 0..MaxMishaps /\ damaged' \in BOOLEAN
      <4>1. f \in Held
        BY HeldFacts DEF Written, TypeInv, TypeOK
      <4>2. QED
        BY <3>2, <4>1, MishapTypes DEF TypeInv, TypeOK
    <3>3. QED
      BY <1>4, <3>1, <3>2 DEF MapStored
  <2>2. Restore(s)
    BY <1>4 DEF MapStored
  <2>3. QED
    BY <1>4, <2>1, <2>2, RestoreTypes DEF MapStored, TypeInv, TypeOK, BodyHeld, Replaying, TaskState
<1>5. CASE SourceStored(s)
  <2>1. source' \in [Path -> Held] /\ mishaps' \in 0..MaxMishaps /\ damaged' \in BOOLEAN
    <3>1. PICK f \in Written(source[PathOf[s]], Whole(s)) :
             source' = [source EXCEPT ![PathOf[s]] = f] /\ Outcome(f, Whole(s))
      BY <1>5 DEF SourceStored
    <3>2. f \in Held
      BY HeldFacts DEF Written, TypeInv, TypeOK
    <3>3. QED
      BY <3>1, <3>2, MishapTypes DEF TypeInv, TypeOK
  <2>2. /\ task' \in [Page -> TaskState] /\ restored' \in [Script -> Held]
        /\ \A t \in Script : task'[t] = "storing" => task[t] = "storing"
    BY <1>5, HeldFacts DEF SourceStored, TypeInv, TypeOK, TaskState
  <2>3. QED
    BY <1>5, <2>1, <2>2 DEF SourceStored, TypeInv, TypeOK, BodyHeld, Replaying, TaskState
<1>6. QED
  BY <1>1, <1>2, <1>3, <1>4, <1>5

LEMMA EndTypes ==
  ASSUME TypeInv,
         (\E m \in Modes : Begin(m)) \/ (\E p \in Page : DownloadFails(p))
         \/ CrawlEnds \/ SaveSiteMetadata \/ Abort
  PROVE  TypeInv'
<1>1. ASSUME NEW m \in Modes, Begin(m) PROVE TypeInv'
  BY <1>1, CacheAssumption DEF Begin, TypeInv, TypeOK, BodyHeld, Replaying, disk, crawled
<1>2. ASSUME NEW p \in Page, DownloadFails(p) PROVE TypeInv'
  <2>1. /\ task' \in [Page -> TaskState]
        /\ \A t \in Script : task'[t] = "storing" => task[t] = "storing"
    BY <1>2, HeldFacts DEF DownloadFails, TypeInv, TypeOK, TaskState
  <2>2. QED
    BY <1>2, <2>1, MishapTypes DEF DownloadFails, TypeInv, TypeOK, BodyHeld, Replaying, TaskState, disk
<1>3. CASE CrawlEnds
  <2>1. CASE Return(FALSE)
    <3>1. result' \in Report
      BY <2>1, ReturnTypes
    <3>2. QED
      BY <1>3, <2>1, <3>1, ForgetTypes DEF CrawlEnds, Return, TypeInv, TypeOK, TaskState, disk, history
  <2>2. CASE phase' = "save" /\ UNCHANGED <<memory, result>>
    BY <1>3, <2>2 DEF CrawlEnds, TypeInv, TypeOK, BodyHeld, Replaying, disk, memory, crawled, history
  <2>3. QED
    BY <1>3, <2>1, <2>2 DEF CrawlEnds
<1>4. CASE SaveSiteMetadata
  <2>1. meta' \in Meta \cup {CutMeta, NoFile} /\ mishaps' \in 0..MaxMishaps /\ damaged' \in BOOLEAN
    <3>1. PICK f \in Written(meta, Record) : meta' = f /\ Outcome(f, Record)
      BY <1>4 DEF SaveSiteMetadata
    <3>2. QED
      BY <3>1, RecordType, MishapTypes DEF Written, TypeInv, TypeOK
  <2>2. Return(FALSE) /\ result' \in Report
    BY <1>4, ReturnTypes DEF SaveSiteMetadata
  <2>3. QED
    BY <1>4, <2>1, <2>2, ForgetTypes DEF SaveSiteMetadata, Return, TypeInv, TypeOK, TaskState
<1>5. CASE Abort
  BY <1>5, MishapTypes DEF Abort, TypeInv, TypeOK, BodyHeld, Replaying, disk, crawled
<1>6. QED
  BY <1>1, <1>2, <1>3, <1>4, <1>5

LEMMA MishapStepTypes == ASSUME TypeInv, Tear \/ Crash \/ Lose PROVE TypeInv'
<1>1. CASE Tear
  <2>1. /\ page' \in [Slot -> Held] /\ mapFile' \in [Script -> Held]
        /\ source' \in [Path -> Held] /\ meta' \in Meta \cup {CutMeta, NoFile}
        /\ phase = "replay" => meta' = meta
    <3>1. ASSUME NEW p \in Page, task[p] = "storing",
                 LET new == IF p = Entry THEN Entry ELSE body[p].of IN
                 page' = [page EXCEPT ![SlotOf[p]] = IF @ = NoFile THEN Cut(new) ELSE NoFile],
                 UNCHANGED <<mapFile, source, meta>>
          PROVE  page' \in [Slot -> Held]
      <4> DEFINE new == IF p = Entry THEN Entry ELSE body[p].of
      <4>1. p # Entry => body[p] \in Content
        BY <3>1, HeldFacts DEF TypeInv, TypeOK, BodyHeld, Page
      <4>2. new \in Page
        BY <4>1, HeldFacts
      <4>3. QED
        BY <3>1, <4>2, HeldFacts DEF TypeInv, TypeOK
    <3>2. QED
      BY <1>1, <3>1, HeldFacts DEF Tear, Restoring, TypeInv, TypeOK
  <2>2. QED
    BY <1>1, <2>1 DEF Tear, TypeInv, TypeOK, BodyHeld, Replaying, memory, crawled, history
<1>2. CASE Crash
  BY <1>2, ForgetTypes, MishapTypes DEF Crash, TypeInv, TypeOK, TaskState, disk
<1>3. CASE Lose
  BY <1>3, HeldFacts, MishapTypes DEF Lose, TypeInv, TypeOK, BodyHeld, Replaying, memory, crawled
<1>4. QED
  BY <1>1, <1>2, <1>3

LEMMA StepTypes == TypeInv /\ [Next]_vars => TypeInv'
<1> SUFFICES ASSUME TypeInv, [Next]_vars PROVE TypeInv'
  OBVIOUS
<1>1. CASE UNCHANGED vars
  BY <1>1 DEF vars, disk, memory, crawled, history, TypeInv, TypeOK, BodyHeld, Replaying
<1>2. CASE Next
  BY <1>2, PrimeTypes, ReplayTypes, AnalyseTypes, StoredTypes, MapTypes, EndTypes,
     MishapStepTypes DEF Next
<1>3. QED
  BY <1>1, <1>2

THEOREM TypesHold == Spec => []TypeInv
<1>1. QED
  BY InitTypes, StepTypes, PTL DEF Spec

\* For any site and any history, the files and the memory of a scan hold what
\* they are meant to hold: in particular a cut file has a page it is cut from.
THEOREM TypeCorrect == Spec => []TypeOK
<1>1. TypeInv => TypeOK
  BY DEF TypeInv
<1>2. QED
  BY <1>1, TypesHold, PTL

-----------------------------------------------------------------------------
\* A file that is not there is being written.
SlotBacked(s) ==
  page[SlotOf[s]] # NoFile
    \/ \E q \in Script : task[q] = "storing" /\ SlotOf[q] = SlotOf[s]
PathBacked(s) ==
  source[PathOf[s]] # NoFile
    \/ \E q \in Script : task[q] = "restoring" /\ PathOf[q] = PathOf[s]

\* What a crawl has listed and restored is on disk or on its way there.
Backed ==
  phase \in {"crawl", "save"} /\ Writable /\ ~damaged =>
    /\ \A s \in listed : SlotBacked(s)
    /\ \A s \in Script : restored[s] # NoFile => PathBacked(s)

\* A crawl begins with nothing, and the metadata is written when it is over.
Early == phase \in {"off", "prime", "open"} => listed = {} /\ restored = Nothing
Quiet == phase = "save" => Writable /\ \A q \in Script : task[q] \notin {"storing", "restoring"}

BackInv == Backed /\ Early /\ Quiet

LEMMA InitBack == Init => BackInv
  BY DEF Init, BackInv, Backed, Early, Quiet

LEMMA ForgetBack == ASSUME Forget PROVE BackInv'
  BY DEF Forget, BackInv, Backed, Early, Quiet

\* A step of a crawl that removes no file and ends no write keeps them backed.
LEMMA KeepsBacked ==
  ASSUME TypeInv, BackInv, UNCHANGED <<mode, page, source, damaged, restored>>,
         phase = "crawl", phase' = "crawl",
         Writable => listed' = listed,
         \A q \in Script : task[q] \in {"storing", "restoring"} => task'[q] = task[q]
  PROVE  BackInv'
<1>1. ASSUME Writable, ~damaged, NEW s \in listed PROVE SlotBacked(s)'
  BY <1>1 DEF BackInv, Backed, SlotBacked
<1>2. ASSUME Writable, ~damaged, NEW s \in Script, restored[s] # NoFile PROVE PathBacked(s)'
  BY <1>2 DEF BackInv, Backed, PathBacked
<1>3. QED
  BY <1>1, <1>2 DEF BackInv, Backed, Early, Quiet, Writable

\* Restore(s) without a store reports at once; otherwise nothing is reported yet.
LEMMA RestoreBack ==
  ASSUME TypeInv, BackInv, NEW s \in Script, Restore(s),
         task[s] \in {"probing", "mapping"},
         UNCHANGED <<mode, page, source, listed>>, damaged' = FALSE => ~damaged,
         phase = "crawl", phase' = "crawl"
  PROVE  BackInv'
<1>1. Writable => restored' = restored
  BY DEF Restore
<1>2. \A q \in Script : task[q] \in {"storing", "restoring"} => task'[q] = task[q]
  BY HeldFacts DEF Restore, TypeInv, TypeOK
<1>3. ASSUME Writable, ~damaged', NEW t \in listed PROVE SlotBacked(t)'
  BY <1>2, <1>3 DEF BackInv, Backed, SlotBacked, TypeInv, TypeOK
<1>4. ASSUME Writable, ~damaged', NEW t \in Script, restored[t] # NoFile PROVE PathBacked(t)'
  BY <1>2, <1>4 DEF BackInv, Backed, PathBacked, TypeInv, TypeOK
<1>5. QED
  BY <1>1, <1>3, <1>4 DEF BackInv, Backed, Early, Quiet, Writable

LEMMA StoredBack == ASSUME TypeInv, BackInv, NEW s \in Script, Stored(s) PROVE BackInv'
<1>1. ~damaged' => ~damaged /\ page' = [page EXCEPT ![SlotOf[s]] = body[s]]
  BY DEF Stored, Outcome
<1>2. body[s] # NoFile
  BY DEF Stored, TypeInv, BodyHeld
<1>3. \A q \in Script \ {s} : task'[q] = task[q]
  BY HeldFacts DEF Stored, TypeInv, TypeOK
<1>4. ASSUME ~damaged', NEW t \in Script, t = s \/ SlotBacked(t) PROVE SlotBacked(t)'
  <2>1. CASE SlotOf[t] = SlotOf[s]
    BY <2>1, <1>1, <1>2, <1>4, HeldFacts DEF SlotBacked, TypeInv, TypeOK
  <2>2. CASE SlotOf[t] # SlotOf[s]
    BY <2>2, <1>1, <1>3, <1>4, HeldFacts DEF SlotBacked, TypeInv, TypeOK
  <2>3. QED
    BY <2>1, <2>2
<1>5. ASSUME NEW t \in Script, PathBacked(t) PROVE PathBacked(t)'
  BY <1>3, <1>5 DEF PathBacked, Stored
<1>6. QED
  BY <1>1, <1>4, <1>5 DEF Stored, BackInv, Backed, Early, Quiet, Writable, TypeInv, TypeOK

LEMMA SourceBack == ASSUME TypeInv, BackInv, NEW s \in Script, SourceStored(s) PROVE BackInv'
<1>1. ~damaged' => ~damaged /\ source' = [source EXCEPT ![PathOf[s]] = Whole(s)]
  BY DEF SourceStored, Outcome
<1>2. Whole(s) # NoFile
  BY HeldFacts
<1>3. \A q \in Script \ {s} : task'[q] = task[q]
  BY HeldFacts DEF SourceStored, TypeInv, TypeOK
<1>4. ASSUME ~damaged', NEW t \in Script, t = s \/ PathBacked(t) PROVE PathBacked(t)'
  <2>1. CASE PathOf[t] = PathOf[s]
    BY <2>1, <1>1, <1>2, <1>4, HeldFacts DEF PathBacked, TypeInv, TypeOK
  <2>2. CASE PathOf[t] # PathOf[s]
    BY <2>2, <1>1, <1>3, <1>4, HeldFacts DEF PathBacked, TypeInv, TypeOK
  <2>3. QED
    BY <2>1, <2>2
<1>5. ASSUME NEW t \in Script, SlotBacked(t) PROVE SlotBacked(t)'
  BY <1>3, <1>5 DEF SlotBacked, SourceStored
<1>6. \A t \in Script : restored'[t] # NoFile => t = s \/ restored[t] # NoFile
  BY DEF SourceStored, TypeInv, TypeOK
<1>7. QED
  BY <1>1, <1>4, <1>5, <1>6 DEF SourceStored, BackInv, Backed, Early, Quiet, Writable, TypeInv, TypeOK

LEMMA TearBack == ASSUME TypeInv, BackInv, Tear PROVE BackInv'
<1>1. ASSUME NEW s \in Script, SlotBacked(s) PROVE SlotBacked(s)'
  <2>1. CASE UNCHANGED page
    BY <1>1, <2>1 DEF Tear, SlotBacked, crawled, memory
  <2>2. ASSUME NEW p \in Page, task[p] = "storing", NEW f,
               page' = [page EXCEPT ![SlotOf[p]] = f]
        PROVE  SlotBacked(s)'
    <3>1. CASE p = Entry
      BY <1>1, <2>2, <3>1, CacheAssumption DEF Tear, SlotBacked, crawled, memory, TypeInv, TypeOK
    <3>2. CASE p # Entry
      BY <1>1, <2>2, <3>2 DEF Tear, SlotBacked, crawled, memory, TypeInv, TypeOK, Page
    <3>3. QED
      BY <3>1, <3>2
  <2>3. QED
    BY <2>1, <2>2 DEF Tear
<1>2. ASSUME NEW s \in Script, PathBacked(s) PROVE PathBacked(s)'
  <2>1. CASE UNCHANGED source
    BY <1>2, <2>1 DEF Tear, PathBacked, crawled, memory
  <2>2. ASSUME NEW q \in Restoring, NEW f, source' = [source EXCEPT ![PathOf[q]] = f]
        PROVE  PathBacked(s)'
    BY <1>2, <2>2 DEF Tear, PathBacked, Restoring, crawled, memory, TypeInv, TypeOK
  <2>3. QED
    BY <2>1, <2>2 DEF Tear
<1>3. QED
  BY <1>1, <1>2 DEF Tear, BackInv, Backed, Early, Quiet, Writable, memory, crawled, history,
                     TypeInv, TypeOK

\* The body is analysed: the script is listed at once only without a store.
LEMMA AnalyseBack == ASSUME TypeInv, BackInv, NEW p \in Page, Analyse(p) PROVE BackInv'
<1>1. Writable => listed' = listed
  BY DEF Analyse
<1>2. \A q \in Script : task[q] \in {"storing", "restoring"} => task'[q] = task[q]
  BY HeldFacts DEF Analyse, TypeInv, TypeOK
<1>3. QED
  BY <1>1, <1>2, KeepsBacked DEF Analyse, disk, history

LEMMA StepBack == TypeInv /\ BackInv /\ [Next]_vars => BackInv'
<1> SUFFICES ASSUME TypeInv, BackInv, [Next]_vars PROVE BackInv'
  OBVIOUS
<1>1. CASE UNCHANGED vars
  BY <1>1 DEF vars, disk, memory, crawled, history, BackInv, Backed, Early, Quiet, SlotBacked,
              PathBacked, Writable
<1>2. ASSUME NEW m \in Modes, Begin(m) PROVE BackInv'
  BY <1>2 DEF Begin, crawled, BackInv, Backed, Early, Quiet
<1>3. CASE PrimeHit \/ PrimeDownload \/ PrimeStored
  BY <1>3 DEF PrimeHit, PrimeDownload, PrimeStored, memory, crawled, BackInv, Backed, Early, Quiet
<1>4. CASE PrimeFails \/ ReplayDone \/ Crash
  BY <1>4, ForgetBack DEF PrimeFails, ReplayDone, Return, Crash
<1>5. CASE OpenMeta
  BY <1>5 DEF OpenMeta, BackInv, Backed, Early, Quiet
<1>6. CASE StartCrawl
  BY <1>6 DEF StartCrawl, BackInv, Backed, Early, Quiet, Nothing
<1>7. ASSUME NEW s \in Script, Replay(s) PROVE BackInv'
  BY <1>7 DEF Replay, BackInv, Backed, Early, Quiet
<1>8. ASSUME NEW p \in Page, DownloadFails(p) PROVE BackInv'
  <2>1. \A q \in Script : task[q] \in {"storing", "restoring"} => task'[q] = task[q]
    BY <1>8, HeldFacts DEF DownloadFails, TypeInv, TypeOK
  <2>2. QED
    BY <1>8, <2>1, KeepsBacked DEF DownloadFails, disk
<1>9. ASSUME NEW s \in Script, ProbeCached(s) \/ ProbeNetwork(s) \/ MapStored(s) PROVE BackInv'
  <2>1. CASE Restore(s)
    <3>1. damaged' = FALSE => ~damaged
      BY <1>9 DEF ProbeCached, ProbeNetwork, MapStored, Outcome, disk, history
    <3>2. /\ task[s] \in {"probing", "mapping"} /\ phase = "crawl" /\ phase' = "crawl"
          /\ UNCHANGED <<mode, page, source, listed>>
      BY <1>9 DEF ProbeCached, ProbeNetwork, MapStored, disk
    <3>3. QED
      BY <2>1, <3>1, <3>2, RestoreBack
  <2>2. CASE task' = [task EXCEPT ![s] = "done"] /\ UNCHANGED restored
    <3>1. ProbeCached(s) => UNCHANGED <<mode, page, source, damaged, listed>>
      BY DEF ProbeCached, disk, history
    <3>2. QED
      BY <1>9, <2>1, <2>2, <3>1, KeepsBacked, HeldFacts
      DEF ProbeCached, ProbeNetwork, MapStored, TypeInv, TypeOK
  <2>3. CASE task' = [task EXCEPT ![s] = "mapping"] /\ UNCHANGED restored
    <3>1. ProbeNetwork(s) => UNCHANGED <<mode, page, source, damaged, listed>>
      BY DEF ProbeNetwork, disk, history
    <3>2. QED
      BY <1>9, <2>1, <2>3, <3>1, KeepsBacked, HeldFacts
      DEF ProbeCached, ProbeNetwork, MapStored, TypeInv, TypeOK
  <2>4. QED
    BY <1>9, <2>1, <2>2, <2>3 DEF ProbeCached, ProbeNetwork, MapStored
<1>10. ASSUME NEW s \in Script, ProbeFails(s) PROVE BackInv'
  <2>1. \A q \in Script : task[q] \in {"storing", "restoring"} => task'[q] = task[q]
    BY <1>10, HeldFacts DEF ProbeFails, TypeInv, TypeOK
  <2>2. QED
    BY <1>10, <2>1, KeepsBacked DEF ProbeFails, disk
<1>11. CASE CrawlEnds
  <2>1. \A q \in Script : task[q] \notin {"storing", "restoring"}
    BY <1>11, HeldFacts DEF CrawlEnds
  <2>2. CASE Return(FALSE)
    BY <2>2, ForgetBack DEF Return
  <2>3. CASE Writable /\ phase' = "save" /\ UNCHANGED <<memory, result>>
    BY <1>11, <2>1, <2>3
    DEF CrawlEnds, disk, memory, crawled, history, BackInv, Backed, Early, Quiet, SlotBacked,
        PathBacked, Writable
  <2>4. QED
    BY <1>11, <2>2, <2>3 DEF CrawlEnds
<1>12. CASE SaveSiteMetadata
  BY <1>12, ForgetBack DEF SaveSiteMetadata, Return
<1>13. CASE Abort
  BY <1>13 DEF Abort, disk, crawled, BackInv, Backed, Early, Quiet, SlotBacked, PathBacked, Writable
<1>14. CASE Lose
  BY <1>14 DEF Lose, memory, crawled, BackInv, Backed, Early, Quiet
<1>15. QED
  BY <1>1, <1>2, <1>3, <1>4, <1>5, <1>6, <1>7, <1>8, <1>9, <1>10, <1>11, <1>12, <1>13, <1>14,
     AnalyseBack, StoredBack, SourceBack, TearBack DEF Next

\* A record comes to be on disk only in SaveSiteMetadata, from what was backed.
LEMMA StepMeta ==
  TypeInv /\ BackInv /\ [Next]_vars =>
    (meta' # meta /\ meta' \in Meta /\ ~damaged' =>
       /\ \A s \in meta'.listed : page[SlotOf[s]] # NoFile
       /\ \A s \in meta'.kept : source[PathOf[s]] # NoFile)
<1> SUFFICES ASSUME TypeInv, BackInv, [Next]_vars, meta' # meta, meta' \in Meta, ~damaged'
             PROVE  /\ \A s \in meta'.listed : page[SlotOf[s]] # NoFile
                    /\ \A s \in meta'.kept : source[PathOf[s]] # NoFile
  OBVIOUS
<1>1. CutMeta \notin Meta /\ NoFile \notin Meta
  BY CacheAssumption DEF CutMeta, Cut, Meta
<1>2. SaveSiteMetadata
  <2>1. ~Tear /\ ~Lose
    BY <1>1 DEF Tear, Lose
  <2>2. QED
    BY <2>1 DEF Next, vars, disk, Begin, PrimeHit, PrimeDownload, PrimeStored, PrimeFails, OpenMeta,
            StartCrawl, Replay, ReplayDone, Analyse, DownloadFails, Stored, ProbeCached,
            ProbeNetwork, ProbeFails, MapStored, SourceStored, CrawlEnds, Abort, Crash
<1>3. meta' = Record /\ ~damaged
  BY <1>2 DEF SaveSiteMetadata, Outcome
<1>4. meta'.listed = listed /\ meta'.kept = {s \in listed : restored[s] # NoFile}
  BY <1>3 DEF Record
<1>5. /\ \A s \in listed : SlotBacked(s)
      /\ \A s \in Script : restored[s] # NoFile => PathBacked(s)
      /\ \A q \in Script : task[q] \notin {"storing", "restoring"}
  BY <1>2, <1>3 DEF SaveSiteMetadata, BackInv, Backed, Quiet
<1>6. QED
  BY <1>4, <1>5 DEF SlotBacked, PathBacked, TypeInv, TypeOK

\* For any site, with shared slots and shared source paths, and any sequence of
\* scans, crashes and failed writes: when meta.json is written, every script it
\* lists and every source it calls restored is on disk.
THEOREM MetaComesLast == Spec => MetaBacked
<1>1. Spec => [](TypeInv /\ BackInv)
  <2>1. TypeInv /\ BackInv /\ [Next]_vars => (TypeInv /\ BackInv)'
    BY StepTypes, StepBack
  <2>2. QED
    BY <2>1, InitTypes, InitBack, PTL DEF Spec
<1>2. QED
  BY <1>1, StepMeta, PTL DEF Spec, MetaBacked

-----------------------------------------------------------------------------
(* The cache only saves time: whatever ran in a scope before, a scan lists *)
(* what a scan of an empty store lists, and a replay reports the sources   *)
(* the crawl reported, as long as the histories are those the properties   *)
(* name.  Two pages of one slot, or two maps with one path, would read     *)
(* each other's files: the theorems are about sites where no two fall      *)
(* together.                                                               *)
SlotsDistinct == \A p, q \in Page : SlotOf[p] = SlotOf[q] => p = q
PathsDistinct == \A s, t \in Maps : PathOf[s] = PathOf[t] => s = t

-----------------------------------------------------------------------------
\* Where the tasks stand in each phase.
Stage ==
  /\ phase \in {"off", "prime", "open"} => \A s \in Script : task[s] = "new"
  /\ phase \in {"off", "open", "replay"} => task[Entry] = "new"
  /\ phase = "prime" => task[Entry] \in {"new", "storing"}
  /\ phase = "replay" => \A s \in Script : task[s] \in {"new", "restoring", "done"}
  /\ phase = "crawl" => task[Entry] \in {"queued", "done"}
  /\ phase = "save" => /\ task[Entry] \in {"queued", "done"}
                       /\ \A s \in Script : task[s] \in {"new", "queued", "done"}
                       /\ aborted \/ \A p \in Page : task[p] # "queued"

\* A page is in its slot whole, not at all, or being written.
PagesTrue ==
  \A p \in Page : \/ page[SlotOf[p]] \in {NoFile, Whole(p)}
                  \/ page[SlotOf[p]] = Cut(p) /\ task[p] = "storing"
BodiesTrue == \A s \in Script : task[s] = "storing" => body[s] = Whole(s)

Crawling == phase \in {"crawl", "save"}

\* What has been taken up leads from the entry page, and what is listed has
\* been taken up.
Sound ==
  Crawling =>
    /\ \A s \in Script : task[s] # "new" => s \in Reachable
    /\ \A s \in listed : task[s] # "new"

\* Unless something could not be had, what a page leads to has been taken up
\* once the page is analysed, and what is through is listed.
Complete ==
  Crawling /\ exact =>
    /\ \A p \in Page : task[p] \notin {"new", "queued"} => \A q \in Links[p] : task[q] # "new"
    /\ \A s \in Script : task[s] \notin {"new", "queued", "storing"} => s \in listed

\* What a record lists, what the replay has listed of it, and what was reported.
MetaTrue == meta \in Meta /\ meta.exact => meta.listed = Reachable
ReplayTrue ==
  phase = "replay" =>
    /\ recorded = meta /\ Readable /\ exact = meta.exact
    /\ listed \cup toReplay = meta.listed
ReportTrue == result \in Report /\ result.exact => result.listed = Reachable

ListInv ==
  /\ Stage
  /\ ~damaged => /\ PagesTrue /\ BodiesTrue
                 /\ Sound /\ Complete
                 /\ MetaTrue /\ ReplayTrue /\ ReportTrue

-----------------------------------------------------------------------------
\* A map or a source is in its file whole, not at all, or being written.
MapsTrue ==
  \A s \in Script :
    /\ \/ mapFile[s] \in {NoFile, Whole(s)}
       \/ mapFile[s] = Cut(s) /\ task[s] = "mapping"
    /\ mapFile[s] # NoFile => s \in Maps \ Foreign
SourcesTrue ==
  \A s \in Maps : \/ source[PathOf[s]] \in {NoFile, Whole(s)}
                  \/ source[PathOf[s]] = Cut(s) /\ task[s] = "restoring"

\* Sources come from maps, and while those of a script of the origin are being
\* written its map is intact.
FromMaps ==
  \A s \in Script :
    /\ task[s] \in {"mapping", "restoring"} => Writable /\ s \in Maps
    /\ task[s] = "restoring" /\ s \notin Foreign => mapFile[s] = Whole(s)

BothWhole(s) == mapFile[s] = Whole(s) /\ source[PathOf[s]] = Whole(s)

\* What a crawl reports, and that it has left both files of it on disk.
CrawlSources ==
  /\ phase \in {"off", "prime", "open"} => mapped = {}
  /\ Crawling =>
    /\ mapped \subseteq Maps
    /\ \A s \in Script :
         /\ restored[s] # NoFile => restored[s] = Whole(s) /\ s \in Maps /\ task[s] = "done"
         /\ exact /\ s \in Maps /\ task[s] = "done" => restored[s] = Whole(s)
         /\ restored[s] # NoFile /\ s \notin Foreign /\ Writable => BothWhole(s)

\* A record of a scan that missed nothing names the scripts with maps.
MetaSources ==
  meta \in Meta /\ meta.exact =>
    meta.mapped = (Maps \cap Reachable) \ Foreign /\ meta.kept = Maps \cap Reachable

\* A crawl that may read has found no record to replay.
NoRecord == Crawling /\ Readable => ~(meta \in Meta /\ meta.listed # {})

\* The sources a record promises.
Owed(s) == meta \in Meta /\ meta.exact /\ s \in meta.mapped

\* Both files of them are intact except for the one being written, and after
\* one noCache scan was cut off one of the two is.
Busy(s) == task[s] \in {"mapping", "restoring"}
IntactAt(s) ==
  /\ cutOff = 0 =>
       /\ task[s] # "restoring" => source[PathOf[s]] = Whole(s)
       /\ task[s] # "mapping" => mapFile[s] = Whole(s)
       /\ phase = "replay" => task[s] # "restoring"
  /\ cutOff <= 1 /\ ~Busy(s) => mapFile[s] = Whole(s) \/ source[PathOf[s]] = Whole(s)
Intact == \A s \in Script : Owed(s) => IntactAt(s)

\* What a replay has reported of the scripts it is through with.
ReplaySources ==
  phase = "replay" /\ exact /\ cutOff <= 1 =>
    \A s \in Script \ Foreign :
      /\ s \in toReplay => task[s] = "new" /\ s \notin listed
      /\ task[s] = "restoring" => s \in listed \cap Maps
      /\ restored[s] = IF s \in listed \cap Maps /\ task[s] # "restoring" THEN Whole(s) ELSE NoFile

ReportSources ==
  result \in Report /\ result.exact /\ cutOff <= 1 =>
    \A s \in Script :
      ~(result.replayed /\ s \in Foreign) =>
        result.sources[s] = IF s \in Maps \cap Reachable THEN Whole(s) ELSE NoFile

FilesTrue == MapsTrue /\ SourcesTrue /\ FromMaps
SourceInv ==
  ~damaged => /\ FilesTrue
              /\ CrawlSources /\ MetaSources /\ NoRecord
              /\ ~lost => Intact /\ ReplaySources /\ ReportSources

-----------------------------------------------------------------------------
LEMMA WholeFacts ==
  /\ \A p \in Page : /\ Whole(p) # NoFile /\ Whole(p).whole /\ Whole(p).of = p /\ ~IsCut(Whole(p))
                     /\ Cut(p) # NoFile /\ IsCut(Cut(p)) /\ ~Cut(p).whole
                     /\ Whole(p) # Cut(p)
  /\ \A p, q \in Page : Whole(p) = Whole(q) => p = q
<1>1. NoFile \notin Content
  BY HeldFacts
<1>2. \A p \in Page : Whole(p) \in Content /\ Cut(p) \in Content
  BY DEF Whole, Cut, Content
<1>3. \A p \in Page : Whole(p).whole = TRUE /\ Whole(p).of = p /\ Cut(p).whole = FALSE
  BY DEF Whole, Cut
<1>4. QED
  BY <1>1, <1>2, <1>3 DEF IsCut

\* Reachable holds what the entry page leads to and what its members lead to,
\* and is in every set that does.
LEMMA ReachFacts ==
  /\ Reachable \subseteq Script
  /\ Links[Entry] \subseteq Reachable
  /\ \A s \in Reachable : Links[s] \subseteq Reachable
  /\ \A S \in SUBSET Script : Closed(S) => Reachable \subseteq S
<1>1. \A p \in Page : Links[p] \subseteq Script
  BY CacheAssumption
<1>2. Links[Entry] \subseteq Reachable
  BY <1>1 DEF Reachable, Closed, Page
<1>3. ASSUME NEW s \in Reachable, NEW t \in Links[s] PROVE t \in Reachable
  BY <1>1, <1>3 DEF Reachable, Closed, Page
<1>4. QED
  BY <1>2, <1>3 DEF Reachable

\* Nothing mends a damaged scope, and no lost file comes back.
LEMMA HistoryGrows == TypeInv /\ [Next]_vars => (damaged => damaged') /\ (lost => lost')
<1> SUFFICES ASSUME TypeInv, [Next]_vars PROVE (damaged => damaged') /\ (lost => lost')
  OBVIOUS
<1>1. \A f, new : Outcome(f, new) => (damaged => damaged')
  BY DEF Outcome
<1>2. CASE UNCHANGED vars
  BY <1>2 DEF vars, history
<1>3. CASE \E m \in Modes : Begin(m)
  BY <1>3 DEF Begin
<1>4. CASE PrimeHit \/ PrimeDownload \/ OpenMeta \/ StartCrawl
  BY <1>4 DEF history, PrimeHit, PrimeDownload, OpenMeta, StartCrawl
<1>5. CASE ReplayDone \/ CrawlEnds
  <2>1. UNCHANGED history
    BY <1>5 DEF ReplayDone, CrawlEnds
  <2>2. QED
    BY <2>1 DEF history
<1>6. CASE Tear
  BY <1>6 DEF history, Tear
<1>7. CASE PrimeFails \/ Abort
  BY <1>7 DEF PrimeFails, Abort
<1>8. CASE Crash
  BY <1>8 DEF Crash, TypeInv, TypeOK
<1>9. CASE Lose
  BY <1>9 DEF Lose, TypeInv, TypeOK
<1>10. CASE \/ \E p \in Page : Analyse(p) \/ DownloadFails(p)
           \/ \E s \in Script : Replay(s) \/ ProbeCached(s) \/ ProbeNetwork(s) \/ ProbeFails(s)
  BY <1>10 DEF history, Analyse, DownloadFails, Replay, ProbeCached, ProbeNetwork, ProbeFails
<1>11. CASE PrimeStored \/ SaveSiteMetadata
  <2>1. UNCHANGED lost /\ \E f, new : Outcome(f, new)
    BY <1>11 DEF PrimeStored, SaveSiteMetadata
  <2>2. QED
    BY <2>1, <1>1
<1>12. ASSUME NEW s \in Script, Stored(s) \/ SourceStored(s)
       PROVE  (damaged => damaged') /\ (lost => lost')
  <2>1. UNCHANGED lost /\ \E f, new : Outcome(f, new)
    BY <1>12 DEF Stored, SourceStored
  <2>2. QED
    BY <2>1, <1>1
<1>13. ASSUME NEW s \in Script, MapStored(s) PROVE (damaged => damaged') /\ (lost => lost')
  BY <1>13, <1>1 DEF MapStored
<1>14. QED
  BY <1>2, <1>3, <1>10, <1>11, <1>13, <1>4, <1>5, <1>12, <1>6, <1>7, <1>8, <1>9 DEF Next

-----------------------------------------------------------------------------
LEMMA InitStage == Init => Stage
  BY HeldFacts DEF Init, Stage, Page

LEMMA ForgetStage == ASSUME Forget PROVE Stage'
  BY HeldFacts DEF Forget, Stage

\* A step of a crawl moves scripts along and leaves the entry page queued or done.
LEMMA CrawlStage ==
  ASSUME phase' = "crawl", task'[Entry] \in {"queued", "done"}
  PROVE  Stage'
  BY DEF Stage

LEMMA StepStage == TypeInv /\ Stage /\ [Next]_vars => Stage'
<1> SUFFICES ASSUME TypeInv, Stage, [Next]_vars PROVE Stage'
  OBVIOUS
<1> USE HeldFacts
<1>1. CASE UNCHANGED vars
  BY <1>1 DEF vars, memory, crawled, Stage
<1>2. ASSUME NEW m \in Modes, Begin(m) PROVE Stage'
  BY <1>2 DEF Begin, crawled, Stage
<1>3. CASE PrimeHit
  BY <1>3 DEF PrimeHit, memory, crawled, Stage
<1>4. CASE PrimeDownload
  BY <1>4 DEF PrimeDownload, Stage, TypeInv, TypeOK
<1>5. CASE PrimeStored
  BY <1>5 DEF PrimeStored, Stage, TypeInv, TypeOK
<1>6. CASE PrimeFails \/ ReplayDone \/ SaveSiteMetadata \/ Crash
  BY <1>6, ForgetStage DEF PrimeFails, ReplayDone, SaveSiteMetadata, Crash, Return
<1>7. CASE OpenMeta
  BY <1>7 DEF OpenMeta, Stage
<1>8. CASE StartCrawl
  BY <1>8, CrawlStage DEF StartCrawl, TypeInv, TypeOK
<1>9. ASSUME NEW s \in Script, Replay(s) PROVE Stage'
  <2>1. \A t \in Script : task'[t] \in {"new", "restoring", "done"}
    BY <1>9 DEF Replay, Restore, Stage, TypeInv, TypeOK
  <2>2. task'[Entry] = task[Entry]
    BY <1>9 DEF Replay, Restore, TypeInv, TypeOK
  <2>3. QED
    BY <1>9, <2>1, <2>2 DEF Replay, Stage
<1>10. ASSUME NEW p \in Page, Analyse(p) PROVE Stage'
  BY <1>10, CrawlStage DEF Analyse, Stage, TypeInv, TypeOK
<1>11. ASSUME NEW p \in Page, DownloadFails(p) PROVE Stage'
  BY <1>11, CrawlStage DEF DownloadFails, Stage, TypeInv, TypeOK
<1>12. ASSUME NEW s \in Script,
              Stored(s) \/ ProbeCached(s) \/ ProbeNetwork(s) \/ ProbeFails(s) \/ MapStored(s)
       PROVE  Stage'
  <2>1. task'[Entry] = task[Entry]
    BY <1>12 DEF Stored, ProbeCached, ProbeNetwork, ProbeFails, MapStored, Restore, TypeInv, TypeOK
  <2>2. QED
    BY <1>12, <2>1, CrawlStage
    DEF Stored, ProbeCached, ProbeNetwork, ProbeFails, MapStored, Stage
<1>13. ASSUME NEW s \in Script, SourceStored(s) PROVE Stage'
  BY <1>13 DEF SourceStored, Stage, TypeInv, TypeOK
<1>14. CASE CrawlEnds
  <2>1. CASE Return(FALSE)
    BY <2>1, ForgetStage DEF Return
  <2>2. CASE phase' = "save" /\ UNCHANGED <<memory, result>>
    BY <1>14, <2>2 DEF CrawlEnds, memory, crawled, Stage, Page
  <2>3. QED
    BY <1>14, <2>1, <2>2 DEF CrawlEnds
<1>15. CASE Abort
  BY <1>15 DEF Abort, crawled, Stage
<1>16. CASE Tear \/ Lose
  BY <1>16 DEF Tear, Lose, memory, crawled, Stage
<1>17. QED
  BY <1>1, <1>2, <1>3, <1>4, <1>5, <1>6, <1>7, <1>8, <1>9, <1>10, <1>11, <1>12, <1>13, <1>14,
     <1>15, <1>16 DEF Next

-----------------------------------------------------------------------------
LEMMA InitPages == Init => PagesTrue /\ BodiesTrue
  BY HeldFacts DEF Init, PagesTrue, BodiesTrue

\* A step that writes no page and neither starts nor ends a write of one.
LEMMA PagesStay ==
  ASSUME PagesTrue, BodiesTrue, UNCHANGED page,
         \A p \in Page : task[p] = "storing" => task'[p] = "storing",
         \A s \in Script : task'[s] = "storing" => task[s] = "storing" /\ body'[s] = body[s]
  PROVE  PagesTrue' /\ BodiesTrue'
  BY DEF PagesTrue, BodiesTrue

\* A scan that writes no page ends.
LEMMA PagesForget ==
  ASSUME PagesTrue, BodiesTrue, UNCHANGED page, Forget, \A p \in Page : task[p] # "storing"
  PROVE  PagesTrue' /\ BodiesTrue'
  BY HeldFacts DEF PagesTrue, BodiesTrue, Forget

\* The write of p ends, or is under way, or its file is lost.
LEMMA PageWritten ==
  ASSUME SlotsDistinct, TypeInv, PagesTrue, NEW p \in Page, NEW f \in Held,
         page' = [page EXCEPT ![SlotOf[p]] = f],
         f \in {NoFile, Whole(p)} \/ (f = Cut(p) /\ task'[p] = "storing"),
         \A q \in Page \ {p} : task'[q] = task[q]
  PROVE  PagesTrue'
<1> SUFFICES ASSUME NEW q \in Page
             PROVE  \/ page'[SlotOf[q]] \in {NoFile, Whole(q)}
                    \/ page'[SlotOf[q]] = Cut(q) /\ task'[q] = "storing"
  BY DEF PagesTrue
<1>1. CASE q = p
  BY <1>1, HeldFacts DEF TypeInv, TypeOK
<1>2. CASE q # p
  <2>1. page'[SlotOf[q]] = page[SlotOf[q]]
    BY <1>2, HeldFacts DEF SlotsDistinct, TypeInv, TypeOK
  <2>2. QED
    BY <1>2, <2>1 DEF PagesTrue
<1>3. QED
  BY <1>1, <1>2

LEMMA StepPages ==
  ASSUME SlotsDistinct, TypeInv, Stage, PagesTrue, BodiesTrue, ~damaged', [Next]_vars
  PROVE  PagesTrue' /\ BodiesTrue'
<1> USE HeldFacts
<1>1. CASE UNCHANGED vars
  BY <1>1, PagesStay DEF vars, disk, memory, crawled
<1>2. CASE \E m \in Modes : Begin(m)
  BY <1>2, PagesStay DEF Begin, disk, crawled
<1>3. CASE PrimeHit \/ OpenMeta \/ Abort
  BY <1>3, PagesStay DEF PrimeHit, OpenMeta, Abort, disk, memory, crawled
<1>4. CASE PrimeDownload \/ StartCrawl
  BY <1>4, PagesStay DEF PrimeDownload, StartCrawl, Stage, disk, TypeInv, TypeOK
<1>5. CASE PrimeStored
  <2>1. PICK f : page' = [page EXCEPT ![SlotOf[Entry]] = f] /\ f = Whole(Entry)
    BY <1>5 DEF PrimeStored, Outcome
  <2>2. Entry \in Page /\ f \in Held /\ f \in {NoFile, Whole(Entry)}
    BY <2>1
  <2>3. \A q \in Page \ {Entry} : task'[q] = task[q]
    BY <1>5 DEF PrimeStored, TypeInv, TypeOK
  <2>4. PagesTrue'
    BY <2>1, <2>3, <2>2, PageWritten
  <2>5. BodiesTrue'
    BY <1>5 DEF PrimeStored, BodiesTrue, TypeInv, TypeOK
  <2>6. QED
    BY <2>4, <2>5
<1>6. CASE PrimeFails
  BY <1>6, PagesForget DEF PrimeFails, Stage, Page, disk
<1>7. CASE ReplayDone
  BY <1>7, PagesForget DEF ReplayDone, Return, Stage, Page, disk
<1>8. CASE CrawlEnds
  <2>1. CASE Return(FALSE)
    BY <1>8, <2>1, PagesForget DEF CrawlEnds, Return, disk
  <2>2. CASE UNCHANGED memory
    BY <1>8, <2>2, PagesStay DEF CrawlEnds, memory, crawled, disk
  <2>3. QED
    BY <1>8, <2>1, <2>2 DEF CrawlEnds
<1>9. CASE SaveSiteMetadata
  BY <1>9, PagesForget DEF SaveSiteMetadata, Return, Stage, Page
<1>10. ASSUME NEW s \in Script,
              Replay(s) \/ ProbeCached(s) \/ ProbeNetwork(s) \/ ProbeFails(s) \/ MapStored(s)
              \/ SourceStored(s)
       PROVE  PagesTrue' /\ BodiesTrue'
  <2>1. UNCHANGED <<page, body>>
    BY <1>10 DEF Replay, ProbeCached, ProbeNetwork, ProbeFails, MapStored, SourceStored, disk
  <2>2. task[s] # "storing" /\ task'[s] # "storing"
    BY <1>10 DEF Replay, ProbeCached, ProbeNetwork, ProbeFails, MapStored, SourceStored, Restore,
                 Stage, TypeInv, TypeOK
  <2>3. \A q \in Page \ {s} : task'[q] = task[q]
    BY <1>10 DEF Replay, ProbeCached, ProbeNetwork, ProbeFails, MapStored, SourceStored, Restore,
                 TypeInv, TypeOK
  <2>4. QED
    BY <2>1, <2>2, <2>3, PagesStay
<1>11. ASSUME NEW p \in Page, DownloadFails(p) PROVE PagesTrue' /\ BodiesTrue'
  BY <1>11, PagesStay DEF DownloadFails, disk, TypeInv, TypeOK
<1>12. ASSUME NEW p \in Page, Analyse(p) PROVE PagesTrue' /\ BodiesTrue'
  <2> DEFINE b == IF Cached(p) THEN page[SlotOf[p]] ELSE Whole(p)
             next == IF p = Entry THEN "done" ELSE IF Writable THEN "storing" ELSE "probing"
  <2>1. b = Whole(p)
    BY <1>12 DEF Analyse, Cached, PagesTrue
  <2>2. PICK found : task' = [q \in Page |->
                                IF q = p THEN next
                                ELSE IF q \in found /\ task[q] = "new" THEN "queued"
                                ELSE task[q]]
    BY <1>12 DEF Analyse
  <2>3. body' = IF next = "storing" THEN [body EXCEPT ![p] = b] ELSE body
    BY <1>12 DEF Analyse
  <2>4. task[p] = "queued" /\ UNCHANGED page
    BY <1>12 DEF Analyse, disk
  <2> HIDE DEF b, next
  <2>5. PagesTrue'
    BY <2>2, <2>4 DEF PagesTrue
  <2>6. BodiesTrue'
    <3> SUFFICES ASSUME NEW s \in Script, task'[s] = "storing" PROVE body'[s] = Whole(s)
      BY DEF BodiesTrue
    <3>1. CASE s = p
      BY <3>1, <2>1, <2>2, <2>3 DEF TypeInv, TypeOK
    <3>2. CASE s # p
      BY <3>2, <2>2, <2>3 DEF BodiesTrue, TypeInv, TypeOK
    <3>3. QED
      BY <3>1, <3>2
  <2>7. QED
    BY <2>5, <2>6
<1>13. ASSUME NEW s \in Script, Stored(s) PROVE PagesTrue' /\ BodiesTrue'
  <2>1. PICK f : page' = [page EXCEPT ![SlotOf[s]] = f] /\ f = Whole(s)
    BY <1>13 DEF Stored, Outcome, BodiesTrue
  <2>2. s \in Page /\ f \in Held /\ f \in {NoFile, Whole(s)}
    BY <2>1
  <2>3. \A q \in Page \ {s} : task'[q] = task[q]
    BY <1>13 DEF Stored, TypeInv, TypeOK
  <2>4. PagesTrue'
    BY <2>1, <2>3, <2>2, PageWritten
  <2>5. BodiesTrue'
    BY <1>13 DEF Stored, BodiesTrue, TypeInv, TypeOK
  <2>6. QED
    BY <2>4, <2>5
<1>14. CASE Tear
  <2>1. UNCHANGED <<task, body>>
    BY <1>14 DEF Tear, memory, crawled
  <2>2. CASE UNCHANGED page
    BY <2>1, <2>2, PagesStay
  <2>3. ASSUME NEW p \in Page, task[p] = "storing",
               LET new == IF p = Entry THEN Entry ELSE body[p].of IN
               page' = [page EXCEPT ![SlotOf[p]] = IF @ = NoFile THEN Cut(new) ELSE NoFile]
        PROVE  PagesTrue' /\ BodiesTrue'
    <3>1. (IF p = Entry THEN Entry ELSE body[p].of) = p
      BY <2>3, WholeFacts DEF BodiesTrue, Page
    <3>2. PICK f \in Held : /\ page' = [page EXCEPT ![SlotOf[p]] = f]
                             /\ f \in {Cut(p), NoFile}
      BY <2>3, <3>1 DEF TypeInv, TypeOK
    <3>3. PagesTrue'
      BY <2>1, <2>3, <3>2, PageWritten
    <3>4. QED
      BY <2>1, <3>3 DEF BodiesTrue
  <2>4. QED
    BY <1>14, <2>2, <2>3 DEF Tear
<1>15. CASE Crash
  <2>1. UNCHANGED page /\ Forget /\ ~SomeFileCut
    BY <1>15 DEF Crash, disk
  <2>2. \A p \in Page : page[SlotOf[p]] # Cut(p)
    BY <2>1, WholeFacts DEF SomeFileCut
  <2>3. QED
    BY <2>1, <2>2 DEF PagesTrue, BodiesTrue, Forget
<1>16. CASE Lose
  <2>1. UNCHANGED <<task, body>>
    BY <1>16 DEF Lose, memory, crawled
  <2>2. CASE UNCHANGED page
    BY <2>1, <2>2, PagesStay
  <2>3. ASSUME NEW k \in Slot, page' = [page EXCEPT ![k] = NoFile] PROVE PagesTrue' /\ BodiesTrue'
    BY <2>1, <2>3 DEF PagesTrue, BodiesTrue, TypeInv, TypeOK
  <2>4. QED
    BY <1>16, <2>2, <2>3 DEF Lose
<1>17. QED
  BY <1>1, <1>2, <1>3, <1>4, <1>5, <1>6, <1>7, <1>8, <1>9, <1>10, <1>11, <1>12, <1>13, <1>14,
     <1>15, <1>16 DEF Next

-----------------------------------------------------------------------------
LEMMA InitListed == Init => Sound /\ Complete /\ MetaTrue /\ ReplayTrue /\ ReportTrue
<1>1. NoFile \notin Meta /\ NoFile \notin Report
  BY CacheAssumption
<1>2. QED
  BY <1>1 DEF Init, Crawling, Sound, Complete, MetaTrue, ReplayTrue, ReportTrue

\* A step that takes up nothing new and ends no analysis, unless with a failure.
LEMMA ListedStays ==
  ASSUME TypeInv, Sound, Complete, Crawling' => Crawling, exact' => exact,
         \A p \in Page : task'[p] = "new" <=> task[p] = "new",
         exact' => \A p \in Page : task'[p] \notin {"new", "queued"} => task[p] \notin {"new", "queued"},
         listed \subseteq listed',
         \A s \in listed' : s \in listed \/ task'[s] # "new",
         \A s \in Script : task'[s] \notin {"new", "queued", "storing"} =>
           task[s] \notin {"new", "queued", "storing"} \/ s \in listed' \/ ~exact'
  PROVE  Sound' /\ Complete'
<1> USE HeldFacts
<1>1. Sound'
  BY DEF Sound, TypeInv, TypeOK
<1>2. ASSUME Crawling', exact', NEW p \in Page, task'[p] \notin {"new", "queued"}, NEW q \in Links[p]
      PROVE  task'[q] # "new"
  <2>1. q \in Page
    BY CacheAssumption DEF Page
  <2>2. QED
    BY <1>2, <2>1 DEF Complete
<1>3. ASSUME Crawling', exact', NEW s \in Script, task'[s] \notin {"new", "queued", "storing"}
      PROVE  s \in listed'
  BY <1>3 DEF Complete
<1>4. QED
  BY <1>1, <1>2, <1>3 DEF Complete

LEMMA StepListed ==
  ASSUME SlotsDistinct, TypeInv, BackInv, Stage, PagesTrue, Sound, Complete, ~damaged, [Next]_vars
  PROVE  Sound' /\ Complete'
<1> USE HeldFacts
<1>1. CASE ~Crawling'
  BY <1>1 DEF Sound, Complete
<1>2. CASE UNCHANGED vars
  BY <1>2, ListedStays DEF vars, memory, crawled, Crawling
<1>3. CASE (\E m \in Modes : Begin(m)) \/ PrimeHit \/ PrimeDownload \/ PrimeStored \/ OpenMeta
           \/ PrimeFails \/ ReplayDone \/ SaveSiteMetadata \/ Crash \/ Lose
  BY <1>1, <1>3 DEF Begin, PrimeHit, PrimeDownload, PrimeStored, OpenMeta, PrimeFails, ReplayDone,
                    SaveSiteMetadata, Crash, Lose, Return, Forget, Crawling
<1>4. CASE StartCrawl
  <2>1. listed' = {} /\ \A s \in Script : task'[s] = "new"
    BY <1>4 DEF StartCrawl, BackInv, Early, Stage, TypeInv, TypeOK
  <2>2. \A p \in Page : task'[p] \in {"new", "queued"}
    BY <1>4, <2>1 DEF StartCrawl, Page, TypeInv, TypeOK
  <2>3. QED
    BY <2>1, <2>2 DEF Sound, Complete
<1>5. ASSUME NEW s \in Script, Replay(s) PROVE Sound' /\ Complete'
  BY <1>1, <1>5 DEF Replay, Crawling
<1>6. ASSUME NEW p \in Page, DownloadFails(p) PROVE Sound' /\ Complete'
  BY <1>6, ListedStays DEF DownloadFails, Crawling, TypeInv, TypeOK
<1>7. ASSUME NEW p \in Page, Analyse(p) PROVE Sound' /\ Complete'
  <2> DEFINE b == IF Cached(p) THEN page[SlotOf[p]] ELSE Whole(p)
             next == IF p = Entry THEN "done" ELSE IF Writable THEN "storing" ELSE "probing"
  <2>1. b = Whole(p) /\ task[p] = "queued" /\ phase = "crawl" /\ exact' = exact
    BY <1>7 DEF Analyse, Cached, PagesTrue
  <2>2. Finds(b) = {Links[p]}
    BY <2>1, WholeFacts DEF Finds
  <2>3. \E found \in Finds(b) :
           task' = [q \in Page |->
                      IF q = p THEN next
                      ELSE IF q \in found /\ task[q] = "new" THEN "queued"
                      ELSE task[q]]
    BY <1>7 DEF Analyse
  <2>4. listed' = IF next = "probing" THEN listed \cup {p} ELSE listed
    BY <1>7 DEF Analyse
  <2>5. next \in {"done", "storing", "probing"}
    OBVIOUS
  <2>6. (next = "done" => p = Entry) /\ (p # Entry => p \in Script)
    BY DEF Page
  <2> HIDE DEF b, next
  <2>7. task' = [q \in Page |->
                   IF q = p THEN next
                   ELSE IF q \in Links[p] /\ task[q] = "new" THEN "queued"
                   ELSE task[q]]
    BY <2>2, <2>3
  <2>8. Links[p] \subseteq Script
    BY CacheAssumption
  <2>9. Links[p] \subseteq Reachable
    BY <2>1, <2>6, ReachFacts DEF Sound, Crawling
  <2>10. p \in Script => p \in Reachable
    BY <2>1 DEF Sound, Crawling
  <2>11. Sound'
    <3>1. ASSUME NEW s \in Script, task'[s] # "new" PROVE s \in Reachable
      BY <2>1, <2>7, <2>9, <2>10, <3>1 DEF Sound, Crawling
    <3>2. ASSUME NEW s \in listed' PROVE task'[s] # "new"
      <4>1. s \in Page
        BY <2>4 DEF TypeInv, TypeOK
      <4>2. s \in listed => task[s] # "new"
        BY <2>1 DEF Sound, Crawling
      <4>3. QED
        BY <2>4, <2>5, <2>7, <3>2, <4>1, <4>2
    <3>3. QED
      BY <3>1, <3>2 DEF Sound
  <2>12. Complete'
    <3>1. ASSUME exact', NEW q \in Page, task'[q] \notin {"new", "queued"}, NEW t \in Links[q]
          PROVE  task'[t] # "new"
      <4>1. t \in Page
        BY CacheAssumption DEF Page
      <4>2. CASE q = p
        BY <2>5, <2>7, <4>1, <4>2
      <4>3. CASE q # p
        <5>1. task[q] \notin {"new", "queued"}
          BY <2>7, <3>1, <4>3
        <5>2. task[t] # "new"
          BY <2>1, <3>1, <5>1 DEF Complete, Crawling
        <5>3. QED
          BY <2>5, <2>7, <4>1, <5>2
      <4>4. QED
        BY <4>2, <4>3
    <3>2. ASSUME exact', NEW s \in Script, task'[s] \notin {"new", "queued", "storing"}
          PROVE  s \in listed'
      BY <2>1, <2>4, <2>5, <2>6, <2>7, <3>2 DEF Complete, Crawling
    <3>3. QED
      BY <3>1, <3>2 DEF Complete
  <2>13. QED
    BY <2>11, <2>12
<1>8. ASSUME NEW s \in Script, Stored(s) PROVE Sound' /\ Complete'
  BY <1>8, ListedStays DEF Stored, Crawling, TypeInv, TypeOK
<1>9. ASSUME NEW s \in Script,
             ProbeCached(s) \/ ProbeNetwork(s) \/ ProbeFails(s) \/ MapStored(s)
      PROVE  Sound' /\ Complete'
  <2>1. Crawling /\ UNCHANGED listed /\ (exact' => exact)
    BY <1>9 DEF ProbeCached, ProbeNetwork, ProbeFails, MapStored, Crawling
  <2>2. /\ task[s] \in {"probing", "mapping"} /\ task'[s] \in {"mapping", "restoring", "done"}
        /\ \A q \in Page \ {s} : task'[q] = task[q]
    BY <1>9 DEF ProbeCached, ProbeNetwork, ProbeFails, MapStored, Restore, TypeInv, TypeOK
  <2>3. \A q \in Page : /\ task'[q] = "new" <=> task[q] = "new"
                        /\ task'[q] \notin {"new", "queued"} => task[q] \notin {"new", "queued"}
    BY <2>2
  <2>4. \A t \in Script : task'[t] \notin {"new", "queued", "storing"} =>
                            task[t] \notin {"new", "queued", "storing"}
    BY <2>2
  <2>5. QED
    BY <2>1, <2>3, <2>4, ListedStays
<1>10. ASSUME NEW s \in Script, SourceStored(s) PROVE Sound' /\ Complete'
  BY <1>10, ListedStays DEF SourceStored, Crawling, TypeInv, TypeOK
<1>11. CASE CrawlEnds
  <2>1. CASE Return(FALSE)
    BY <1>1, <2>1 DEF Return, Forget, Crawling
  <2>2. CASE UNCHANGED memory
    BY <1>11, <2>2, ListedStays DEF CrawlEnds, memory, crawled, Crawling
  <2>3. QED
    BY <1>11, <2>1, <2>2 DEF CrawlEnds
<1>12. CASE Abort
  BY <1>12, ListedStays DEF Abort, crawled, Crawling
<1>13. CASE Tear
  BY <1>13, ListedStays DEF Tear, memory, crawled, Crawling
<1>14. QED
  BY <1>2, <1>3, <1>4, <1>5, <1>6, <1>7, <1>8, <1>9, <1>10, <1>11, <1>12, <1>13 DEF Next

\* What a crawl has listed when it is through, and missed nothing.
LEMMA AllListed ==
  ASSUME TypeInv, Crawling, exact, Sound, Complete, task[Entry] # "new",
         \A p \in Page : task[p] \in {"new", "done"}
  PROVE  listed = Reachable
<1> USE HeldFacts
<1> DEFINE D == {s \in Script : task[s] = "done"}
<1>1. D \subseteq listed
  BY DEF Complete
<1>2. Closed(D)
  <2>1. ASSUME NEW p \in Page, task[p] = "done", NEW q \in Links[p] PROVE q \in D
    <3>1. q \in Script
      BY CacheAssumption
    <3>2. task[q] # "new"
      BY <2>1 DEF Complete
    <3>3. QED
      BY <3>1, <3>2
  <2>2. task[Entry] = "done"
    OBVIOUS
  <2>3. QED
    BY <2>1, <2>2 DEF Closed
<1>3. Reachable \subseteq D
  BY <1>2, ReachFacts
<1>4. listed \subseteq Reachable
  BY DEF Sound, TypeInv, TypeOK
<1>5. QED
  BY <1>1, <1>3, <1>4

-----------------------------------------------------------------------------
\* meta.json changes only when it is saved, torn or lost.
LEMMA MetaFrame ==
  ASSUME TypeInv, [Next]_vars
  PROVE  UNCHANGED meta \/ SaveSiteMetadata \/ (meta' \notin Meta /\ (phase = "save" \/ lost'))
<1> USE CacheAssumption DEF CutMeta, Cut, Meta
<1>1. CutMeta \notin Meta /\ NoFile \notin Meta
  OBVIOUS
<1>2. CASE Tear
  BY <1>1, <1>2 DEF Tear
<1>3. CASE Lose
  BY <1>1, <1>3 DEF Lose
<1>4. CASE ~Tear /\ ~Lose
  BY <1>4 DEF Next, vars, disk, Begin, PrimeHit, PrimeDownload, PrimeStored, PrimeFails, OpenMeta,
     StartCrawl, Replay, ReplayDone, Analyse, DownloadFails, Stored, ProbeCached, ProbeNetwork,
     ProbeFails, MapStored, SourceStored, CrawlEnds, Abort, Crash
<1>5. QED
  BY <1>2, <1>3, <1>4

\* A scan reports when its replay, its crawl or the save of its record ends.
LEMMA ResultFrame ==
  ASSUME [Next]_vars
  PROVE  UNCHANGED result \/ result' = NoFile \/ ReplayDone
           \/ (CrawlEnds /\ Return(FALSE)) \/ (SaveSiteMetadata /\ Return(FALSE))
  BY DEF Next, vars, Begin, PrimeHit, PrimeDownload, PrimeStored, PrimeFails, OpenMeta,
     StartCrawl, Replay, ReplayDone, Analyse, DownloadFails, Stored, ProbeCached, ProbeNetwork,
     ProbeFails, MapStored, SourceStored, CrawlEnds, SaveSiteMetadata, Abort, Tear, Crash, Lose

\* When the crawl is through, and when its record is saved, all is listed.
LEMMA ThroughListed ==
  ASSUME TypeInv, Stage, Sound, Complete, exact, ~aborted, CrawlEnds \/ SaveSiteMetadata
  PROVE  listed = Reachable
<1>1. Crawling /\ task[Entry] # "new"
  BY DEF CrawlEnds, SaveSiteMetadata, Stage, Crawling
<1>2. \A p \in Page : task[p] \in {"new", "done"}
  BY DEF CrawlEnds, SaveSiteMetadata, Stage, Page
<1>3. QED
  BY <1>1, <1>2, AllListed

LEMMA StepReported ==
  ASSUME TypeInv, BackInv, Stage, Sound, Complete, MetaTrue, ReplayTrue, ReportTrue,
         ~damaged', [Next]_vars
  PROVE  MetaTrue' /\ ReplayTrue' /\ ReportTrue'
<1>1. MetaTrue'
  <2>1. CASE UNCHANGED meta
    BY <2>1 DEF MetaTrue
  <2>2. CASE SaveSiteMetadata
    <3>1. meta' = Record
      BY <2>2 DEF SaveSiteMetadata, Outcome
    <3>2. Record.exact = (exact /\ ~aborted) /\ Record.listed = listed
      BY DEF Record
    <3>3. QED
      BY <2>2, <3>1, <3>2, ThroughListed DEF MetaTrue
  <2>3. CASE meta' \notin Meta
    BY <2>3 DEF MetaTrue
  <2>4. QED
    BY <2>1, <2>2, <2>3, MetaFrame
<1>2. ReplayTrue'
  <2>1. CASE OpenMeta
    BY <2>1 DEF OpenMeta, ReplayTrue, BackInv, Early, Readable, disk
  <2>2. ASSUME NEW s \in Script, Replay(s) PROVE ReplayTrue'
    BY <2>2 DEF Replay, ReplayTrue, Readable, disk
  <2>3. ASSUME NEW s \in Script, SourceStored(s) PROVE ReplayTrue'
    BY <2>3 DEF SourceStored, ReplayTrue, Readable
  <2>4. CASE Tear
    <3>1. phase = "replay" => UNCHANGED meta
      BY <2>4 DEF Tear
    <3>2. QED
      BY <2>4, <3>1 DEF Tear, memory, crawled, ReplayTrue, Readable
  <2>5. CASE UNCHANGED vars
    BY <2>5 DEF vars, disk, memory, crawled, ReplayTrue, Readable
  <2>6. CASE phase' # "replay"
    BY <2>6 DEF ReplayTrue
  <2>7. QED
    BY <2>1, <2>2, <2>3, <2>4, <2>5, <2>6
    DEF Next, Begin, PrimeHit, PrimeDownload, PrimeStored, PrimeFails, StartCrawl, ReplayDone,
        Analyse, DownloadFails, Stored, ProbeCached, ProbeNetwork, ProbeFails, MapStored, CrawlEnds,
        SaveSiteMetadata, Abort, Crash, Lose, Return, Forget
<1>3. ReportTrue'
  <2>1. CASE UNCHANGED result \/ result' = NoFile
    BY <2>1, CacheAssumption DEF ReportTrue
  <2>2. CASE ReplayDone
    <3>1. result'.exact = (exact /\ ~aborted) /\ result'.listed = listed
      BY <2>2 DEF ReplayDone, Return
    <3>2. exact = meta.exact /\ meta \in Meta /\ listed = meta.listed
      BY <2>2 DEF ReplayDone, ReplayTrue, TypeInv, Replaying
    <3>3. QED
      BY <3>1, <3>2 DEF ReportTrue, MetaTrue
  <2>3. CASE (CrawlEnds \/ SaveSiteMetadata) /\ Return(FALSE)
    <3>1. result'.exact = (exact /\ ~aborted) /\ result'.listed = listed
      BY <2>3 DEF Return
    <3>2. QED
      BY <2>3, <3>1, ThroughListed DEF ReportTrue
  <2>4. QED
    BY <2>1, <2>2, <2>3, ResultFrame
<1>4. QED
  BY <1>1, <1>2, <1>3

LEMMA InitLists == Init => ListInv
  BY InitStage, InitPages, InitListed DEF ListInv

LEMMA StepLists ==
  ASSUME SlotsDistinct
  PROVE  TypeInv /\ BackInv /\ ListInv /\ [Next]_vars => ListInv'
<1> SUFFICES ASSUME TypeInv, BackInv, ListInv, [Next]_vars PROVE ListInv'
  OBVIOUS
<1>1. Stage'
  BY StepStage DEF ListInv
<1>2. ASSUME ~damaged' PROVE PagesTrue' /\ BodiesTrue' /\ Sound' /\ Complete'
  BY <1>2, HistoryGrows, StepPages, StepListed DEF ListInv
<1>3. ASSUME ~damaged' PROVE MetaTrue' /\ ReplayTrue' /\ ReportTrue'
  BY <1>3, HistoryGrows, StepReported DEF ListInv
<1>4. QED
  BY <1>1, <1>2, <1>3 DEF ListInv

\* The invariant as a whole, with those of SiteCache_proofs.
LEMMA ListsHold ==
  ASSUME SlotsDistinct
  PROVE  Spec => [](TypeInv /\ BackInv /\ ListInv)
<1>1. Init => TypeInv /\ BackInv /\ ListInv
  BY InitTypes, InitBack, InitLists
<1>2. TypeInv /\ BackInv /\ ListInv /\ [Next]_vars => (TypeInv /\ BackInv /\ ListInv)'
  BY StepTypes, StepBack, StepLists
<1>3. QED
  BY <1>1, <1>2, PTL DEF Spec

\* For any site without two pages of one slot, any store options and any
\* history of scans, crashes, failures and deleted files: unless a file was cut
\* short, a scan that missed nothing lists exactly the scripts that can be
\* reached from the entry page, whatever it found in the cache.
THEOREM CacheOnlySavesTime ==
  ASSUME SlotsDistinct
  PROVE  Spec => []WarmAsCold
<1>1. ListInv => WarmAsCold
  BY DEF ListInv, ReportTrue, WarmAsCold
<1>2. QED
  BY <1>1, ListsHold, PTL

-----------------------------------------------------------------------------
LEMMA MapsFacts == \A s \in Maps : s \in Script /\ s \in Page
  BY CacheAssumption, HeldFacts

LEMMA InitFiles == Init => FilesTrue
  BY HeldFacts, MapsFacts DEF Init, Nothing, FilesTrue, MapsTrue, SourcesTrue, FromMaps

\* A step that writes no map and no source and neither starts nor ends a write.
LEMMA FilesStay ==
  ASSUME FilesTrue, UNCHANGED <<mapFile, source>>,
         \A s \in Script : Busy(s) => task'[s] = task[s],
         \A s \in Script : Busy(s)' => task'[s] = task[s] /\ UNCHANGED mode
  PROVE  FilesTrue'
<1>1. MapsTrue'
  BY DEF FilesTrue, MapsTrue, Busy
<1>2. SourcesTrue'
  BY MapsFacts DEF FilesTrue, SourcesTrue, Busy
<1>3. FromMaps'
  BY DEF FilesTrue, FromMaps, Busy, Writable
<1>4. QED
  BY <1>1, <1>2, <1>3 DEF FilesTrue

\* The sources of s begin to be written, from a map that is intact.
LEMMA FilesRestore ==
  ASSUME TypeInv, FilesTrue, NEW s \in Script, Restore(s), UNCHANGED <<mapFile, source, mode>>,
         s \in Maps, s \notin Foreign => mapFile[s] = Whole(s), ~Busy(s)
  PROVE  FilesTrue'
<1>1. \A t \in Script \ {s} : task'[t] = task[t]
  BY HeldFacts DEF Restore, TypeInv, TypeOK
<1>2. task'[s] \in {"restoring", "done"} /\ (task'[s] = "restoring" => Writable)
  BY HeldFacts DEF Restore, TypeInv, TypeOK
<1>3. MapsTrue'
  BY <1>1, <1>2 DEF FilesTrue, MapsTrue, Busy
<1>4. SourcesTrue'
  BY <1>1, <1>2, MapsFacts DEF FilesTrue, SourcesTrue, Busy
<1>5. FromMaps'
  BY <1>1, <1>2 DEF FilesTrue, FromMaps, Busy, Writable
<1>6. QED
  BY <1>3, <1>4, <1>5 DEF FilesTrue

\* A scan ends that writes neither a map nor a source.
LEMMA FilesForget ==
  ASSUME FilesTrue, UNCHANGED <<mapFile, source>>, Forget, \A s \in Script : ~Busy(s)
  PROVE  FilesTrue'
  BY HeldFacts, MapsFacts DEF FilesTrue, MapsTrue, SourcesTrue, FromMaps, Forget, Busy

\* The file of the source of s is written, torn or lost, and no other.
LEMMA SourceWritten ==
  ASSUME PathsDistinct, TypeInv, SourcesTrue, NEW s \in Maps, NEW f \in Held,
         source' = [source EXCEPT ![PathOf[s]] = f],
         f \in {NoFile, Whole(s)} \/ (f = Cut(s) /\ task'[s] = "restoring"),
         \A t \in Script \ {s} : task'[t] = task[t]
  PROVE  SourcesTrue'
<1> USE HeldFacts, MapsFacts
<1> SUFFICES ASSUME NEW t \in Maps
             PROVE  \/ source'[PathOf[t]] \in {NoFile, Whole(t)}
                    \/ source'[PathOf[t]] = Cut(t) /\ task'[t] = "restoring"
  BY DEF SourcesTrue
<1>1. CASE t = s
  BY <1>1 DEF TypeInv, TypeOK
<1>2. CASE t # s
  <2>1. source'[PathOf[t]] = source[PathOf[t]]
    BY <1>2 DEF PathsDistinct, TypeInv, TypeOK
  <2>2. QED
    BY <1>2, <2>1 DEF SourcesTrue
<1>3. QED
  BY <1>1, <1>2

LEMMA MapStoredFiles ==
  ASSUME TypeInv, FilesTrue, NEW s \in Script, MapStored(s), ~damaged'
  PROVE  FilesTrue'
<1> USE HeldFacts, MapsFacts
<1>1. /\ task[s] = "mapping" /\ s \in Maps /\ Writable /\ UNCHANGED <<source, mode>>
      /\ task' = [task EXCEPT ![s] = "restoring"]
  BY DEF MapStored, Restore, FilesTrue, FromMaps
<1>2. mapFile' = IF s \in Foreign THEN mapFile ELSE [mapFile EXCEPT ![s] = Whole(s)]
  BY DEF MapStored, Outcome
<1>3. \A t \in Script : t # s => task'[t] = task[t] /\ mapFile'[t] = mapFile[t]
  BY <1>1, <1>2 DEF TypeInv, TypeOK
<1>4. task'[s] = "restoring"
  BY <1>1 DEF TypeInv, TypeOK
<1>5. mapFile'[s] = IF s \in Foreign THEN NoFile ELSE Whole(s)
  BY <1>2 DEF FilesTrue, MapsTrue, TypeInv, TypeOK
<1>6. MapsTrue'
  BY <1>1, <1>3, <1>5, WholeFacts DEF FilesTrue, MapsTrue
<1>7. SourcesTrue'
  BY <1>1, <1>3, <1>4 DEF FilesTrue, SourcesTrue
<1>8. FromMaps'
  BY <1>1, <1>3, <1>4, <1>5 DEF FilesTrue, FromMaps, Writable
<1>9. QED
  BY <1>6, <1>7, <1>8 DEF FilesTrue

LEMMA SourceStoredFiles ==
  ASSUME PathsDistinct, TypeInv, FilesTrue, NEW s \in Script, SourceStored(s), ~damaged'
  PROVE  FilesTrue'
<1> USE HeldFacts, MapsFacts
<1>1. task[s] = "restoring" /\ s \in Maps /\ UNCHANGED <<mapFile, mode>>
  BY DEF SourceStored, FilesTrue, FromMaps
<1>2. /\ task'[s] = "done"
      /\ \A t \in Script \ {s} : task'[t] = task[t]
  BY DEF SourceStored, TypeInv, TypeOK
<1>3. PICK f \in Held : source' = [source EXCEPT ![PathOf[s]] = f] /\ f = Whole(s)
  BY DEF SourceStored, Outcome
<1>4. SourcesTrue'
  BY <1>1, <1>2, <1>3, SourceWritten DEF FilesTrue
<1>5. MapsTrue' /\ FromMaps'
  BY <1>1, <1>2 DEF FilesTrue, MapsTrue, FromMaps, Writable
<1>6. QED
  BY <1>4, <1>5 DEF FilesTrue

LEMMA TearFiles ==
  ASSUME PathsDistinct, TypeInv, FilesTrue, Tear
  PROVE  FilesTrue'
<1> USE HeldFacts, MapsFacts
<1>1. UNCHANGED <<task, mode>>
  BY DEF Tear, memory, crawled
<1>2. CASE UNCHANGED <<mapFile, source>>
  BY <1>1, <1>2, FilesStay DEF Busy
<1>3. ASSUME NEW s \in Script \ Foreign, task[s] = "mapping", UNCHANGED source,
             mapFile' = [mapFile EXCEPT ![s] = IF @ = NoFile THEN Cut(s) ELSE NoFile]
      PROVE  FilesTrue'
  <2>1. s \in Maps
    BY <1>3 DEF FilesTrue, FromMaps
  <2>2. \A t \in Script : t # s => mapFile'[t] = mapFile[t]
    BY <1>3 DEF TypeInv, TypeOK
  <2>3. mapFile'[s] \in {NoFile, Cut(s)}
    BY <1>3 DEF TypeInv, TypeOK
  <2>4. MapsTrue'
    BY <1>1, <1>3, <2>1, <2>2, <2>3 DEF FilesTrue, MapsTrue
  <2>5. SourcesTrue' /\ FromMaps'
    BY <1>1, <1>3, <2>2 DEF FilesTrue, SourcesTrue, FromMaps, Writable
  <2>6. QED
    BY <2>4, <2>5 DEF FilesTrue
<1>4. ASSUME NEW s \in Restoring, UNCHANGED mapFile,
             source' = [source EXCEPT ![PathOf[s]] = IF @ = NoFile THEN Cut(s) ELSE NoFile]
      PROVE  FilesTrue'
  <2>1. s \in Script /\ s \in Maps /\ task'[s] = "restoring"
    BY <1>1 DEF Restoring, FilesTrue, FromMaps
  <2>2. PICK f \in Held : source' = [source EXCEPT ![PathOf[s]] = f] /\ f \in {NoFile, Cut(s)}
    BY <1>4, <2>1 DEF TypeInv, TypeOK
  <2>3. SourcesTrue'
    BY <1>1, <2>1, <2>2, SourceWritten DEF FilesTrue
  <2>4. MapsTrue' /\ FromMaps'
    BY <1>1, <1>4 DEF FilesTrue, MapsTrue, FromMaps, Writable
  <2>5. QED
    BY <2>3, <2>4 DEF FilesTrue
<1>5. QED
  BY <1>2, <1>3, <1>4 DEF Tear

LEMMA LoseFiles ==
  ASSUME TypeInv, Stage, FilesTrue, Lose
  PROVE  FilesTrue'
<1> USE HeldFacts, MapsFacts
<1>1. UNCHANGED <<task, mode>> /\ \A s \in Script : task[s] = "new"
  BY DEF Lose, memory, crawled, Stage
<1>2. FromMaps'
  BY <1>1 DEF FromMaps
<1>3. MapsTrue'
  <2>1. CASE UNCHANGED mapFile
    BY <1>1, <2>1 DEF FilesTrue, MapsTrue
  <2>2. ASSUME NEW s \in Script, mapFile' = [mapFile EXCEPT ![s] = NoFile] PROVE MapsTrue'
    BY <1>1, <2>2 DEF FilesTrue, MapsTrue, TypeInv, TypeOK
  <2>3. QED
    BY <2>1, <2>2 DEF Lose
<1>4. SourcesTrue'
  <2>1. CASE UNCHANGED source
    BY <1>1, <2>1 DEF FilesTrue, SourcesTrue
  <2>2. ASSUME NEW x \in Path, source' = [source EXCEPT ![x] = NoFile] PROVE SourcesTrue'
    BY <1>1, <2>2 DEF FilesTrue, SourcesTrue, TypeInv, TypeOK
  <2>3. QED
    BY <2>1, <2>2 DEF Lose
<1>5. QED
  BY <1>2, <1>3, <1>4 DEF FilesTrue

LEMMA CrashFiles ==
  ASSUME TypeInv, FilesTrue, Crash, ~damaged'
  PROVE  FilesTrue'
<1> USE HeldFacts, MapsFacts
<1>1. UNCHANGED <<mapFile, source>> /\ Forget /\ ~SomeFileCut
  BY DEF Crash, disk
<1>2. \A s \in Script : mapFile[s] # Cut(s) /\ source[PathOf[s]] # Cut(s)
  BY <1>1, WholeFacts DEF SomeFileCut
<1>3. QED
  BY <1>1, <1>2 DEF FilesTrue, MapsTrue, SourcesTrue, FromMaps, Forget

LEMMA StepFiles ==
  ASSUME PathsDistinct, TypeInv, Stage, FilesTrue, ~damaged', [Next]_vars
  PROVE  FilesTrue'
<1> USE HeldFacts, MapsFacts DEF Busy
<1>1. CASE UNCHANGED vars
  BY <1>1, FilesStay DEF vars, disk, memory, crawled
<1>2. ASSUME NEW m \in Modes, Begin(m) PROVE FilesTrue'
  BY <1>2, FilesStay DEF Begin, Stage, disk, crawled
<1>3. CASE PrimeHit \/ OpenMeta \/ Abort
  BY <1>3, FilesStay DEF PrimeHit, OpenMeta, Abort, disk, memory, crawled
<1>4. CASE PrimeDownload \/ PrimeStored \/ StartCrawl
  BY <1>4, FilesStay DEF PrimeDownload, PrimeStored, StartCrawl, disk, TypeInv, TypeOK
<1>5. CASE PrimeFails
  BY <1>5, FilesForget DEF PrimeFails, Stage, disk
<1>6. CASE ReplayDone
  BY <1>6, FilesForget DEF ReplayDone, Restoring, Return, Stage, disk
<1>7. CASE SaveSiteMetadata
  BY <1>7, FilesForget DEF SaveSiteMetadata, Return, Stage
<1>8. CASE CrawlEnds
  <2>1. CASE Return(FALSE)
    BY <1>8, <2>1, FilesForget DEF CrawlEnds, Return, disk
  <2>2. CASE UNCHANGED memory
    BY <1>8, <2>2, FilesStay DEF CrawlEnds, memory, crawled, disk
  <2>3. QED
    BY <1>8, <2>1, <2>2 DEF CrawlEnds
<1>9. ASSUME NEW s \in Script, Replay(s) PROVE FilesTrue'
  <2>1. UNCHANGED <<mapFile, source, mode>> /\ phase = "replay" /\ Restoring = {}
    BY <1>9 DEF Replay, disk
  <2>2. CASE UNCHANGED task
    BY <2>1, <2>2, FilesStay
  <2>3. CASE Restore(s) /\ MapReadable(s) /\ mapFile[s].whole
    <3>1. mapFile[s] # NoFile /\ mapFile[s].whole
      BY <2>3 DEF MapReadable
    <3>2. s \in Maps /\ mapFile[s] = Whole(s)
      BY <3>1, WholeFacts DEF FilesTrue, MapsTrue
    <3>3. ~Busy(s)
      BY <2>1 DEF Stage, Restoring
    <3>4. QED
      BY <2>1, <2>3, <3>2, <3>3, FilesRestore
  <2>4. QED
    BY <1>9, <2>2, <2>3 DEF Replay
<1>10. ASSUME NEW p \in Page, Analyse(p) PROVE FilesTrue'
  BY <1>10, FilesStay DEF Analyse, disk, TypeInv, TypeOK
<1>11. ASSUME NEW p \in Page, DownloadFails(p) PROVE FilesTrue'
  BY <1>11, FilesStay DEF DownloadFails, disk, TypeInv, TypeOK
<1>12. ASSUME NEW s \in Script, Stored(s) PROVE FilesTrue'
  BY <1>12, FilesStay DEF Stored, TypeInv, TypeOK
<1>13. ASSUME NEW s \in Script, ProbeCached(s) PROVE FilesTrue'
  <2>1. UNCHANGED <<mapFile, source, mode>> /\ task[s] = "probing" /\ mapFile[s] # NoFile
    BY <1>13 DEF ProbeCached, MapReadable, disk
  <2>2. s \in Maps /\ mapFile[s] = Whole(s)
    BY <2>1 DEF FilesTrue, MapsTrue
  <2>3. Restore(s)
    BY <1>13, <2>2, WholeFacts DEF ProbeCached
  <2>4. QED
    BY <2>1, <2>2, <2>3, FilesRestore
<1>14. ASSUME NEW s \in Script, ProbeNetwork(s) PROVE FilesTrue'
  <2>1. /\ UNCHANGED <<mapFile, source, mode>> /\ task[s] = "probing"
        /\ s \in Maps
    BY <1>14 DEF ProbeNetwork, disk
  <2>2. CASE Writable
    <3>1. task' = [task EXCEPT ![s] = "mapping"]
      BY <1>14, <2>2 DEF ProbeNetwork
    <3>2. task'[s] = "mapping" /\ \A t \in Script : t # s => task'[t] = task[t]
      BY <3>1 DEF TypeInv, TypeOK
    <3>3. QED
      BY <2>1, <2>2, <3>2 DEF FilesTrue, MapsTrue, SourcesTrue, FromMaps, Writable
  <2>3. CASE ~Writable
    <3>1. task' = [task EXCEPT ![s] = "done"]
      BY <1>14, <2>3 DEF ProbeNetwork, Restore
    <3>2. QED
      BY <2>1, <3>1, FilesStay DEF TypeInv, TypeOK
  <2>4. QED
    BY <2>2, <2>3
<1>15. ASSUME NEW s \in Script, ProbeFails(s) PROVE FilesTrue'
  BY <1>15, FilesStay DEF ProbeFails, disk, TypeInv, TypeOK
<1>16. QED
  BY <1>1, <1>2, <1>3, <1>4, <1>5, <1>6, <1>7, <1>8, <1>9, <1>10, <1>11, <1>12, <1>13, <1>14,
     <1>15, MapStoredFiles, SourceStoredFiles, TearFiles, LoseFiles, CrashFiles DEF Next

-----------------------------------------------------------------------------
\* What CrawlSources says of one script.
CrawlAt(s) ==
  /\ restored[s] # NoFile => restored[s] = Whole(s) /\ s \in Maps /\ task[s] = "done"
  /\ exact /\ s \in Maps /\ task[s] = "done" => restored[s] = Whole(s)
  /\ restored[s] # NoFile /\ s \notin Foreign /\ Writable => BothWhole(s)

LEMMA CrawlSplit ==
  ASSUME mapped' \subseteq Maps, \A s \in Script : CrawlAt(s)', phase' \in {"crawl", "save"}
  PROVE  CrawlSources'
  BY DEF CrawlSources, CrawlAt

LEMMA CrawlParts ==
  ASSUME CrawlSources, Crawling
  PROVE  mapped \subseteq Maps /\ \A s \in Script : CrawlAt(s)
  BY DEF CrawlSources, CrawlAt

\* A script a step of the crawl does not finish keeps what was reported of it.
LEMMA CrawlKeeps ==
  ASSUME NEW s \in Script, CrawlAt(s), UNCHANGED mode, restored'[s] = restored[s],
         BothWhole(s) /\ task[s] = "done" => BothWhole(s)',
         exact' => exact,
         task[s] = "done" => task'[s] = "done",
         task'[s] = "done" => task[s] = "done" \/ s \notin Maps \/ ~exact'
  PROVE  CrawlAt(s)'
  BY DEF CrawlAt, Writable

\* The files of a script that is done are not touched.
LEMMA DoneFiles ==
  ASSUME PathsDistinct, TypeInv, Stage, FilesTrue, [Next]_vars, Crawling,
         NEW s \in Maps, task[s] = "done"
  PROVE  mapFile'[s] = mapFile[s] /\ source'[PathOf[s]] = source[PathOf[s]]
<1> USE HeldFacts, MapsFacts
<1>1. CASE \E t \in Script : MapStored(t)
  BY <1>1 DEF MapStored, TypeInv, TypeOK
<1>2. ASSUME NEW t \in Script, SourceStored(t)
      PROVE  mapFile'[s] = mapFile[s] /\ source'[PathOf[s]] = source[PathOf[s]]
  <2>1. t \in Maps /\ t # s
    BY <1>2 DEF SourceStored, FilesTrue, FromMaps
  <2>2. PathOf[t] # PathOf[s]
    BY <2>1 DEF PathsDistinct
  <2>3. QED
    BY <1>2, <2>2 DEF SourceStored, TypeInv, TypeOK
<1>3. CASE Tear
  <2>1. ASSUME NEW t \in Restoring, NEW f, source' = [source EXCEPT ![PathOf[t]] = f]
        PROVE  source'[PathOf[s]] = source[PathOf[s]]
    <3>1. t \in Maps /\ t # s
      BY <2>1 DEF Restoring, FilesTrue, FromMaps
    <3>2. PathOf[t] # PathOf[s]
      BY <3>1 DEF PathsDistinct
    <3>3. QED
      BY <2>1, <3>2 DEF TypeInv, TypeOK
  <2>2. source'[PathOf[s]] = source[PathOf[s]]
    BY <1>3, <2>1 DEF Tear
  <2>3. mapFile'[s] = mapFile[s]
    BY <1>3 DEF Tear, TypeInv, TypeOK
  <2>4. QED
    BY <2>2, <2>3
<1>4. CASE ~Tear /\ \A t \in Script : ~MapStored(t) /\ ~SourceStored(t)
  <2>1. ~Lose
    BY DEF Lose, Crawling
  <2>2. UNCHANGED <<mapFile, source>>
    BY <1>4, <2>1 DEF Next, vars, disk, Begin, PrimeHit, PrimeDownload, PrimeStored, PrimeFails,
       OpenMeta, StartCrawl, Replay, ReplayDone, Analyse, DownloadFails, Stored, ProbeCached,
       ProbeNetwork, ProbeFails, CrawlEnds, SaveSiteMetadata, Abort, Crash
  <2>3. QED
    BY <2>2
<1>5. QED
  BY <1>1, <1>2, <1>3, <1>4

LEMMA StepCrawlSources ==
  ASSUME PathsDistinct, TypeInv, BackInv, Stage, FilesTrue, CrawlSources, ~damaged', [Next]_vars
  PROVE  CrawlSources'
<1> USE HeldFacts, MapsFacts
<1>1. ASSUME Crawling, NEW s \in Script, BothWhole(s), task[s] = "done", s \in Maps
      PROVE  BothWhole(s)'
  BY <1>1, DoneFiles DEF BothWhole
<1>2. ASSUME Crawling, UNCHANGED <<mode, restored>>, exact' => exact, mapped' = mapped,
             \A s \in Script : task[s] = "done" => task'[s] = "done",
             \A s \in Script : task'[s] = "done" => task[s] = "done" \/ s \notin Maps \/ ~exact',
             phase' \in {"crawl", "save"}
      PROVE  CrawlSources'
  <2>1. ASSUME NEW s \in Script PROVE CrawlAt(s)'
    <3>1. CrawlAt(s)
      BY <1>2, CrawlParts
    <3>2. CASE s \in Maps
      BY <1>1, <1>2, <3>1, <3>2, CrawlKeeps
    <3>3. CASE s \notin Maps
      BY <1>2, <3>1, <3>3 DEF CrawlAt
    <3>4. QED
      BY <3>2, <3>3
  <2>2. QED
    BY <1>2, <2>1, CrawlParts, CrawlSplit
<1>3. CASE UNCHANGED vars
  BY <1>3 DEF vars, disk, memory, crawled, CrawlSources, Crawling, BothWhole, Writable
<1>4. CASE (\E m \in Modes : Begin(m)) \/ PrimeHit \/ PrimeDownload \/ PrimeStored \/ OpenMeta
           \/ Lose
  BY <1>4 DEF Begin, PrimeHit, PrimeDownload, PrimeStored, OpenMeta, Lose, memory, crawled,
              CrawlSources, Crawling
<1>5. CASE Forget
  BY <1>5 DEF Forget, CrawlSources, Crawling
<1>6. CASE StartCrawl
  <2>1. /\ restored' = Nothing /\ mapped' = {} /\ phase' = "crawl"
        /\ \A s \in Script : task'[s] = "new"
    BY <1>6 DEF StartCrawl, BackInv, Early, Stage, CrawlSources, TypeInv, TypeOK
  <2>2. \A s \in Script : restored'[s] = NoFile
    BY <2>1 DEF Nothing
  <2>3. QED
    BY <2>1, <2>2 DEF CrawlSources
<1>7. ASSUME NEW s \in Script, Replay(s) PROVE CrawlSources'
  BY <1>7 DEF Replay, CrawlSources, Crawling
<1>8. ASSUME NEW p \in Page, Analyse(p) PROVE CrawlSources'
  <2>1. \A s \in Script : task'[s] = "done" <=> task[s] = "done"
    BY <1>8 DEF Analyse, TypeInv, TypeOK
  <2>2. QED
    BY <1>2, <1>8, <2>1 DEF Analyse, Crawling
<1>9. ASSUME NEW p \in Page, DownloadFails(p) PROVE CrawlSources'
  BY <1>2, <1>9 DEF DownloadFails, Crawling, TypeInv, TypeOK
<1>10. ASSUME NEW s \in Script, Stored(s) PROVE CrawlSources'
  BY <1>2, <1>10 DEF Stored, Crawling, TypeInv, TypeOK
<1>11. ASSUME NEW s \in Script, ProbeFails(s) PROVE CrawlSources'
  BY <1>2, <1>11 DEF ProbeFails, Crawling, TypeInv, TypeOK
<1>12. ASSUME NEW s \in Script, ProbeCached(s) \/ ProbeNetwork(s) \/ MapStored(s)
       PROVE  CrawlSources'
  <2>1. /\ Crawling /\ phase' = "crawl" /\ UNCHANGED <<mode, exact>>
        /\ mapped' \subseteq mapped \cup {s} /\ task[s] \in {"probing", "mapping"}
    BY <1>12 DEF ProbeCached, ProbeNetwork, MapStored, Crawling
  <2>2. s \in Maps
    BY <1>12 DEF ProbeCached, ProbeNetwork, MapStored, MapReadable, FilesTrue, MapsTrue, FromMaps
  <2>3. \A t \in Script : t # s => task'[t] = task[t] /\ restored'[t] = restored[t]
    BY <1>12 DEF ProbeCached, ProbeNetwork, MapStored, Restore, TypeInv, TypeOK
  <2>4. \/ task'[s] \in {"mapping", "restoring"} /\ restored'[s] = restored[s]
        \/ task'[s] = "done" /\ restored'[s] = Whole(s) /\ ~Writable
    <3>1. ProbeCached(s) => Restore(s)
      BY WholeFacts DEF ProbeCached, MapReadable, FilesTrue, MapsTrue
    <3>2. CASE Restore(s)
      BY <3>2 DEF Restore, TypeInv, TypeOK
    <3>3. CASE ProbeNetwork(s) /\ Writable
      BY <3>3 DEF ProbeNetwork, TypeInv, TypeOK
    <3>4. QED
      BY <1>12, <3>1, <3>2, <3>3 DEF ProbeNetwork, MapStored
  <2>5. restored[s] = NoFile
    BY <2>1, CrawlParts DEF CrawlAt
  <2>6. CrawlAt(s)'
    BY <2>1, <2>2, <2>4, <2>5 DEF CrawlAt, Writable
  <2>7. ASSUME NEW t \in Script, t # s PROVE CrawlAt(t)'
    <3>1. CrawlAt(t)
      BY <2>1, CrawlParts
    <3>2. CASE t \in Maps
      BY <1>1, <2>1, <2>3, <2>7, <3>1, <3>2, CrawlKeeps
    <3>3. CASE t \notin Maps
      BY <2>3, <2>7, <3>1, <3>3 DEF CrawlAt
    <3>4. QED
      BY <3>2, <3>3
  <2>8. mapped' \subseteq Maps
    BY <2>1, <2>2, CrawlParts
  <2>9. \A t \in Script : CrawlAt(t)'
    BY <2>6, <2>7
  <2>10. QED
    BY <2>1, <2>8, <2>9, CrawlSplit
<1>13. ASSUME NEW s \in Script, SourceStored(s) PROVE CrawlSources'
  <2>1. CASE phase = "replay"
    BY <1>13, <2>1 DEF SourceStored, CrawlSources, Crawling
  <2>2. CASE phase = "crawl"
    <3>1. /\ Crawling /\ phase' = "crawl" /\ UNCHANGED <<mode, exact, mapped, mapFile>>
          /\ task[s] = "restoring"
      BY <1>13, <2>2 DEF SourceStored, Crawling
    <3>2. s \in Maps /\ (s \notin Foreign => mapFile[s] = Whole(s))
      BY <3>1 DEF FilesTrue, FromMaps
    <3>3. \A t \in Script : t # s => task'[t] = task[t] /\ restored'[t] = restored[t]
      BY <1>13 DEF SourceStored, TypeInv, TypeOK
    <3>4. task'[s] = "done" /\ restored'[s] = Whole(s) /\ source'[PathOf[s]] = Whole(s)
      BY <1>13 DEF SourceStored, Outcome, TypeInv, TypeOK
    <3>5. CrawlAt(s)'
      BY <3>1, <3>2, <3>4 DEF CrawlAt, BothWhole
    <3>6. ASSUME NEW t \in Script, t # s PROVE CrawlAt(t)'
      <4>1. CrawlAt(t)
        BY <3>1, CrawlParts
      <4>2. CASE t \in Maps
        BY <1>1, <3>1, <3>3, <3>6, <4>1, <4>2, CrawlKeeps
      <4>3. CASE t \notin Maps
        BY <3>1, <3>3, <3>6, <4>1, <4>3 DEF CrawlAt
      <4>4. QED
        BY <4>2, <4>3
    <3>7. \A t \in Script : CrawlAt(t)'
      BY <3>5, <3>6
    <3>8. QED
      BY <3>1, <3>7, CrawlParts, CrawlSplit
  <2>3. QED
    BY <1>13, <2>1, <2>2 DEF SourceStored
<1>14. CASE CrawlEnds
  <2>1. CASE Return(FALSE)
    BY <1>5, <2>1 DEF Return
  <2>2. CASE phase' = "save" /\ UNCHANGED memory
    BY <1>2, <1>14, <2>2 DEF CrawlEnds, memory, crawled, Crawling
  <2>3. QED
    BY <1>14, <2>1, <2>2 DEF CrawlEnds
<1>15. CASE Abort
  <2>1. CASE phase = "crawl"
    BY <1>2, <1>15, <2>1 DEF Abort, crawled, Crawling
  <2>2. CASE phase = "prime"
    BY <1>15, <2>2 DEF Abort, crawled, CrawlSources, Crawling
  <2>3. QED
    BY <1>15, <2>1, <2>2 DEF Abort
<1>16. CASE Tear
  <2>1. CASE Crawling
    BY <1>2, <1>16, <2>1 DEF Tear, memory, crawled, Crawling
  <2>2. CASE ~Crawling
    BY <1>16, <2>2 DEF Tear, memory, crawled, CrawlSources, Crawling
  <2>3. QED
    BY <2>1, <2>2
<1>17. CASE PrimeFails \/ ReplayDone \/ SaveSiteMetadata \/ Crash
  BY <1>5, <1>17 DEF PrimeFails, ReplayDone, SaveSiteMetadata, Crash, Return
<1>18. QED
  BY <1>3, <1>4, <1>6, <1>7, <1>8, <1>9, <1>10, <1>11, <1>12, <1>13, <1>14, <1>15, <1>16, <1>17
  DEF Next

-----------------------------------------------------------------------------
\* What a crawl that missed nothing reports when it is through.
LEMMA ThroughSources ==
  ASSUME TypeInv, Stage, Sound, Complete, CrawlSources, exact, ~aborted,
         CrawlEnds \/ SaveSiteMetadata, NEW s \in Script
  PROVE  /\ restored[s] = IF s \in Maps \cap Reachable THEN Whole(s) ELSE NoFile
         /\ restored[s] # NoFile => s \in listed /\ task[s] = "done"
<1> USE HeldFacts, MapsFacts
<1>1. Crawling /\ \A p \in Page : task[p] \in {"new", "done"}
  BY DEF CrawlEnds, SaveSiteMetadata, Stage, Crawling, Page
<1>2. listed = Reachable
  BY ThroughListed
<1>3. CrawlAt(s)
  BY <1>1, CrawlParts
<1>4. s \in Reachable <=> task[s] = "done"
  BY <1>1, <1>2 DEF Sound, Complete
<1>5. QED
  BY <1>2, <1>3, <1>4, WholeFacts DEF CrawlAt

LEMMA StepMetaSources ==
  ASSUME TypeInv, Stage, Sound, Complete, CrawlSources, MetaSources, ~damaged', [Next]_vars
  PROVE  MetaSources'
<1>1. CASE UNCHANGED meta
  BY <1>1 DEF MetaSources
<1>2. CASE SaveSiteMetadata
  <2>1. meta' = Record
    BY <1>2 DEF SaveSiteMetadata, Outcome
  <2>2. /\ Record.exact = (exact /\ ~aborted)
        /\ Record.kept = {s \in listed : restored[s] # NoFile}
        /\ Record.mapped = (listed \cap (mapped \cup Record.kept)) \ Foreign
    BY DEF Record
  <2>3. ASSUME exact, ~aborted
        PROVE  Record.mapped = (Maps \cap Reachable) \ Foreign /\ Record.kept = Maps \cap Reachable
    <3>1. listed = Reachable
      BY <1>2, <2>3, ThroughListed
    <3>2. \A s \in Script : restored[s] = IF s \in Maps \cap Reachable THEN Whole(s) ELSE NoFile
      BY <1>2, <2>3, ThroughSources
    <3>3. Record.kept = Maps \cap Reachable
      BY <2>2, <3>1, <3>2, WholeFacts, ReachFacts, HeldFacts
    <3>4. mapped \subseteq Maps
      BY <1>2, CrawlParts DEF SaveSiteMetadata, Crawling
    <3>5. QED
      BY <2>2, <3>1, <3>3, <3>4
  <2>4. QED
    BY <2>1, <2>2, <2>3 DEF MetaSources
<1>3. CASE meta' \notin Meta
  BY <1>3 DEF MetaSources
<1>4. QED
  BY <1>1, <1>2, <1>3, MetaFrame

LEMMA StepNoRecord ==
  ASSUME TypeInv, Stage, NoRecord, [Next]_vars
  PROVE  NoRecord'
<1>1. CASE ~Crawling'
  BY <1>1 DEF NoRecord
<1>2. CASE StartCrawl
  BY <1>2 DEF StartCrawl, NoRecord, Readable, disk
<1>3. CASE Crawling' /\ ~StartCrawl
  <2>1. Crawling /\ UNCHANGED mode
    BY <1>3 DEF Next, vars, memory, crawled, Crawling, Begin, PrimeHit, PrimeDownload, PrimeStored,
       PrimeFails, OpenMeta, Replay, ReplayDone, Analyse, DownloadFails, Stored, ProbeCached,
       ProbeNetwork, ProbeFails, MapStored, SourceStored, CrawlEnds, SaveSiteMetadata, Abort, Tear,
       Crash, Lose, Return, Forget
  <2>2. ~SaveSiteMetadata
    BY <1>3 DEF SaveSiteMetadata, Return, Forget, Crawling
  <2>3. UNCHANGED meta \/ meta' \notin Meta
    BY <2>2, MetaFrame
  <2>4. QED
    BY <2>1, <2>3 DEF NoRecord, Readable
<1>4. QED
  BY <1>1, <1>2, <1>3

-----------------------------------------------------------------------------
LEMMA OwedFacts ==
  ASSUME MetaTrue, MetaSources, NEW s \in Script, Owed(s)
  PROVE  s \in Maps /\ s \notin Foreign /\ s \in Reachable /\ s \in meta.kept /\ s \in meta.listed
  BY DEF Owed, MetaSources, MetaTrue

\* Nothing is written of s, and no write of it begins while a record of it that
\* no crash has touched is replayed.
LEMMA IntactIdle ==
  ASSUME NEW s \in Script, IntactAt(s), ~Busy(s), UNCHANGED cutOff,
         mapFile'[s] = mapFile[s], source'[PathOf[s]] = source[PathOf[s]],
         phase' = "replay" /\ task'[s] = "restoring" => cutOff # 0
  PROVE  IntactAt(s)'
  BY DEF IntactAt, Busy

\* The write of s goes on.
LEMMA IntactSame ==
  ASSUME NEW s \in Script, IntactAt(s), UNCHANGED <<cutOff, phase>>, task'[s] = task[s],
         task[s] # "mapping" => mapFile'[s] = mapFile[s],
         task[s] # "restoring" => source'[PathOf[s]] = source[PathOf[s]]
  PROVE  IntactAt(s)'
  BY DEF IntactAt, Busy

\* Which files a step of a scan touches.
LEMMA FileFrame ==
  ASSUME PathsDistinct, TypeInv, FilesTrue, [Next]_vars, ~Lose, NEW s \in Maps
  PROVE  /\ mapFile'[s] = mapFile[s] \/ MapStored(s) \/ (Tear /\ task[s] = "mapping")
         /\ source'[PathOf[s]] = source[PathOf[s]] \/ SourceStored(s)
              \/ (Tear /\ task[s] = "restoring")
<1> USE HeldFacts, MapsFacts
<1>1. ASSUME NEW t \in Script, MapStored(t)
      PROVE  /\ mapFile'[s] = mapFile[s] \/ MapStored(s)
             /\ source'[PathOf[s]] = source[PathOf[s]]
  BY <1>1 DEF MapStored, TypeInv, TypeOK
<1>2. ASSUME NEW t \in Script, SourceStored(t)
      PROVE  /\ mapFile'[s] = mapFile[s]
             /\ source'[PathOf[s]] = source[PathOf[s]] \/ SourceStored(s)
  <2>1. CASE t # s
    <3>1. t \in Maps
      BY <1>2 DEF SourceStored, FilesTrue, FromMaps
    <3>2. PathOf[t] # PathOf[s]
      BY <2>1, <3>1 DEF PathsDistinct
    <3>3. QED
      BY <1>2, <3>2 DEF SourceStored, TypeInv, TypeOK
  <2>2. QED
    BY <1>2, <2>1 DEF SourceStored
<1>3. CASE Tear
  <2>1. ASSUME NEW t \in Restoring, NEW f, source' = [source EXCEPT ![PathOf[t]] = f]
        PROVE  source'[PathOf[s]] = source[PathOf[s]] \/ task[s] = "restoring"
    <3>1. CASE t # s
      <4>1. t \in Maps
        BY <2>1 DEF Restoring, FilesTrue, FromMaps
      <4>2. PathOf[t] # PathOf[s]
        BY <3>1, <4>1 DEF PathsDistinct
      <4>3. QED
        BY <2>1, <4>2 DEF TypeInv, TypeOK
    <3>2. QED
      BY <3>1 DEF Restoring
  <2>2. source'[PathOf[s]] = source[PathOf[s]] \/ task[s] = "restoring"
    BY <1>3, <2>1 DEF Tear
  <2>3. mapFile'[s] = mapFile[s] \/ task[s] = "mapping"
    BY <1>3 DEF Tear, TypeInv, TypeOK
  <2>4. QED
    BY <1>3, <2>2, <2>3
<1>4. CASE ~Tear /\ \A t \in Script : ~MapStored(t) /\ ~SourceStored(t)
  BY <1>4 DEF Next, vars, disk, Begin, PrimeHit, PrimeDownload, PrimeStored, PrimeFails,
     OpenMeta, StartCrawl, Replay, ReplayDone, Analyse, DownloadFails, Stored, ProbeCached,
     ProbeNetwork, ProbeFails, CrawlEnds, SaveSiteMetadata, Abort, Crash
<1>5. QED
  BY <1>1, <1>2, <1>3, <1>4

\* The record is written when both files of what it promises are.
LEMMA SaveIntact ==
  ASSUME TypeInv, BackInv, Stage, Sound, Complete, CrawlSources, MetaSources,
         ~damaged', [Next]_vars, SaveSiteMetadata
  PROVE  Intact'
<1> SUFFICES ASSUME NEW s \in Script, Owed(s)' PROVE IntactAt(s)'
  BY DEF Intact
<1>1. meta' = Record /\ Record.exact = (exact /\ ~aborted)
  BY DEF SaveSiteMetadata, Outcome, Record
<1>2. MetaSources'
  BY StepMetaSources
<1>3. s \in Maps \cap Reachable /\ s \notin Foreign /\ exact /\ ~aborted
  BY <1>1, <1>2 DEF Owed, MetaSources
<1>4. restored[s] = Whole(s)
  BY <1>3, ThroughSources
<1>5. Crawling /\ Writable
  BY DEF SaveSiteMetadata, Crawling, BackInv, Quiet
<1>6. BothWhole(s)
  BY <1>3, <1>4, <1>5, CrawlParts, WholeFacts, HeldFacts DEF CrawlAt
<1>7. UNCHANGED <<mapFile, source>> /\ Forget
  BY DEF SaveSiteMetadata, Return
<1>8. task'[s] = "new" /\ phase' = "off"
  BY <1>7, HeldFacts DEF Forget
<1>9. QED
  BY <1>6, <1>7, <1>8 DEF IntactAt, BothWhole, Busy

\* A write ends by its own step or in a crash.
LEMMA BusyFrame ==
  ASSUME TypeInv, Stage, [Next]_vars, NEW s \in Script, Busy(s)
  PROVE  \/ MapStored(s) \/ SourceStored(s) \/ Crash
         \/ task'[s] = task[s] /\ phase' = phase /\ UNCHANGED cutOff
<1> USE HeldFacts DEF Busy
<1>1. phase \in {"replay", "crawl"}
  BY DEF Stage, TypeInv, TypeOK
<1>2. CASE UNCHANGED vars
  BY <1>2 DEF vars, memory, crawled, history
<1>3. CASE (\E m \in Modes : Begin(m)) \/ PrimeHit \/ PrimeDownload \/ PrimeStored \/ PrimeFails
           \/ OpenMeta \/ StartCrawl \/ SaveSiteMetadata \/ Lose
  BY <1>1, <1>3 DEF Begin, PrimeHit, PrimeDownload, PrimeStored, PrimeFails, OpenMeta, StartCrawl,
                    SaveSiteMetadata, Lose
<1>4. ASSUME NEW t \in Script, Replay(t) PROVE task'[s] = task[s] /\ phase' = phase /\ UNCHANGED cutOff
  BY <1>4 DEF Replay, Restoring, Stage, history
<1>5. CASE ReplayDone
  BY <1>5 DEF ReplayDone, Restoring, Stage
<1>6. CASE CrawlEnds
  BY <1>6 DEF CrawlEnds
<1>7. ASSUME NEW p \in Page, Analyse(p) \/ DownloadFails(p)
      PROVE  task'[s] = task[s] /\ phase' = phase /\ UNCHANGED cutOff
  BY <1>7 DEF Analyse, DownloadFails, history, TypeInv, TypeOK
<1>8. ASSUME NEW t \in Script, t # s,
             Stored(t) \/ ProbeCached(t) \/ ProbeNetwork(t) \/ ProbeFails(t) \/ MapStored(t)
             \/ SourceStored(t)
      PROVE  task'[s] = task[s] /\ phase' = phase /\ UNCHANGED cutOff
  BY <1>8 DEF Stored, ProbeCached, ProbeNetwork, ProbeFails, MapStored, SourceStored, Restore,
              history, TypeInv, TypeOK
<1>9. CASE Stored(s) \/ ProbeCached(s) \/ ProbeNetwork(s) \/ ProbeFails(s)
  BY <1>9 DEF Stored, ProbeCached, ProbeNetwork, ProbeFails
<1>10. CASE Abort
  BY <1>10 DEF Abort, crawled
<1>11. CASE Tear
  BY <1>11 DEF Tear, memory, crawled, history
<1>12. QED
  BY <1>2, <1>3, <1>4, <1>5, <1>6, <1>7, <1>8, <1>9, <1>10, <1>11 DEF Next

\* The count of scans cut off changes in a crash, and is reset by a save.
LEMMA CutOffFrame ==
  ASSUME TypeInv, [Next]_vars
  PROVE  UNCHANGED cutOff \/ SaveSiteMetadata \/ Crash
  BY DEF Next, vars, history, Begin, PrimeHit, PrimeDownload, PrimeStored, PrimeFails, OpenMeta,
     StartCrawl, Replay, ReplayDone, Analyse, DownloadFails, Stored, ProbeCached, ProbeNetwork,
     ProbeFails, MapStored, SourceStored, CrawlEnds, Abort, Tear, Lose

\* Sources are written anew in a replay only when they are not there.
LEMMA ReplayRestores ==
  ASSUME TypeInv, Stage, MetaTrue, ReplayTrue, FilesTrue, MetaSources,
         NEW s \in Script, Owed(s), IntactAt(s), ~Busy(s), [Next]_vars,
         phase' = "replay", task'[s] = "restoring"
  PROVE  cutOff # 0
<1> USE HeldFacts
<1>1. Replay(s)
  BY DEF Next, vars, memory, crawled, Busy, Begin, PrimeHit, PrimeDownload, PrimeStored, PrimeFails,
     OpenMeta, StartCrawl, Replay, Restore, ReplayDone, Analyse, DownloadFails, Stored, ProbeCached,
     ProbeNetwork, ProbeFails, MapStored, SourceStored, CrawlEnds, SaveSiteMetadata, Abort, Tear,
     Crash, Lose, Return, Forget, Stage, TypeInv, TypeOK
<1>2. ~SourcesPresent(s)
  BY <1>1 DEF Replay, Busy
<1>3. source[PathOf[s]] = NoFile
  BY <1>1, <1>2, OwedFacts DEF Replay, ReplayTrue, SourcesPresent
<1>4. QED
  BY <1>3, WholeFacts DEF IntactAt, Busy

\* A crash leaves one of the two files of s intact, unless another one had
\* left the other empty.
LEMMA CrashIntact ==
  ASSUME TypeInv, Stage, MetaTrue, ReplayTrue, FilesTrue, MetaSources, NoRecord,
         NEW s \in Script, Owed(s), IntactAt(s), Crash
  PROVE  IntactAt(s)'
<1> USE HeldFacts
<1>1. /\ UNCHANGED <<mapFile, source>> /\ task'[s] = "new" /\ phase' = "off"
      /\ cutOff' = IF mode = "writeonly" THEN cutOff + 1 ELSE cutOff
  BY DEF Crash, Forget, disk
<1>2. cutOff \in Nat
  BY DEF TypeInv, TypeOK
<1>3. CASE ~Busy(s)
  BY <1>1, <1>2, <1>3 DEF IntactAt, Busy
<1>4. CASE Busy(s) /\ phase = "replay"
  <2>1. task[s] = "restoring" /\ cutOff # 0
    BY <1>4 DEF Busy, Stage, IntactAt
  <2>2. mapFile[s] = Whole(s)
    BY <2>1, OwedFacts DEF FilesTrue, FromMaps
  <2>3. cutOff' = cutOff
    BY <1>1, <1>4 DEF ReplayTrue, Readable
  <2>4. QED
    BY <1>1, <2>1, <2>2, <2>3 DEF IntactAt, Busy
<1>5. CASE Busy(s) /\ phase = "crawl"
  <2>1. mode = "writeonly"
    BY <1>5, OwedFacts DEF NoRecord, Crawling, Owed, Readable
  <2>2. cutOff' = cutOff + 1
    BY <1>1, <2>1
  <2>3. cutOff' <= 1 => mapFile[s] = Whole(s) \/ source[PathOf[s]] = Whole(s)
    BY <1>2, <1>5, <2>2 DEF IntactAt, Busy
  <2>4. QED
    BY <1>1, <1>2, <2>2, <2>3 DEF IntactAt, Busy
<1>6. Busy(s) => phase \in {"replay", "crawl"}
  BY DEF Stage, Busy, TypeInv, TypeOK
<1>7. QED
  BY <1>3, <1>4, <1>5, <1>6

LEMMA StepIntact ==
  ASSUME PathsDistinct, TypeInv, BackInv, Stage, Sound, Complete, MetaTrue, ReplayTrue, FilesTrue,
         CrawlSources, MetaSources, NoRecord, Intact, ~damaged', ~lost', [Next]_vars
  PROVE  Intact'
<1> USE HeldFacts, MapsFacts
<1>1. CASE SaveSiteMetadata
  BY <1>1, SaveIntact
<1>2. CASE meta' \notin Meta
  BY <1>2 DEF Intact, Owed
<1>3. CASE UNCHANGED meta /\ ~SaveSiteMetadata
  <2> SUFFICES ASSUME NEW s \in Script, Owed(s)' PROVE IntactAt(s)'
    BY DEF Intact
  <2>1. Owed(s) /\ IntactAt(s) /\ s \in Maps /\ s \notin Foreign
    BY <1>3, OwedFacts DEF Owed, Intact
  <2>2. ~Lose
    BY DEF Lose
  <2>3. CASE Crash
    BY <2>1, <2>3, CrashIntact
  <2>4. CASE MapStored(s)
    <3>1. /\ mapFile'[s] = Whole(s) /\ task'[s] = "restoring" /\ phase' = "crawl"
          /\ UNCHANGED <<source, cutOff>> /\ task[s] = "mapping"
      BY <2>1, <2>4 DEF MapStored, Outcome, Restore, FilesTrue, FromMaps, TypeInv, TypeOK
    <3>2. QED
      BY <2>1, <3>1 DEF IntactAt, Busy
  <2>5. CASE SourceStored(s)
    <3>1. /\ mapFile[s] = Whole(s) /\ UNCHANGED mapFile /\ task'[s] = "done"
          /\ source'[PathOf[s]] = Whole(s)
      BY <2>1, <2>5 DEF SourceStored, Outcome, FilesTrue, FromMaps, TypeInv, TypeOK
    <3>2. QED
      BY <3>1 DEF IntactAt
  <2>6. CASE ~Crash /\ ~MapStored(s) /\ ~SourceStored(s)
    <3>1. /\ mapFile'[s] = mapFile[s] \/ (Tear /\ task[s] = "mapping")
          /\ source'[PathOf[s]] = source[PathOf[s]] \/ (Tear /\ task[s] = "restoring")
      BY <2>1, <2>2, <2>6, FileFrame
    <3>2. UNCHANGED cutOff
      BY <1>3, <2>6, CutOffFrame
    <3>3. CASE Busy(s)
      BY <2>1, <2>6, <3>1, <3>2, <3>3, BusyFrame, IntactSame
    <3>4. CASE ~Busy(s)
      <4>1. phase' = "replay" /\ task'[s] = "restoring" => cutOff # 0
        BY <2>1, <3>4, ReplayRestores
      <4>2. mapFile'[s] = mapFile[s] /\ source'[PathOf[s]] = source[PathOf[s]]
        BY <3>1, <3>4 DEF Busy
      <4>3. QED
        BY <2>1, <3>2, <3>4, <4>1, <4>2, IntactIdle
    <3>5. QED
      BY <3>3, <3>4
  <2>7. QED
    BY <2>3, <2>4, <2>5, <2>6
<1>4. QED
  BY <1>1, <1>2, <1>3, MetaFrame

-----------------------------------------------------------------------------
\* What ReplaySources says of one script.
ReplayAt(s) ==
  /\ s \in toReplay => task[s] = "new" /\ s \notin listed
  /\ task[s] = "restoring" => s \in listed \cap Maps
  /\ restored[s] = IF s \in listed \cap Maps /\ task[s] # "restoring" THEN Whole(s) ELSE NoFile

\* The sources of s are read back, or restored from its map; without a map
\* there are none.
LEMMA ReplayOne ==
  ASSUME TypeInv, Stage, MetaTrue, ReplayTrue, FilesTrue, MetaSources, Intact,
         exact, cutOff <= 1, NEW s \in Script \ Foreign, ReplayAt(s), Replay(s)
  PROVE  ReplayAt(s)'
<1> USE HeldFacts, MapsFacts
<1>1. /\ s \in toReplay /\ task[s] = "new" /\ s \notin listed /\ restored[s] = NoFile
      /\ recorded = meta /\ meta \in Meta /\ meta.exact /\ Readable
      /\ s \notin toReplay' /\ s \in listed'
  BY DEF Replay, ReplayAt, ReplayTrue, TypeInv, Replaying
<1>2. s \in meta.listed /\ s \in Reachable
  BY <1>1 DEF Replay, ReplayTrue, MetaTrue
<1>3. s \in meta.mapped <=> s \in Maps
  BY <1>1, <1>2 DEF MetaSources
<1>4. CASE s \notin Maps
  <2>1. UNCHANGED <<task, restored>>
    BY <1>1, <1>3, <1>4 DEF Replay
  <2>2. QED
    BY <1>1, <1>4, <2>1 DEF ReplayAt
<1>5. CASE s \in Maps
  <2>1. Owed(s) /\ s \in meta.kept /\ ~Busy(s)
    BY <1>1, <1>2, <1>3, <1>5 DEF Owed, MetaSources, Busy
  <2>2. mapFile[s] = Whole(s) \/ source[PathOf[s]] = Whole(s)
    BY <2>1 DEF Intact, IntactAt
  <2>3. CASE SourcesPresent(s)
    <3>1. source[PathOf[s]] = Whole(s)
      BY <1>1, <1>5, <2>3 DEF SourcesPresent, FilesTrue, SourcesTrue
    <3>2. task' = task /\ restored'[s] = Whole(s)
      BY <1>1, <1>3, <1>5, <2>3, <3>1 DEF Replay, TypeInv, TypeOK
    <3>3. QED
      BY <1>1, <1>5, <3>2 DEF ReplayAt
  <2>4. CASE ~SourcesPresent(s)
    <3>1. mapFile[s] = Whole(s) /\ mapFile[s].whole
      BY <1>1, <2>1, <2>2, <2>4, WholeFacts DEF SourcesPresent
    <3>2. MapReadable(s)
      BY <1>1, <3>1, WholeFacts DEF MapReadable
    <3>3. Restore(s)
      BY <1>1, <1>3, <1>5, <2>4, <3>1, <3>2 DEF Replay
    <3>4. \/ task'[s] = "restoring" /\ restored'[s] = NoFile
          \/ task'[s] = "done" /\ restored'[s] = Whole(s)
      BY <1>1, <3>3 DEF Restore, TypeInv, TypeOK
    <3>5. QED
      BY <1>1, <1>5, <3>4 DEF ReplayAt
  <2>5. QED
    BY <2>3, <2>4
<1>6. QED
  BY <1>4, <1>5

LEMMA StepReplaySources ==
  ASSUME TypeInv, BackInv, Stage, MetaTrue, ReplayTrue, FilesTrue, MetaSources, Intact,
         ReplaySources, [Next]_vars
  PROVE  ReplaySources'
<1> USE HeldFacts
<1> SUFFICES ASSUME phase' = "replay", exact', cutOff' <= 1, NEW s \in Script \ Foreign
             PROVE  ReplayAt(s)'
  BY DEF ReplaySources, ReplayAt
<1>1. CASE OpenMeta
  BY <1>1 DEF OpenMeta, ReplayAt, BackInv, Early, Nothing, Stage
<1>2. CASE ~OpenMeta
  <2>1. phase = "replay" /\ UNCHANGED <<exact, cutOff>>
    BY <1>2 DEF Next, vars, memory, crawled, history, Begin, PrimeHit, PrimeDownload, PrimeStored,
       PrimeFails, StartCrawl, Replay, ReplayDone, Analyse, DownloadFails, Stored, ProbeCached,
       ProbeNetwork, ProbeFails, MapStored, SourceStored, CrawlEnds, SaveSiteMetadata, Abort, Tear,
       Crash, Lose, Return, Forget
  <2>2. ReplayAt(s)
    BY <2>1 DEF ReplaySources, ReplayAt
  <2>3. CASE Replay(s)
    BY <2>1, <2>2, <2>3, ReplayOne
  <2>4. ASSUME NEW t \in Script, t # s, Replay(t) \/ SourceStored(t) PROVE ReplayAt(s)'
    <3>1. task'[s] = task[s] /\ restored'[s] = restored[s]
      BY <2>4 DEF Replay, Restore, SourceStored, TypeInv, TypeOK
    <3>2. /\ s \in listed' <=> s \in listed
          /\ s \in toReplay' <=> s \in toReplay
      BY <2>4 DEF Replay, SourceStored
    <3>3. QED
      BY <2>2, <3>1, <3>2 DEF ReplayAt
  <2>5. CASE SourceStored(s)
    <3>1. /\ task[s] = "restoring" /\ task'[s] = "done" /\ restored'[s] = Whole(s)
          /\ UNCHANGED <<listed, toReplay>>
      BY <2>5 DEF SourceStored, TypeInv, TypeOK
    <3>2. QED
      BY <2>2, <3>1 DEF ReplayAt
  <2>6. CASE Tear \/ UNCHANGED vars
    BY <2>2, <2>6 DEF Tear, vars, memory, crawled, ReplayAt
  <2>7. QED
    BY <1>2, <2>1, <2>3, <2>4, <2>5, <2>6
    DEF Next, Begin, PrimeHit, PrimeDownload, PrimeStored, PrimeFails, StartCrawl, ReplayDone,
        Analyse, DownloadFails, Stored, ProbeCached, ProbeNetwork, ProbeFails, MapStored, CrawlEnds,
        SaveSiteMetadata, Abort, Crash, Lose, Return, Forget
<1>3. QED
  BY <1>1, <1>2

LEMMA StepReportSources ==
  ASSUME TypeInv, BackInv, Stage, Sound, Complete, MetaTrue, ReplayTrue, FilesTrue, CrawlSources,
         MetaSources, Intact, ReplaySources, ReportSources, ~damaged', ~lost', [Next]_vars
  PROVE  ReportSources'
<1> USE HeldFacts
<1>1. CASE ReplayDone
  <2>1. /\ result'.exact = (exact /\ ~aborted) /\ result'.replayed = TRUE
        /\ result'.sources = restored /\ UNCHANGED cutOff
    BY <1>1 DEF ReplayDone, Return, history
  <2>2. ASSUME exact, cutOff <= 1, NEW s \in Script \ Foreign
        PROVE  restored[s] = IF s \in Maps \cap Reachable THEN Whole(s) ELSE NoFile
    <3>1. listed = Reachable
      BY <1>1, <2>2 DEF ReplayDone, ReplayTrue, MetaTrue, TypeInv, Replaying
    <3>2. task[s] # "restoring"
      BY <1>1 DEF ReplayDone, Restoring
    <3>3. QED
      BY <1>1, <2>2, <3>1, <3>2 DEF ReplaySources, ReplayDone
  <2>3. QED
    BY <2>1, <2>2 DEF ReportSources
<1>2. CASE (CrawlEnds \/ SaveSiteMetadata) /\ Return(FALSE)
  <2>1. result'.exact = (exact /\ ~aborted) /\ result'.sources = restored
    BY <1>2 DEF Return
  <2>2. ASSUME exact, ~aborted, NEW s \in Script
        PROVE  restored[s] = IF s \in Maps \cap Reachable THEN Whole(s) ELSE NoFile
    BY <1>2, <2>2, ThroughSources
  <2>3. QED
    BY <2>1, <2>2 DEF ReportSources
<1>3. CASE result' = NoFile
  BY <1>3, CacheAssumption DEF ReportSources
<1>4. CASE UNCHANGED result /\ ~SaveSiteMetadata
  <2>1. cutOff' <= 1 => cutOff <= 1
    <3>1. CASE UNCHANGED cutOff
      BY <3>1
    <3>2. CASE Crash
      BY <3>2 DEF Crash, TypeInv, TypeOK
    <3>3. QED
      BY <1>4, <3>1, <3>2, CutOffFrame
  <2>2. QED
    BY <1>4, <2>1 DEF ReportSources
<1>5. SaveSiteMetadata => Return(FALSE)
  BY DEF SaveSiteMetadata
<1>6. QED
  BY <1>1, <1>2, <1>3, <1>4, <1>5, ResultFrame

-----------------------------------------------------------------------------
LEMMA InitSources == Init => SourceInv
<1> SUFFICES ASSUME Init PROVE SourceInv
  OBVIOUS
<1>1. phase = "off" /\ meta \notin Meta /\ result \notin Report /\ mapped = {}
  BY CacheAssumption DEF Init
<1>2. QED
  BY <1>1, InitFiles DEF SourceInv, CrawlSources, MetaSources, NoRecord, Crawling, Intact, Owed,
                         ReplaySources, ReportSources

LEMMA StepSources ==
  ASSUME PathsDistinct
  PROVE  TypeInv /\ BackInv /\ ListInv /\ SourceInv /\ [Next]_vars => SourceInv'
<1> SUFFICES ASSUME TypeInv, BackInv, ListInv, SourceInv, [Next]_vars, ~damaged'
             PROVE  SourceInv'
  BY DEF SourceInv
<1>1. ~damaged /\ (~lost' => ~lost)
  BY HistoryGrows
<1>2. /\ Stage /\ Sound /\ Complete /\ MetaTrue /\ ReplayTrue
      /\ FilesTrue /\ CrawlSources /\ MetaSources /\ NoRecord
      /\ ~lost => Intact /\ ReplaySources /\ ReportSources
  BY <1>1 DEF ListInv, SourceInv
<1>3. FilesTrue' /\ CrawlSources' /\ MetaSources' /\ NoRecord'
  BY <1>2, StepFiles, StepCrawlSources, StepMetaSources, StepNoRecord
<1>4. ASSUME ~lost' PROVE Intact' /\ ReplaySources' /\ ReportSources'
  BY <1>1, <1>2, <1>4, StepIntact, StepReplaySources, StepReportSources
<1>5. QED
  BY <1>3, <1>4 DEF SourceInv

\* For any site without two pages of one slot or two maps whose sources share a
\* path, any store options and any history of scans, failures and crashes that
\* lost no file, cut none short, and cut off at most one noCache scan since the
\* record was written: the sources of every script that has a map are reported,
\* by a crawl and, for the scripts of the origin, by a replay.
THEOREM SourcesSurvive ==
  ASSUME SlotsDistinct, PathsDistinct
  PROVE  Spec => []SourcesKept
<1>1. Init => SourceInv
  BY InitSources
<1>2. TypeInv /\ BackInv /\ ListInv /\ SourceInv /\ [Next]_vars => SourceInv'
  BY StepSources
<1>3. SourceInv => SourcesKept
  BY DEF SourceInv, ReportSources, SourcesKept
<1>4. QED
  BY <1>1, <1>2, <1>3, ListsHold, PTL DEF Spec

-----------------------------------------------------------------------------
(* What one scan's steps leave to another scan of the scope that runs at   *)
(* the same time; the composition is in SharedScope_proofs.tla.            *)

\* What is being written, and what is there, whole, or about to be.
WritesSlot(k) == \E p \in Page : task[p] = "storing" /\ SlotOf[p] = k
WritesPath(x) == \E s \in Script : task[s] = "restoring" /\ PathOf[s] = x
SlotHeld(k) == page[k] # NoFile \/ WritesSlot(k)
MapHeld(s) == mapFile[s] \in {NoFile, Whole(s)} \/ task[s] = "mapping"
PathHeld(x) == source[x] # NoFile \/ WritesPath(x)
PathWhole(x) == ~IsCut(source[x]) \/ WritesPath(x)
MetaHeld == meta \in Meta \cup {NoFile} \/ phase = "save"

FilesHeld ==
  /\ \A k \in Slot : SlotHeld(k)' \/ ~SlotHeld(k)
  /\ \A s \in Script : MapHeld(s)' \/ ~MapHeld(s)
  /\ \A x \in Path : (PathHeld(x)' \/ ~PathHeld(x)) /\ (PathWhole(x)' \/ ~PathWhole(x))
  /\ MetaHeld' \/ ~MetaHeld

\* A step that changes no file and ends no write leaves all of them held.
LEMMA HeldStays ==
  ASSUME UNCHANGED <<page, mapFile, source>>, UNCHANGED meta, phase = "save" => phase' = "save",
         \A p \in Page : task[p] \in {"storing", "mapping", "restoring"} => task'[p] = task[p]
  PROVE  FilesHeld
<1> USE HeldFacts
<1>1. \A k \in Slot : WritesSlot(k) => WritesSlot(k)'
  BY DEF WritesSlot
<1>2. \A x \in Path : WritesPath(x) => WritesPath(x)'
  BY DEF WritesPath
<1>3. \A k \in Slot : SlotHeld(k)' \/ ~SlotHeld(k)
  BY <1>1 DEF SlotHeld
<1>4. \A s \in Script : MapHeld(s)' \/ ~MapHeld(s)
  BY DEF MapHeld
<1>5. \A x \in Path : (PathHeld(x)' \/ ~PathHeld(x)) /\ (PathWhole(x)' \/ ~PathWhole(x))
  BY <1>2 DEF PathHeld, PathWhole
<1>6. MetaHeld' \/ ~MetaHeld
  BY DEF MetaHeld
<1> QED
  BY <1>3, <1>4, <1>5, <1>6 DEF FilesHeld

\* So does the end of a scan that is writing nothing.
LEMMA HeldForget ==
  ASSUME UNCHANGED <<page, mapFile, source>>, UNCHANGED meta \/ (meta' \in Meta),
         phase # "save" \/ meta' \in Meta,
         \A p \in Page : task[p] \notin {"storing", "mapping", "restoring"}
  PROVE  FilesHeld
<1> USE HeldFacts
<1>1. \A k \in Slot : ~WritesSlot(k)
  BY DEF WritesSlot
<1>2. \A x \in Path : ~WritesPath(x)
  BY DEF WritesPath
<1>3. \A k \in Slot : SlotHeld(k)' \/ ~SlotHeld(k)
  BY <1>1 DEF SlotHeld
<1>4. \A s \in Script : MapHeld(s)' \/ ~MapHeld(s)
  BY DEF MapHeld
<1>5. \A x \in Path : (PathHeld(x)' \/ ~PathHeld(x)) /\ (PathWhole(x)' \/ ~PathWhole(x))
  BY <1>2 DEF PathHeld, PathWhole
<1>6. MetaHeld' \/ ~MetaHeld
  BY DEF MetaHeld
<1> QED
  BY <1>3, <1>4, <1>5, <1>6 DEF FilesHeld

\* The write of a script is over and its slot is not empty.
LEMMA StoredHeld ==
  ASSUME TypeInv, NEW s \in Page, task[s] = "storing", NEW f, f # NoFile,
         page' = [page EXCEPT ![SlotOf[s]] = f], UNCHANGED <<mapFile, source, meta>>,
         \A p \in Page \ {s} : task'[p] = task[p], phase # "save"
  PROVE  FilesHeld
<1> USE HeldFacts
<1>1. \A k \in Slot : k # SlotOf[s] => (WritesSlot(k) => WritesSlot(k)') /\ page'[k] = page[k]
  BY DEF WritesSlot, TypeInv, TypeOK
<1>2. page'[SlotOf[s]] = f
  BY DEF TypeInv, TypeOK
<1>3. \A x \in Path : WritesPath(x) => WritesPath(x)'
  BY DEF WritesPath
<1>4. \A k \in Slot : SlotHeld(k)' \/ ~SlotHeld(k)
  BY <1>1, <1>2 DEF SlotHeld
<1>5. \A t \in Script : MapHeld(t)' \/ ~MapHeld(t)
  BY DEF MapHeld
<1>6. \A x \in Path : (PathHeld(x)' \/ ~PathHeld(x)) /\ (PathWhole(x)' \/ ~PathWhole(x))
  BY <1>3 DEF PathHeld, PathWhole
<1>7. MetaHeld' \/ ~MetaHeld
  BY DEF MetaHeld
<1> QED
  BY <1>4, <1>5, <1>6, <1>7 DEF FilesHeld

\* The write of a map is over.
LEMMA MapStoredHeld ==
  ASSUME TypeInv, NEW s \in Script, task[s] = "mapping",
         \A t \in Script : mapFile'[t] \in {mapFile[t], Whole(t)},
         mapFile'[s] \in {NoFile, Whole(s)}, UNCHANGED <<page, source, meta>>,
         \A p \in Page \ {s} : task'[p] = task[p], phase # "save"
  PROVE  FilesHeld
<1> USE HeldFacts
<1>1. \A k \in Slot : WritesSlot(k) => WritesSlot(k)'
  BY DEF WritesSlot
<1>2. \A x \in Path : WritesPath(x) => WritesPath(x)'
  BY DEF WritesPath
<1>3. \A k \in Slot : SlotHeld(k)' \/ ~SlotHeld(k)
  BY <1>1 DEF SlotHeld
<1>4. \A t \in Script : MapHeld(t)' \/ ~MapHeld(t)
  BY DEF MapHeld, TypeInv, TypeOK
<1>5. \A x \in Path : (PathHeld(x)' \/ ~PathHeld(x)) /\ (PathWhole(x)' \/ ~PathWhole(x))
  BY <1>2 DEF PathHeld, PathWhole
<1>6. MetaHeld' \/ ~MetaHeld
  BY DEF MetaHeld
<1> QED
  BY <1>3, <1>4, <1>5, <1>6 DEF FilesHeld

\* The write of a source is over.
LEMMA SourceStoredHeld ==
  ASSUME TypeInv, NEW s \in Script, task[s] = "restoring",
         source' = [source EXCEPT ![PathOf[s]] = Whole(s)], UNCHANGED <<page, mapFile, meta>>,
         \A p \in Page \ {s} : task'[p] = task[p], phase # "save"
  PROVE  FilesHeld
<1> USE HeldFacts, WholeFacts
<1>1. \A x \in Path : x # PathOf[s] => (WritesPath(x) => WritesPath(x)') /\ source'[x] = source[x]
  BY DEF WritesPath, TypeInv, TypeOK
<1>2. source'[PathOf[s]] = Whole(s)
  BY DEF TypeInv, TypeOK
<1>3. \A k \in Slot : WritesSlot(k) => WritesSlot(k)'
  BY DEF WritesSlot
<1>4. \A k \in Slot : SlotHeld(k)' \/ ~SlotHeld(k)
  BY <1>3 DEF SlotHeld
<1>5. \A t \in Script : MapHeld(t)' \/ ~MapHeld(t)
  BY DEF MapHeld
<1>6. \A x \in Path : (PathHeld(x)' \/ ~PathHeld(x)) /\ (PathWhole(x)' \/ ~PathWhole(x))
  <2> TAKE x \in Path
  <2>1. CASE x = PathOf[s]
    BY <2>1, <1>2 DEF PathHeld, PathWhole
  <2>2. CASE x # PathOf[s]
    BY <2>2, <1>1 DEF PathHeld, PathWhole
  <2> QED
    BY <2>1, <2>2
<1>7. MetaHeld' \/ ~MetaHeld
  BY DEF MetaHeld
<1> QED
  BY <1>4, <1>5, <1>6, <1>7 DEF FilesHeld

\* While a file is written it is no less held than before.
LEMMA TearHeld == ASSUME TypeInv, Tear PROVE FilesHeld
<1> USE HeldFacts
<1>0. UNCHANGED <<phase, task>>
  BY DEF Tear, memory, crawled
<1>1. \A k \in Slot : page'[k] = page[k] \/ WritesSlot(k)'
  <2>1. ASSUME NEW p \in Page, task[p] = "storing", NEW f, page' = [page EXCEPT ![SlotOf[p]] = f],
               NEW k \in Slot
        PROVE  page'[k] = page[k] \/ WritesSlot(k)'
    BY <1>0, <2>1 DEF WritesSlot, TypeInv, TypeOK
  <2> QED
    BY <2>1 DEF Tear
<1>2. \A s \in Script : mapFile'[s] = mapFile[s] \/ task'[s] = "mapping"
  BY <1>0 DEF Tear, TypeInv, TypeOK
<1>3. \A x \in Path : source'[x] = source[x] \/ WritesPath(x)'
  <2>1. ASSUME NEW s \in Restoring, NEW f, source' = [source EXCEPT ![PathOf[s]] = f],
               NEW x \in Path
        PROVE  source'[x] = source[x] \/ WritesPath(x)'
    BY <1>0, <2>1 DEF WritesPath, Restoring, TypeInv, TypeOK
  <2> QED
    BY <2>1 DEF Tear
<1>4. meta' = meta \/ phase' = "save"
  BY <1>0 DEF Tear
<1>5. \A k \in Slot : SlotHeld(k)' \/ ~SlotHeld(k)
  BY <1>0, <1>1 DEF SlotHeld, WritesSlot
<1>6. \A s \in Script : MapHeld(s)' \/ ~MapHeld(s)
  BY <1>0, <1>2 DEF MapHeld
<1>7. \A x \in Path : (PathHeld(x)' \/ ~PathHeld(x)) /\ (PathWhole(x)' \/ ~PathWhole(x))
  BY <1>0, <1>3 DEF PathHeld, PathWhole, WritesPath
<1>8. MetaHeld' \/ ~MetaHeld
  BY <1>0, <1>4 DEF MetaHeld
<1> QED
  BY <1>5, <1>6, <1>7, <1>8 DEF FilesHeld

\* The maps of other origins share one file nobody reads.
ForeignApart == \A s \in Foreign : mapFile[s] = NoFile

LEMMA StepForeign == TypeInv /\ ForeignApart /\ [Next]_vars => ForeignApart'
<1> SUFFICES ASSUME TypeInv, ForeignApart, [Next]_vars PROVE ForeignApart'
  OBVIOUS
<1>0. Foreign \subseteq Script
  BY CacheAssumption
<1>1. CASE UNCHANGED mapFile
  BY <1>1 DEF ForeignApart
<1>2. ASSUME NEW s \in Script, s \notin Foreign, NEW f, mapFile' = [mapFile EXCEPT ![s] = f]
      PROVE  ForeignApart'
  BY <1>0, <1>2 DEF ForeignApart, TypeInv, TypeOK
<1>3. ASSUME NEW s \in Script, mapFile' = [mapFile EXCEPT ![s] = NoFile] PROVE ForeignApart'
  BY <1>0, <1>3 DEF ForeignApart, TypeInv, TypeOK
<1>4. ASSUME NEW s \in Script, MapStored(s) PROVE ForeignApart'
  BY <1>1, <1>2, <1>4 DEF MapStored
<1>5. CASE Tear
  BY <1>1, <1>2, <1>5 DEF Tear
<1>6. CASE Lose
  BY <1>1, <1>3, <1>6 DEF Lose
<1> QED
  BY <1>1, <1>4, <1>5, <1>6
  DEF Next, vars, disk, Begin, PrimeHit, PrimeDownload, PrimeStored, PrimeFails, OpenMeta,
      StartCrawl, Replay, ReplayDone, Analyse, DownloadFails, Stored, ProbeCached, ProbeNetwork,
      ProbeFails, SourceStored, CrawlEnds, SaveSiteMetadata, Abort, Crash

\* What one scan leaves to another: no step that ends well, and neither a crash
\* nor a deletion, takes away a file or leaves half of one.
LEMMA StepHeld ==
  ASSUME TypeInv, Stage, ForeignApart, [Next]_vars, ~damaged', ~Crash, ~Lose
  PROVE  FilesHeld
<1> USE HeldFacts
<1>1. CASE UNCHANGED vars
  BY <1>1, HeldStays DEF vars, disk, memory, crawled
<1>2. ASSUME NEW m \in Modes, Begin(m) PROVE FilesHeld
  BY <1>2, HeldStays DEF Begin, disk, crawled
<1>3. CASE PrimeHit
  BY <1>3, HeldStays DEF PrimeHit, disk, memory, crawled
<1>4. CASE PrimeDownload
  BY <1>4, HeldStays DEF PrimeDownload, disk, TypeInv, TypeOK
<1>5. CASE PrimeStored
  <2>1. page' = [page EXCEPT ![SlotOf[Entry]] = Whole(Entry)]
    BY <1>5 DEF PrimeStored, Outcome
  <2>2. \A p \in Page \ {Entry} : task'[p] = task[p]
    BY <1>5 DEF PrimeStored, TypeInv, TypeOK
  <2>3. Whole(Entry) # NoFile
    BY WholeFacts
  <2>4. UNCHANGED <<mapFile, source, meta>> /\ phase # "save" /\ task[Entry] = "storing"
    BY <1>5 DEF PrimeStored
  <2> QED
    BY <2>1, <2>2, <2>3, <2>4, StoredHeld
<1>6. CASE PrimeFails
  BY <1>6, HeldForget DEF PrimeFails, Stage, Page, disk
<1>7. CASE OpenMeta
  BY <1>7, HeldStays DEF OpenMeta, disk
<1>8. CASE StartCrawl
  BY <1>8, HeldStays DEF StartCrawl, Stage, disk, TypeInv, TypeOK
<1>9. ASSUME NEW s \in Script, Replay(s) PROVE FilesHeld
  <2>1. task[s] \in {"new", "done"}
    BY <1>9 DEF Replay, Stage, Restoring
  <2>2. \A p \in Page \ {s} : task'[p] = task[p]
    BY <1>9 DEF Replay, Restore, TypeInv, TypeOK
  <2> QED
    BY <1>9, <2>1, <2>2, HeldStays DEF Replay, disk
<1>10. CASE ReplayDone
  <2>1. \A p \in Page : task[p] \notin {"storing", "mapping", "restoring"}
    BY <1>10 DEF ReplayDone, Restoring, Stage, Page
  <2> QED
    BY <1>10, <2>1, HeldForget DEF ReplayDone, disk
<1>11. ASSUME NEW p \in Page, Analyse(p) PROVE FilesHeld
  <2>1. \A q \in Page : task[q] \in {"storing", "mapping", "restoring"} => task'[q] = task[q]
    BY <1>11 DEF Analyse
  <2> QED
    BY <1>11, <2>1, HeldStays DEF Analyse, disk
<1>12. ASSUME NEW p \in Page, DownloadFails(p) PROVE FilesHeld
  BY <1>12, HeldStays DEF DownloadFails, disk, TypeInv, TypeOK
<1>13. ASSUME NEW s \in Script, Stored(s) PROVE FilesHeld
  <2>1. page' = [page EXCEPT ![SlotOf[s]] = body[s]]
    BY <1>13 DEF Stored, Outcome
  <2>2. \A p \in Page \ {s} : task'[p] = task[p]
    BY <1>13 DEF Stored, TypeInv, TypeOK
  <2>3. body[s] # NoFile
    BY <1>13 DEF Stored, TypeInv, BodyHeld
  <2>4. UNCHANGED <<mapFile, source, meta>> /\ phase # "save" /\ task[s] = "storing"
    BY <1>13 DEF Stored
  <2> QED
    BY <2>1, <2>2, <2>3, <2>4, StoredHeld
<1>14. ASSUME NEW s \in Script, ProbeCached(s) \/ ProbeNetwork(s) \/ ProbeFails(s)
       PROVE  FilesHeld
  <2>1. \A p \in Page \ {s} : task'[p] = task[p]
    BY <1>14 DEF ProbeCached, ProbeNetwork, ProbeFails, Restore, TypeInv, TypeOK
  <2>2. task[s] = "probing" /\ phase # "save" /\ UNCHANGED disk
    BY <1>14 DEF ProbeCached, ProbeNetwork, ProbeFails
  <2> QED
    BY <2>1, <2>2, HeldStays DEF disk
<1>15. ASSUME NEW s \in Script, MapStored(s) PROVE FilesHeld
  <2>1. \/ mapFile' = [mapFile EXCEPT ![s] = Whole(s)]
        \/ (UNCHANGED mapFile) /\ s \in Foreign
    BY <1>15 DEF MapStored, Outcome
  <2>2. \A t \in Script : mapFile'[t] \in {mapFile[t], Whole(t)}
    BY <2>1 DEF TypeInv, TypeOK
  <2>3. mapFile'[s] \in {NoFile, Whole(s)}
    BY <2>1 DEF ForeignApart, TypeInv, TypeOK
  <2>4. \A p \in Page \ {s} : task'[p] = task[p]
    BY <1>15 DEF MapStored, Restore, TypeInv, TypeOK
  <2>5. UNCHANGED <<page, source, meta>> /\ phase # "save" /\ task[s] = "mapping"
    BY <1>15 DEF MapStored
  <2> QED
    BY <2>2, <2>3, <2>4, <2>5, MapStoredHeld
<1>16. ASSUME NEW s \in Script, SourceStored(s) PROVE FilesHeld
  <2>1. source' = [source EXCEPT ![PathOf[s]] = Whole(s)]
    BY <1>16 DEF SourceStored, Outcome
  <2>2. \A p \in Page \ {s} : task'[p] = task[p]
    BY <1>16 DEF SourceStored, TypeInv, TypeOK
  <2>3. UNCHANGED <<page, mapFile, meta>> /\ phase # "save" /\ task[s] = "restoring"
    BY <1>16 DEF SourceStored
  <2> QED
    BY <2>1, <2>2, <2>3, SourceStoredHeld
<1>17. CASE CrawlEnds
  <2>1. \A p \in Page : task[p] \notin {"storing", "mapping", "restoring"}
    BY <1>17 DEF CrawlEnds
  <2>2. phase # "save" /\ UNCHANGED disk
    BY <1>17 DEF CrawlEnds
  <2> QED
    BY <2>1, <2>2, HeldForget DEF disk
<1>18. CASE SaveSiteMetadata
  <2>1. meta' = Record /\ Record \in Meta
    BY <1>18, RecordType DEF SaveSiteMetadata, Outcome
  <2>2. \A p \in Page : task[p] \notin {"storing", "mapping", "restoring"}
    BY <1>18 DEF SaveSiteMetadata, Stage, Page
  <2> QED
    BY <1>18, <2>1, <2>2, HeldForget DEF SaveSiteMetadata
<1>19. CASE Abort
  BY <1>19, HeldStays DEF Abort, disk, crawled
<1>20. CASE Tear
  BY <1>20, TearHeld
<1> QED
  BY <1>1, <1>2, <1>3, <1>4, <1>5, <1>6, <1>7, <1>8, <1>9, <1>10, <1>11, <1>12, <1>13, <1>14,
     <1>15, <1>16, <1>17, <1>18, <1>19, <1>20 DEF Next

\* What a scan that stores has to show for its list when it comes to record it.
Records == phase \in {"crawl", "save"} /\ Writable

\* What is newly listed or restored has just been written.
LEMMA StepEarns ==
  ASSUME TypeInv, Early, Stage, Quiet, [Next]_vars, ~damaged', Records'
  PROVE  /\ \A s \in listed' : (Records /\ s \in listed) \/ page'[SlotOf[s]] # NoFile
         /\ \A s \in Script : restored'[s] # NoFile =>
              (Records /\ restored[s] # NoFile) \/ source'[PathOf[s]] # NoFile
<1> USE HeldFacts
<1>0. phase' # "off"
  BY DEF Records
<1>1. CASE /\ Records /\ listed' = listed
           /\ \A s \in Script : restored'[s] # NoFile => restored[s] # NoFile
  BY <1>1
<1>2. CASE StartCrawl
  <2>1. listed' = {} /\ \A s \in Script : restored'[s] = NoFile
    BY <1>2 DEF StartCrawl, Early, Nothing
  <2> QED
    BY <2>1
<1>3. ASSUME NEW s \in Script, Stored(s)
      PROVE  /\ \A t \in listed' : (Records /\ t \in listed) \/ page'[SlotOf[t]] # NoFile
             /\ \A t \in Script : restored'[t] # NoFile => Records /\ restored[t] # NoFile
  <2>1. Records /\ restored' = restored /\ listed' = listed \cup {s}
    BY <1>3 DEF Stored, Records, Writable
  <2>2. page' = [page EXCEPT ![SlotOf[s]] = body[s]] /\ body[s] # NoFile
    BY <1>3 DEF Stored, Outcome, TypeInv, BodyHeld
  <2>3. page'[SlotOf[s]] # NoFile
    BY <2>2 DEF TypeInv, TypeOK
  <2> QED
    BY <2>1, <2>3
<1>4. ASSUME NEW s \in Script, SourceStored(s)
      PROVE  /\ \A t \in listed' : Records /\ t \in listed
             /\ \A t \in Script : restored'[t] # NoFile =>
                  (Records /\ restored[t] # NoFile) \/ source'[PathOf[t]] # NoFile
  <2>1. Records /\ listed' = listed /\ restored' = [restored EXCEPT ![s] = Whole(s)]
    BY <1>4 DEF SourceStored, Records, Writable
  <2>2. source' = [source EXCEPT ![PathOf[s]] = Whole(s)] /\ Whole(s) # NoFile
    BY <1>4 DEF SourceStored, Outcome
  <2>3. source'[PathOf[s]] # NoFile
    BY <2>2 DEF TypeInv, TypeOK
  <2>4. \A t \in Script : t # s => restored'[t] = restored[t]
    BY <2>1 DEF TypeInv, TypeOK
  <2> QED
    BY <2>1, <2>3, <2>4
<1>5. CASE \/ \E s \in Script : ProbeCached(s) \/ ProbeNetwork(s) \/ ProbeFails(s) \/ MapStored(s)
           \/ \E p \in Page : Analyse(p) \/ DownloadFails(p)
  <2>1. Writable /\ phase = "crawl" /\ Records
    BY <1>5, <1>0 DEF ProbeCached, ProbeNetwork, ProbeFails, MapStored, Analyse, DownloadFails,
                 Records, Writable
  <2>2. listed' = listed /\ restored' = restored
    BY <1>5, <2>1 DEF ProbeCached, ProbeNetwork, ProbeFails, MapStored, Analyse, DownloadFails,
                 Restore
  <2> QED
    BY <1>1, <2>1, <2>2
<1>6. CASE CrawlEnds \/ Abort \/ Tear \/ UNCHANGED vars
  <2>1. Records /\ listed' = listed /\ restored' = restored
    BY <1>6, <1>0 DEF CrawlEnds, Abort, Tear, Return, Forget, Records, Writable, vars, memory,
                      crawled
  <2> QED
    BY <1>1, <2>1
<1>7. ~(\E m \in Modes : Begin(m)) /\ ~PrimeHit /\ ~PrimeStored /\ ~PrimeFails /\ ~OpenMeta
  BY <1>0 DEF Records, Begin, PrimeHit, PrimeStored, PrimeFails, Forget, OpenMeta
<1>8. ~PrimeDownload /\ ~(\E s \in Script : Replay(s)) /\ ~ReplayDone /\ ~SaveSiteMetadata
  BY <1>0 DEF Records, PrimeDownload, Replay, ReplayDone, SaveSiteMetadata, Return, Forget
<1>9. ~Crash /\ ~Lose
  BY <1>0 DEF Records, Crash, Forget, Lose
<1> QED
  BY <1>2, <1>3, <1>4, <1>5, <1>6, <1>7, <1>8, <1>9 DEF Next

\* A record that appears is that of the scan which saves it.
LEMMA StepRecords ==
  ASSUME TypeInv, Quiet, [Next]_vars, ~damaged', meta' \in Meta, meta' # meta
  PROVE  /\ Records /\ meta'.listed = listed
         /\ meta'.kept = {s \in listed : restored[s] # NoFile}
<1>1. CutMeta \notin Meta /\ NoFile \notin Meta
  BY CacheAssumption DEF CutMeta, Cut, Meta
<1>2. SaveSiteMetadata
  <2>1. ~Tear /\ ~Lose
    BY <1>1 DEF Tear, Lose
  <2> QED
    BY <2>1 DEF Next, vars, disk, Begin, PrimeHit, PrimeDownload, PrimeStored, PrimeFails, OpenMeta,
            StartCrawl, Replay, ReplayDone, Analyse, DownloadFails, Stored, ProbeCached,
            ProbeNetwork, ProbeFails, MapStored, SourceStored, CrawlEnds, Abort, Crash
<1>3. meta' = Record
  BY <1>2 DEF SaveSiteMetadata, Outcome
<1> QED
  BY <1>2, <1>3 DEF Record, SaveSiteMetadata, Quiet, Records

\* Early and Quiet are about the memory of a scan alone, whatever the files.
LEMMA StepEarly ==
  ASSUME TypeInv, Stage, Early, Quiet, [Next]_vars
  PROVE  Early' /\ Quiet'
<1> USE HeldFacts
<1>1. CASE Forget
  BY <1>1 DEF Forget, Early, Quiet
<1>2. CASE UNCHANGED vars \/ Tear \/ Lose
  BY <1>2 DEF vars, Tear, Lose, memory, crawled, Early, Quiet, Writable
<1>3. CASE (\E m \in Modes : Begin(m)) \/ PrimeHit \/ PrimeDownload \/ PrimeStored
  BY <1>3 DEF Begin, PrimeHit, PrimeDownload, PrimeStored, memory, crawled, Early, Quiet
<1>4. CASE phase' \in {"crawl", "replay"}
  BY <1>4 DEF Early, Quiet
<1>5. CASE CrawlEnds
  <2>1. \A q \in Script : task[q] \notin {"storing", "restoring"}
    BY <1>5, HeldFacts DEF CrawlEnds
  <2>2. CASE Return(FALSE)
    BY <1>1, <2>2 DEF Return
  <2>3. CASE Writable /\ phase' = "save" /\ UNCHANGED <<memory, result>>
    BY <2>1, <2>3 DEF memory, crawled, Early, Quiet, Writable
  <2> QED
    BY <1>5, <2>2, <2>3 DEF CrawlEnds
<1>6. CASE Abort
  BY <1>6 DEF Abort, crawled, Early, Quiet, Writable
<1> QED
  BY <1>1, <1>2, <1>3, <1>4, <1>5, <1>6
  DEF Next, PrimeFails, OpenMeta, StartCrawl, Replay, ReplayDone, Analyse, DownloadFails,
      Stored, ProbeCached, ProbeNetwork, ProbeFails, MapStored, SourceStored, SaveSiteMetadata,
      Crash, Return

=============================================================================
