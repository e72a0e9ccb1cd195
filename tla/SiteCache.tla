----------------------------- MODULE SiteCache ------------------------------
(***************************************************************************)
(* What the scans of one scope leave on disk, and what the next scan makes *)
(* of it: src/src/extractor/pipeline.ts over the file store of             *)
(* src/src/fetcher/fs-storage.ts.  The scans follow one another, each may  *)
(* crash at any moment, and writeFile is not atomic, so a crash in a write *)
(* leaves the old file, an empty one, or the beginning of the new one.     *)
(* Files may vanish between scans: the cache is in a temporary directory.  *)
(* The site does not change.                                               *)
(*                                                                         *)
(* How pages are found is the business of Discovery.tla: here a page leads *)
(* to the scripts it names and nothing redirects.  Every map carries the   *)
(* text of one source (sourcesContent).                                    *)
(***************************************************************************)
EXTENDS Integers, FiniteSets

CONSTANTS
  Script, Entry,     \* the scripts of the site and the page a scan starts from
  Links,             \* Links[p]: the scripts page p leads to
  SlotOf,            \* jsCacheFilename, and the slot of the entry page
  Maps,              \* the scripts a source map is served for
  Foreign,           \* the scripts on another origin: their relativePath is ''
  PathOf,            \* where the source in the map of a script is restored to
  Modes,             \* of "full", "writeonly" (noCache) and "readonly"
  MaxScans,          \* bound: scans of the scope
  MaxMishaps,        \* bound: failures, aborts, crashes and vanished files
  NoFile             \* absent or empty: the stores take one for the other

Page == Script \cup {Entry}
Slot == {SlotOf[p] : p \in Page}
Path == {PathOf[s] : s \in Script}

\* What a file or a variable holds: what was served for a page (or restored
\* from the map of a script), all of it or only the beginning.
Content == [of : Page, whole : BOOLEAN]
Whole(p) == [of |-> p, whole |-> TRUE]
Cut(p) == [of |-> p, whole |-> FALSE]
Held == Content \cup {NoFile}

\* meta.json as saveSiteMetadata writes it: the scripts and which of them have
\* a sourceMapUrl and restoredSources.  The rest is not in the file, and says
\* what the writing run was: its sources, whether it was aborted, and whether
\* every page could be had.
Meta == [listed : SUBSET Script, mapped : SUBSET Script, kept : SUBSET Script,
         sources : [Script -> Held], aborted : BOOLEAN, exact : BOOLEAN]
CutMeta == Cut(Entry)

Report == [replayed : BOOLEAN, aborted : BOOLEAN, exact : BOOLEAN,
           listed : SUBSET Script, sources : [Script -> Held]]

ASSUME CacheAssumption ==
  /\ Entry \notin Script
  /\ Links \in [Page -> SUBSET Script]
  /\ DOMAIN SlotOf = Page
  /\ \A s \in Script : SlotOf[s] # SlotOf[Entry]
  /\ Maps \subseteq Script /\ Foreign \subseteq Script
  /\ DOMAIN PathOf = Script
  /\ Modes \subseteq {"full", "writeonly", "readonly"}
  /\ MaxScans \in Nat /\ MaxMishaps \in Nat
  /\ NoFile \notin Content \cup Meta \cup Report

VARIABLES
  \* on disk
  page,       \* page[slot]: html/web.html and the files under js/
  mapFile,    \* mapFile[s]: its file under source_map/
  source,     \* source[path]: the files under sources/
  meta,       \* meta.json
  \* in the memory of the running scan
  phase,      \* where run() is
  mode,       \* what the store of the scan may do
  aborted,
  task,       \* task[p]: where processUrl of p is
  body,       \* body[s]: the content processUrl of s is storing
  listed,     \* jsEntries
  mapped,     \* knowledge's jsHasSourceMap, sourceMapByJs
  restored,   \* restored[s]: the text reported for the source of s
  toReplay,   \* the rest of metadata.urls
  recorded,   \* the metadata read, NoFile before
  \* of the model only
  exact,      \* everything this scan asked for was had
  result,     \* what the last scan reported, NoFile if it reported nothing
  damaged,    \* some write failed, or a crash left a file cut short
  lost,       \* some file vanished
  cutOff,     \* scans without the cache that crashed since meta.json was written
  scans, mishaps

disk == <<page, mapFile, source, meta>>
crawled == <<task, body, listed, mapped, restored, toReplay, recorded>>
memory == <<mode, aborted, exact, crawled>>
history == <<damaged, lost, cutOff, scans, mishaps>>
vars == <<disk, phase, memory, result, history>>

Readable == mode # "writeonly"
Writable == mode # "readonly"

Nothing == [s \in Script |-> NoFile]

TypeOK ==
  /\ page \in [Slot -> Held] /\ mapFile \in [Script -> Held]
  /\ source \in [Path -> Held] /\ meta \in Meta \cup {CutMeta, NoFile}
  /\ phase \in {"off", "prime", "open", "replay", "crawl", "save"}
  /\ mode \in Modes \cup {"none"} /\ aborted \in BOOLEAN
  /\ task \in [Page -> {"new", "queued", "storing", "probing", "mapping",
                        "restoring", "done"}]
  /\ body \in [Script -> Held]
  /\ listed \subseteq Script /\ mapped \subseteq Script /\ toReplay \subseteq Script
  /\ restored \in [Script -> Held] /\ exact \in BOOLEAN
  /\ recorded \in Meta \cup {NoFile}
  /\ result \in Report \cup {NoFile}
  /\ damaged \in BOOLEAN /\ lost \in BOOLEAN /\ cutOff \in Nat
  /\ scans \in 0..MaxScans /\ mishaps \in 0..MaxMishaps

Init ==
  /\ page = [k \in Slot |-> NoFile] /\ mapFile = Nothing
  /\ source = [x \in Path |-> NoFile] /\ meta = NoFile
  /\ phase = "off" /\ result = NoFile
  /\ mode = "none" /\ aborted = FALSE /\ exact = TRUE
  /\ task = [p \in Page |-> "new"] /\ body = Nothing
  /\ listed = {} /\ mapped = {} /\ restored = Nothing /\ toReplay = {}
  /\ recorded = NoFile
  /\ damaged = FALSE /\ lost = FALSE /\ cutOff = 0 /\ scans = 0 /\ mishaps = 0

-----------------------------------------------------------------------------
Mishap == mishaps < MaxMishaps /\ mishaps' = mishaps + 1

\* The end of writeFileAt: the file is whole, or the write failed, which is
\* swallowed, and the file stays as it was left.
Written(old, new) == {old, new}
Outcome(f, new) ==
  IF f = new THEN UNCHANGED <<damaged, mishaps>> ELSE Mishap /\ damaged' = TRUE

\* The memory of a scan goes with it.
Forget ==
  /\ phase' = "off"
  /\ mode' = "none" /\ aborted' = FALSE /\ exact' = TRUE
  /\ task' = [p \in Page |-> "new"] /\ body' = Nothing
  /\ listed' = {} /\ mapped' = {} /\ restored' = Nothing /\ toReplay' = {}
  /\ recorded' = NoFile

Return(replayed) ==
  /\ Forget
  /\ result' = [replayed |-> replayed, listed |-> listed, sources |-> restored,
                aborted |-> IF replayed THEN recorded.aborted ELSE aborted,
                exact |-> exact /\ ~aborted]

-----------------------------------------------------------------------------
\* A scan of the scope begins, with the store its options give it.
Begin(m) ==
  /\ phase = "off"
  /\ scans < MaxScans
  /\ scans' = scans + 1
  /\ phase' = "prime" /\ mode' = m /\ result' = NoFile
  /\ UNCHANGED <<disk, aborted, exact, crawled, damaged, lost, cutOff, mishaps>>

\* primeEntryPage: the page is there already ...
PrimeHit ==
  /\ phase = "prime" /\ task[Entry] = "new"
  /\ Readable /\ page[SlotOf[Entry]] # NoFile
  /\ phase' = "open"
  /\ UNCHANGED <<disk, memory, result, history>>

\* ... or it is downloaded and stored ...
PrimeDownload ==
  /\ phase = "prime" /\ task[Entry] = "new"
  /\ ~(Readable /\ page[SlotOf[Entry]] # NoFile)
  /\ IF Writable THEN task' = [task EXCEPT ![Entry] = "storing"] /\ UNCHANGED phase
                 ELSE phase' = "open" /\ UNCHANGED task
  /\ UNCHANGED <<disk, mode, aborted, body, listed, mapped, restored, toReplay, recorded,
                 exact, result, history>>

PrimeStored ==
  /\ phase = "prime" /\ task[Entry] = "storing"
  /\ \E f \in Written(page[SlotOf[Entry]], Whole(Entry)) :
       /\ page' = [page EXCEPT ![SlotOf[Entry]] = f]
       /\ Outcome(f, Whole(Entry))
  /\ task' = [task EXCEPT ![Entry] = "new"]
  /\ phase' = "open"
  /\ UNCHANGED <<mapFile, source, meta, mode, aborted, body, listed, mapped, restored,
                 toReplay, recorded, exact, result, lost, cutOff, scans>>

\* ... or cannot be had, or the download is aborted: run() rejects.
PrimeFails ==
  /\ phase = "prime" /\ task[Entry] = "new"
  /\ ~(Readable /\ page[SlotOf[Entry]] # NoFile)
  /\ Forget /\ Mishap
  /\ UNCHANGED <<disk, result, damaged, lost, cutOff, scans>>

-----------------------------------------------------------------------------
\* tryRestoreFromMetadata: a record that lists something replaces the crawl.
OpenMeta ==
  /\ phase = "open"
  /\ Readable /\ meta \in Meta /\ meta.listed # {}
  /\ phase' = "replay"
  /\ recorded' = meta
  /\ toReplay' = meta.listed
  /\ exact' = meta.exact
  /\ UNCHANGED <<disk, mode, aborted, task, body, listed, mapped, restored, result, history>>

\* No record, or none that JSON.parse takes: run() enqueues the start URL.
StartCrawl ==
  /\ phase = "open"
  /\ ~(Readable /\ meta \in Meta /\ meta.listed # {})
  /\ phase' = "crawl"
  /\ task' = [task EXCEPT ![Entry] = "queued"]
  /\ UNCHANGED <<disk, mode, aborted, body, listed, mapped, restored, toReplay, recorded, exact,
                 result, history>>

Restoring == {s \in Script : task[s] = "restoring"}

\* Bug: the sources are counted as restored and not written.
RestoreUnwritten(s) ==
  /\ task' = [task EXCEPT ![s] = "done"]
  /\ restored' = [restored EXCEPT ![s] = Whole(s)]

\* restoreSources once the map is parsed: the text is written if it may be.
Restore(s) ==
  IF Writable
  THEN task' = [task EXCEPT ![s] = "restoring"] /\ UNCHANGED restored
  ELSE /\ task' = [task EXCEPT ![s] = "done"]
       /\ restored' = [restored EXCEPT ![s] = Whole(s)]

\* Bug: what meta.json calls restored is taken to be there.
SourcesRecorded(s) == s \in recorded.kept

\* The sources of a replayed script: from disk when they are present, else
\* from its map when that is; a map that does not parse gives nothing.
SourcesPresent(s) == s \in recorded.kept /\ source[PathOf[s]] # NoFile
MapReadable(s) == Readable /\ s \notin Foreign /\ mapFile[s] # NoFile

Replay(s) ==
  /\ phase = "replay" /\ s \in toReplay /\ Restoring = {}
  /\ toReplay' = toReplay \ {s}
  /\ listed' = listed \cup {s}
  /\ mapped' = IF s \in recorded.mapped THEN mapped \cup {s} ELSE mapped
  /\ \/ /\ s \in recorded.mapped /\ SourcesPresent(s)
        /\ restored' = [restored EXCEPT ![s] = source[PathOf[s]]]
        /\ UNCHANGED task
     \/ /\ s \in recorded.mapped /\ ~SourcesPresent(s)
        /\ MapReadable(s) /\ mapFile[s].whole
        /\ Restore(s)
     \/ /\ s \in recorded.mapped =>
             ~SourcesPresent(s) /\ ~(MapReadable(s) /\ mapFile[s].whole)
        /\ UNCHANGED <<task, restored>>
  /\ UNCHANGED <<disk, phase, mode, aborted, body, exact, recorded, result,
                 history>>

ReplayDone ==
  /\ phase = "replay" /\ toReplay = {} /\ Restoring = {}
  /\ UNCHANGED <<disk, history>>
  /\ Return(TRUE)

-----------------------------------------------------------------------------
\* loadFromCache: a file of the slot is a hit, whosever it is.
Cached(p) == Readable /\ page[SlotOf[p]] # NoFile

\* What the plugins find in a body; half a body names some of it.
Finds(b) == IF b.whole THEN {Links[b.of]} ELSE SUBSET Links[b.of]

\* processUrl up to the write of the script: obtain the body, let the plugins
\* at it, enqueue what they find.  The entry page is stored no second time.
Analyse(p) ==
  /\ phase = "crawl" /\ task[p] = "queued"
  /\ LET b == IF Cached(p) THEN page[SlotOf[p]] ELSE Whole(p)
         next == IF p = Entry THEN "done" ELSE IF Writable THEN "storing" ELSE "probing"
     IN /\ \E found \in Finds(b) :
             task' = [q \in Page |->
                        IF q = p THEN next
                        ELSE IF q \in found /\ task[q] = "new" THEN "queued"
                        ELSE task[q]]
        /\ body' = IF next = "storing" THEN [body EXCEPT ![p] = b] ELSE body
        /\ listed' = IF next = "probing" THEN listed \cup {p} ELSE listed
  /\ UNCHANGED <<disk, phase, mode, aborted, mapped, restored, toReplay, recorded, exact, result,
                 history>>

\* download() gives nothing: a transport failure, a bad status, an abort.
DownloadFails(p) ==
  /\ phase = "crawl" /\ task[p] = "queued" /\ ~Cached(p)
  /\ task' = [task EXCEPT ![p] = "done"]
  /\ exact' = FALSE /\ Mishap
  /\ UNCHANGED <<disk, phase, mode, aborted, body, listed, mapped, restored, toReplay, recorded,
                 result, damaged, lost, cutOff, scans>>

\* The body is stored, one that came from the slot too, and the script listed.
Stored(s) ==
  /\ phase = "crawl" /\ task[s] = "storing"
  /\ \E f \in Written(page[SlotOf[s]], body[s]) :
       /\ page' = [page EXCEPT ![SlotOf[s]] = f]
       /\ Outcome(f, body[s])
  /\ task' = [task EXCEPT ![s] = "probing"]
  /\ body' = [body EXCEPT ![s] = NoFile]
  /\ listed' = listed \cup {s}
  /\ UNCHANGED <<mapFile, source, meta, phase, mode, aborted, mapped, restored, toReplay, recorded,
                 exact, result, lost, cutOff, scans>>

\* probeSourceMap with a cached map; one that does not parse ends the matter.
ProbeCached(s) ==
  /\ phase = "crawl" /\ task[s] = "probing" /\ MapReadable(s)
  /\ mapped' = mapped \cup {s}
  /\ IF mapFile[s].whole THEN Restore(s)
     ELSE task' = [task EXCEPT ![s] = "done"] /\ UNCHANGED restored
  /\ UNCHANGED <<disk, phase, mode, aborted, body, listed, toReplay, recorded, exact, result, history>>

\* probeSourceMap by HEAD and GET.
ProbeNetwork(s) ==
  /\ phase = "crawl" /\ task[s] = "probing" /\ ~MapReadable(s) /\ s \in Maps
  /\ mapped' = mapped \cup {s}
  /\ IF Writable THEN task' = [task EXCEPT ![s] = "mapping"] /\ UNCHANGED restored
                 ELSE Restore(s)
  /\ UNCHANGED <<disk, phase, mode, aborted, body, listed, toReplay, recorded, exact, result, history>>

\* There is no map, or the request for it fails.
ProbeFails(s) ==
  /\ phase = "crawl" /\ task[s] = "probing" /\ ~MapReadable(s)
  /\ task' = [task EXCEPT ![s] = "done"]
  /\ IF s \in Maps THEN exact' = FALSE /\ Mishap ELSE UNCHANGED <<exact, mishaps>>
  /\ UNCHANGED <<disk, phase, mode, aborted, body, listed, mapped, restored, toReplay, recorded,
                 result, damaged, lost, cutOff, scans>>

\* The map is stored; the maps of other origins share one file nobody reads.
MapStored(s) ==
  /\ phase = "crawl" /\ task[s] = "mapping"
  /\ IF s \in Foreign THEN UNCHANGED <<mapFile, damaged, mishaps>>
     ELSE \E f \in Written(mapFile[s], Whole(s)) :
            mapFile' = [mapFile EXCEPT ![s] = f] /\ Outcome(f, Whole(s))
  /\ Restore(s)
  /\ UNCHANGED <<page, source, meta, phase, mode, aborted, body, listed, mapped, toReplay, recorded,
                 exact, result, lost, cutOff, scans>>

\* The write of restoreSources ends, in a crawl or in a replay.
SourceStored(s) ==
  /\ task[s] = "restoring" /\ phase \in {"crawl", "replay"}
  /\ \E f \in Written(source[PathOf[s]], Whole(s)) :
       source' = [source EXCEPT ![PathOf[s]] = f] /\ Outcome(f, Whole(s))
  /\ restored' = [restored EXCEPT ![s] = Whole(s)]
  /\ task' = [task EXCEPT ![s] = "done"]
  /\ UNCHANGED <<page, mapFile, meta, phase, mode, aborted, body, listed, mapped, toReplay, recorded,
                 exact, result, lost, cutOff, scans>>

\* Bug: the loop returns when nothing is running, whatever is queued.
CrawlEndsEarly ==
  /\ phase = "crawl"
  /\ \A p \in Page : task[p] \in {"new", "queued", "done"}
  /\ IF Writable THEN phase' = "save" /\ UNCHANGED <<memory, result>> ELSE Return(FALSE)
  /\ UNCHANGED <<disk, history>>

\* The discovery loop returns when nothing is queued, and after an abort as
\* soon as what it has started is through; the metadata is saved either way.
CrawlEnds ==
  /\ phase = "crawl"
  /\ \A p \in Page : task[p] \in {"new", "queued", "done"}
  /\ aborted \/ \A p \in Page : task[p] # "queued"
  /\ IF Writable THEN phase' = "save" /\ UNCHANGED <<memory, result>> ELSE Return(FALSE)
  /\ UNCHANGED <<disk, history>>

\* Bug: the entry page is recorded among the scripts.
RecordWithPage ==
  [listed |-> listed \cup {Entry}, kept |-> {}, mapped |-> listed \cap mapped,
   sources |-> restored, aborted |-> aborted, exact |-> exact]

\* saveSiteMetadata's record.  A script of another origin gets no sourceMapUrl.
Record ==
  LET kept == {s \in listed : restored[s] # NoFile} IN
  [listed |-> listed, kept |-> kept,
   mapped |-> (listed \cap (mapped \cup kept)) \ Foreign,
   sources |-> restored, aborted |-> aborted, exact |-> exact /\ ~aborted]

SaveSiteMetadata ==
  /\ phase = "save"
  /\ \E f \in Written(meta, Record) : meta' = f /\ Outcome(f, Record)
  /\ cutOff' = 0
  /\ UNCHANGED <<page, mapFile, source, lost, scans>>
  /\ Return(FALSE)

-----------------------------------------------------------------------------
\* The signal is looked at by downloads and by the discovery loop.
Abort ==
  /\ phase \in {"prime", "crawl"} /\ ~aborted
  /\ aborted' = TRUE /\ Mishap
  /\ UNCHANGED <<disk, phase, mode, crawled, exact, result, damaged, lost, cutOff, scans>>

\* What is on disk while a file is being written: it was emptied, and then
\* holds the beginning of its new content.
Tear ==
  /\ \/ \E p \in Page :
          /\ task[p] = "storing"
          /\ LET new == IF p = Entry THEN Entry ELSE body[p].of IN
             page' = [page EXCEPT ![SlotOf[p]] = IF @ = NoFile THEN Cut(new) ELSE NoFile]
          /\ UNCHANGED <<mapFile, source, meta>>
     \/ \E s \in Script \ Foreign :
          /\ task[s] = "mapping"
          /\ mapFile' = [mapFile EXCEPT ![s] = IF @ = NoFile THEN Cut(s) ELSE NoFile]
          /\ UNCHANGED <<page, source, meta>>
     \/ \E s \in Restoring :
          /\ source' = [source EXCEPT ![PathOf[s]] = IF @ = NoFile THEN Cut(s) ELSE NoFile]
          /\ UNCHANGED <<page, mapFile, meta>>
     \/ /\ phase = "save"
        /\ meta' = IF meta = NoFile THEN CutMeta ELSE NoFile
        /\ UNCHANGED <<page, mapFile, source>>
  /\ phase # "off"
  /\ UNCHANGED <<phase, memory, result, history>>

IsCut(f) == f # NoFile /\ ~f.whole
SomeFileCut ==
  \/ \E k \in Slot : IsCut(page[k])
  \/ \E s \in Script : IsCut(mapFile[s])
  \/ \E x \in Path : IsCut(source[x])
  \/ meta = CutMeta

\* The process dies; what it was writing stays as it is.
Crash ==
  /\ phase # "off"
  /\ Forget /\ Mishap
  /\ damaged' = (damaged \/ SomeFileCut)
  /\ cutOff' = IF mode = "writeonly" THEN cutOff + 1 ELSE cutOff
  /\ UNCHANGED <<disk, result, lost, scans>>

\* A file of the scope is deleted between two scans.
Lose ==
  /\ phase = "off" /\ Mishap
  /\ lost' = TRUE
  /\ \/ /\ \E k \in Slot : page[k] # NoFile /\ page' = [page EXCEPT ![k] = NoFile]
        /\ UNCHANGED <<mapFile, source, meta>>
     \/ /\ \E s \in Script : mapFile[s] # NoFile /\ mapFile' = [mapFile EXCEPT ![s] = NoFile]
        /\ UNCHANGED <<page, source, meta>>
     \/ /\ \E x \in Path : source[x] # NoFile /\ source' = [source EXCEPT ![x] = NoFile]
        /\ UNCHANGED <<page, mapFile, meta>>
     \/ /\ meta # NoFile /\ meta' = NoFile
        /\ UNCHANGED <<page, mapFile, source>>
  /\ UNCHANGED <<phase, memory, result, damaged, cutOff, scans>>

Next ==
  \/ \E m \in Modes : Begin(m)
  \/ PrimeHit \/ PrimeDownload \/ PrimeStored \/ PrimeFails
  \/ OpenMeta \/ StartCrawl
  \/ \E s \in Script : Replay(s)
  \/ ReplayDone
  \/ \E p \in Page : Analyse(p) \/ DownloadFails(p)
  \/ \E s \in Script : Stored(s) \/ ProbeCached(s) \/ ProbeNetwork(s) \/ ProbeFails(s)
                       \/ MapStored(s) \/ SourceStored(s)
  \/ CrawlEnds \/ SaveSiteMetadata
  \/ Abort \/ Tear \/ Crash \/ Lose

Spec == Init /\ [][Next]_vars

-----------------------------------------------------------------------------
\* What a scan with an empty store and no mishap lists: the least set with the
\* scripts the entry page leads to and those its members lead to.
Closed(S) == Links[Entry] \subseteq S /\ \A s \in S : Links[s] \subseteq S
Reachable == {s \in Script : \A S \in SUBSET Script : Closed(S) => s \in S}

\* The cache only saves time (pipeline.ts:481, 1594): whatever earlier scans
\* did in the scope, crashed or not, and whatever files are gone, a scan that
\* missed nothing lists the scripts a scan of an empty store lists.
WarmAsCold ==
  result \in Report /\ result.exact /\ ~damaged => result.listed = Reachable

\* Nor are sources lost: as long as at most one noCache scan was cut off since
\* the record was written, either a source file or the map it comes from is
\* intact, so a replay reports the sources of every script of the origin, as
\* the crawl did.  Two are too many: one can leave the source empty, the next
\* the map.
SourcesKept ==
  result \in Report /\ result.exact /\ ~damaged /\ ~lost /\ cutOff <= 1 =>
    \A s \in Script :
      ~(result.replayed /\ s \in Foreign) =>
        result.sources[s] = IF s \in Maps \cap Reachable THEN Whole(s) ELSE NoFile

\* meta.json comes last: when it is written, the scripts it lists and the
\* sources it calls restored are on disk.
MetaBacked ==
  [][meta' # meta /\ meta' \in Meta /\ ~damaged' =>
       /\ \A s \in meta'.listed : page[SlotOf[s]] # NoFile
       /\ \A s \in meta'.kept : source[PathOf[s]] # NoFile]_vars

\* pipeline.ts:220: what is replayed is "a previous complete run".
ReplayedComplete ==
  result \in Report /\ result.replayed => ~result.aborted

\* pipeline.ts:1594: "Replaying the recorded list guarantees the same result
\* as the run that wrote it".
ReplayedAsWritten ==
  result \in Report /\ result.replayed /\ ~damaged /\ ~lost =>
    result.listed = meta.listed /\ result.sources = meta.sources
=============================================================================
