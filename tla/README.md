# jsdj in TLA+

jsdj finds every JavaScript file of a web site: it starts at one page, reads scripts,
manifests and runtime tables with a set of plugins, follows what they find, restores the
sources behind source maps, and keeps what it downloaded in a cache that makes the next
scan fast.  This directory models the parts of it that run concurrently or remember
something, checks them with TLC on small instances, and proves the most important facts
with TLAPS for every instance.

Paths below are those of the repository; `src/src` is the implementation.

## 1. The system

### Components

| component | code | state it keeps | operations |
|---|---|---|---|
| semaphore | `fetcher/semaphore.ts` | free slots, queue of waiters, a `released` flag per grant, abort listeners | `acquire`, `run`, release, `onAbort` |
| fetcher and Node client | `fetcher/fetcher.ts`, `fetcher/node-client.ts` | attempts, timers, `closed`, `sidecar`, `sidecarLoad` | `fetchWithStatus`, `fetchWithHeaders`, `fetchWithStatusHead`, `fetch`, `execute`, `close`, `setConcurrency` |
| forwarder | `fetcher/tls-sidecar.ts` | a process-wide promise `cached` | `loadTlsSidecar`, `stop` |
| pipeline | `extractor/pipeline.ts` | queue, contexts, fragments, entries, page budget, base and scope | `run`, `primeEntryPage`, `discoveryLoop`, `processUrl`, `processResults`, `resolveFragment`, `probeSourceMap`, `restoreSources`, `saveSiteMetadata`, `tryRestoreFromMetadata` |
| knowledge base | `extractor/knowledge.ts` | seen URLs and fragments, prefixes, public paths, known paths, maps | claim, add, snapshot |
| storage | `fetcher/storage.ts`, `fs-storage.ts`, `memory-storage.ts` | files of a scope: `html`, `js`, `source_map`, `sources`, `meta.json` | `read`, `write`, `exists`, metadata, listing |
| scan | `scan.ts`, `scan-options.ts` | none | validate, assemble, run, close |
| source maps | `sourcemap/*` | none (pure) | parse, VLQ, reconstruct, clean paths |
| plugin registry | `extractor/registry.ts` | a list and an index by name | `register`, `registerAll`, `remove`, `select`, `exclude` |
| plugins | `plugins/*` | the webpack plugin: hashes, prefixes and ids met so far; the others none | `analyze` |
| cookies | `fetcher/cookies.ts` | the jar | set, match, expire, evict |
| URL helpers, sniffing, decoding, headers, proxy | `extractor/url.ts`, `extractor/decode.ts`, `fetcher/body.ts` and others | none (pure) | |
| command line, rendering | `cli/*`, `extractor/output.ts` | the arguments parsed so far | `parseArgs`, `main` |
| scan service | `examples/05-http-service` (an example) | jobs, queue, running counter | submit, cancel, pump, settle, sweep, shutdown |

`PROJECT.json` says per component what is modelled and what is not.

### How the parts interact

`scan` builds a pipeline, a fetcher and a store, calls `pipeline.run(url, signal)` and
closes the fetcher in a `finally`.  The pipeline is one JavaScript object: between two
`await`s it runs undisturbed, and at every `await` any of the tasks started by
`discoveryLoop` may go on.  A task calls the fetcher (a promise), the store (a promise)
and the plugins, and writes to the knowledge base and to the queue the others read.  The
fetcher's calls share a semaphore per client; the clients of a process share one
forwarder, by way of a module variable.  Scans of one site share the files of its scope.
The scan service runs several at once in one process, over one cache.
The caller's `AbortSignal` reaches the loop, the fetcher's backoff, the semaphore's queue
and the request in flight, each at a moment of its own.

### What is hard about it

* Tasks of a batch take effect in the order their answers arrive, and check-then-claim
  sequences stretch over awaits (`enqueue`, the page budget, fragment claims).
* The loop must decide that it is done: queue, tasks and fragments all empty, at once.
* A slot is handed over to a waiter at the very moment its signal fires.
* A call is retried, aborted, timed out, or closed under its feet while it waits for a
  slot, a forwarder, an answer or a timer.
* A forwarder outlives the scan that started it, or is stopped under another scan.
* A scan crashes in the middle of a write, or between the artifacts and `meta.json`, and
  the next scan makes what it can of the files.
* Two scans of one scope write the same files, and one reads what the other is writing.
* A job is cancelled while its result arrives, its slot is given back, or it is swept.
* Chunk ids and their hashes stand in different scripts, analysed in the order they arrive.
* Scanners skip what only looks like a closing tag or brace, VLQ values fill 32-bit words,
  and paths are cut to a length: boundary cases of pure functions.

The hazards of `PROJECT.json` list these at their lines, with the properties that cover
them or why none does.

### What makes each component correct

* semaphore: slots are conserved, none idle while a call waits, first come first served,
  every call answered;
* discovery loop: a URL is processed once and no claim is lost, the crawl is closed under
  what was found when it is declared complete, fragments wait for everything else, an
  abort starts nothing, the loop ends, the page budget pays for distinct pages;
* calls and forwarder: nothing is sent after an abort, the bound on requests holds through
  retries, no forwarder is left behind, every call settles;
* cache: a scan reports the same whatever is in the cache; the metadata comes last; two
  scans at once leave nothing torn but, if their saves overlap, the metadata itself;
* exchange: a request carries no stale cookie and lacks none that is due, in whatever
  order answers came, and a body is cut at its limit and unpacked when it is whole;
* source maps: mappings are read as the format says, two sources of a map overwrite one
  another in three known cases only, and no path leaves the directory of sources;
* plugins: a chunk keeps the first hash it was seen with, a page's links cannot flood the
  page queue, what a page embeds is cut out whole, routes are asked for where the site is;
* registry and command line: list and index agree, and the last word about the cache counts;
* scan service: slots are accounted for, a cancel reaches the scan, an outcome is final,
  every job ends.

## 2. Plan

| step | modules | about | state |
|---|---|---|---|
| 1 | `SlotPool`, `Semaphore`, `Semaphore_proofs` | bounded requests, abstract pool | done |
| 2 | `Worklist`, `Discovery`, `DiscoveryTwice`, `Discovery_proofs` | the loop, abstract worklist, two scans compared | done |
| 3 | `Fetch`, `Fetch_proofs` | calls, aborts, retries, forwarder; a client implements `SlotPool` | done |
| 4 | `SiteCache`, `SiteCache_proofs` | scans of a scope, crashes, what a replay reports | done |
| 5 | `SourceMaps`, `SourceMaps_proofs` | restoring sources: decoding, reconstruction, paths | done |
| 6 | `Exchange`; `Findings`, `Webpack`, `Entries`, `Dispatch`, `Embedded`, `NextJs`; `Analysis` composes them; `Analysis_proofs` | what a scan does with an answer | done for these plugins |
| 7 | `SharedScope`: two `SiteCache` scans over one set of files | interference through the cache | done |
| 8 | `Registry`, `ScanCall`, `CommandLine`, `JobService`; `FrontEnds` composes them with step 7; `FrontEnds_proofs`, `Induction` | the ways into a scan | done |
| 9 | module federation, the other framework plugins, pattern plugins; `url.ts` and `decode.ts` | functions | open |
| 10 | `setConcurrency` on a client in use | extension of `Fetch` | open; no caller does it |

Every safety property of the passing runs is a theorem; what steps 9 and 10 add would come
with its own.

## 3. The modules

### Semaphore

`call[c]` is where a caller of `acquire`/`run` stands, `available` and `waiters` are the
fields of the class.  `AcquireAborted`, `AcquireFree` and `AcquireWait` are the three ways
out of `acquire`; `Release` hands the slot to the first waiter or frees it, `ReleaseAgain`
is the `released` flag; `Abort` fires a signal and `OnAbort` runs one of its listeners,
which JavaScript runs one after another, so other events come before or after but not
between.  `SlotPool` is what the bound promises without saying how: a caller asks, is
granted a slot while fewer than `Limit` are out, gives it back or on to another, or is
turned away.

### Discovery

A scan with a cold cache.  URLs are records (origin, directory, file), so that joining,
rebasing of loopback addresses and the `.map` sibling are what the code does to the parts
and not string work.  A site says for each URL how it may answer, where the answer comes
from in the end, its kind, and what the plugins find in it, in order; each finding is one
of the shapes `processResults` handles (URL, fragment, page, manifest, inline script,
request, public path, prepend URL).  What a regular expression finds in a text is thus a
parameter.

`Prime*` is `primeEntryPage`; `StartBatch`, `ResolveFragments`, `Fallback`, `Finish` and
`StopOnAbort` are the turns of `discoveryLoop`; a task runs through `LoadCached` or
`Download*`, the `Fold*` actions (one per finding, in order), `Stored` and `MapSettled`.
`turn` holds the task that is between two awaits: nothing else of the scan moves while it
is set.  The queue is a set since claims keep its items apart.  `Worklist` is the abstract
specification: jobs are taken up once, finished once, and the list is complete only when
nothing is pending.  `DiscoveryTwice` is two scans of one site side by side, without
aborts, to compare what they report.

Left out: `data:` and combo-loader addresses; the inputs of plugins other than the body;
script slots of the cache (`SiteCache`), so a read-only store behaves like none; failing
writes of an injected store.

### Fetch

A call of `fetchWithStatus` (retrying) or of its single-attempt siblings: `Begin*` (the
checks of signal and `closed`), the wait for a slot, `Enter`, the wait for `ensureSidecar`
(`loading`), `Send` or `GiveUp`, `Answered`, `Broken` or `CutOff`.  `AttemptFails` counts
and backs off.  `forwarder` is the module variable of `tls-sidecar.ts`; `Close` is what
`scanWithPipeline` does when the calls of the scan are settled.  First come first served
is `Semaphore`'s; here any waiting call may enter.  `Packaged = FALSE` is a process
without the forwarder package.

### SiteCache

Scans of one scope one after another.  A scan is `Begin`, `Prime*`, then either `OpenMeta`
and `Replay` of the recorded scripts, or `StartCrawl` and per page `Analyse`, `Stored`,
`Probe*`, `MapStored`, `SourceStored`, then `CrawlEnds` and `SaveSiteMetadata`.  Its mode is
what the options leave of the store: full, no reads (`noCache`), no writes.  A page is
processed from the slot if there is something in it, which need not be its own.  While
`writeFile` runs, `Tear` shows the file empty or cut short; `Crash` ends the scan at any
moment and leaves what is there; a write may fail, which the store swallows; `Lose`
deletes a file between scans.  `damaged` records that a write failed or that a crash left
a cut file, `cutOff` how many scans without cache reads crashed since the metadata was
written.  Contents are "the whole of page p" or "the beginning of page p".  `recorded` is the
metadata a replay read and works from.  A replay's look at the files of one script is one
step.  The site is
constant, every map has one source with its text, pages do not redirect, the tasks of a
crawl are not grouped into batches, and the `outputDir` mirror is left out.

### SharedScope

Two instances of `SiteCache` with a memory each and one set of files, as the service and two
processes have it; `ScopeAssumption` says of the constants what `SiteCache` does.  Nothing in
the code keeps them apart: while both run, one may read, analyse and store back a script the
other has half written, so neither `WarmAsCold` nor the wholeness of script slots is claimed.

`SiteCache` takes a write to end with the whole file in place, which needs that nobody else
writes the file.  Two scans write the same bytes to a map or to a source of its own, but their
records differ, and `fs.writeFile` (`fs-storage.ts:145`) empties a file and then writes from
its start: of two saves at once the shorter record may be left with the end of the longer one
behind it.  So the history variable `tangled` says that the last saves overlapped (`Tangles`);
while it holds, the metadata may turn into a mixture (`Mix`), and a save may end with what the
other one made of the file (`SavedOver`).  A save that has the file to itself mends it.

`ScopeSound` says what does hold once both are through, if no write failed, no file was lost
and nobody crashed: every script and source the metadata lists is on disk, maps are whole, and
so are sources at paths no two scripts share (two scripts of one path write different texts to
it); and the metadata can be read, unless the last saves overlapped.

### Registry, ScanCall, CommandLine, JobService, FrontEnds

`Registry` has `register` and its relatives as operators on the pair of list and index;
`RegisteredBut` is the loop of `exclude` and of `select`, which register what they keep one
by one in a new registry.
`ScanCall` is one call of `scan` (`options`, `call`, `used`, `store`, `client`): validation,
the registry, the client and the store it builds, the run, and the `finally`.  The caller's
registry `mine` may be changed between calls (`Recompose` in `FrontEnds`).  `CommandLine`
reads `argv` one argument per step, an action for each kind of flag, then does what `main`
does up to the exit code; an argument is a pair of a name and what follows its `=`.

`JobService` is the job queue of the HTTP service.  A handler runs undisturbed once its body
is read, so `Submit`, `Cancel`, `Settle` (then, catch and finally of one scan), `Sweep`,
`Shutdown` and `Exit` are one action each.  `Pump` is the loop of `pump` as a function: how
many ids it takes off the queue and which of them it starts.  `TimePasses` makes finished
jobs old enough to be swept.  `SlotPool` is its abstract specification too, with the queued
jobs asking and the scans holding.

`FrontEnds` is a process: one of command line, library call, service, or two scans of one
scope.  They share no state, so `front` is chosen at the start and the rest stands still.

### Exchange

Headers, cookies and body of requests that run side by side, over the three kinds of client:
Node, browser and one of the caller's.  `jar` is changed by every answer, in any order;
`given` and `sent` are history, what the jar was given and what a request carried.
`CookiesApply` asks for what the comments of `cookies.ts` and its code agree on: whether a
cookie without a domain goes to subdomains, and whether one host's cookie replaces another's
of the same name, domain and path, is left open (`Due`, `LastNamed`; section 6).  `BodyRead`
leaves open the flag in the cases in which the code is not what `FetchResult` says of it.
Hosts and paths are sequences, so that matching is by labels and segments as in the code;
sizes count units.  Requests' slots and retries are in `Fetch`.

### Findings, Webpack, Entries, Dispatch, Embedded, NextJs

What a plugin makes of a text, once its patterns have matched.  `Findings` is the shared
result builder and the insertion-ordered map.  `Webpack` models the seven attempts that end
the analysis and the eighth that adds up, with what the plugin carries from script to script.
`Entries` has the HTML pivot and the micro-frontend plugins, with their caps; `EntriesBounded`
is about HTML pages and the micro-frontend plugins, since the pivot's branch for scripts has
no cap. `Dispatch` feeds documents in any order to the plugins that apply to them; what each
found stands at the plugin's place in the registry.  `NextJs` finds the directory a site is
deployed under and the addresses of its routes.  `Embedded` works on symbols: the state
machines that find the end of an inline script and of a manifest, and the origin of its paths,
which is handed on to the fragments of the whole scan.  A page is written of parts (`Html`),
tags and scripts, a script of pieces: code, strings, comments, objects; `EmbeddedWhole`
compares what is cut out with what was written, for pages of which a scanner that does not
parse can know that much (`PlainPart`). Matching itself is an input: a document is a record of
captures, one field per pattern.

### SourceMaps

`parse`, VLQ decoding in 32-bit words, delta decoding, `reconstructFromMappings`, path
cleaning and the placement of the files of one map.  A mappings string is a sequence of
base64 digits and marks.  `Encoded` writes deltas the way the format says, and
`MappingsSummed` compares what is read with `Meant`, the sums taken directly over sets of
places.  A map either says which deltas it was written from (`MappingsAssumption`: segments of
one, four or five values, each of up to thirty bits and a sign, which is what 32-bit shifts
carry; a value of 2^30 is read as a negative one) or holds any symbols at all.

`SourcesWritten` has the exceptions the code has (`Unparted`): a third source of one path, a
path that starts with the map's own name, and a path that was cut to the length limit and that
the guard of the write rewrites, are written over.  That pieces of the script are put out once
and in order is asked where the mappings come in order.  The file name whose length may keep a
source from being written is that of the cleaned path, since `x/..<long>/.` ends in a name no
part of the source ends in.  `SourceMapsAssumption` types the documents and asks that a path
has room for three characters, those of an unnamed source's name in the model (the code's
bound is 512).

### Analysis

The sum of `Exchange`, `Dispatch`, `NextJs`, `Embedded` and `SourceMaps`, one of them chosen
at the start: they share no state.

## 4. What the runs check

Passing runs:

* `semaphore` (its types are proved and not checked again): five calls, two slots, two signals, one of them shared.  More callers than
  slots by enough for a queue of three, so that a waiter in the middle is aborted.
* `discovery`: four sites, chosen so that every action fires: `Bundled` (chunks by
  fragments, wildcards, a rate-limited script), `MovedSite` (the entry page redirects to
  another origin), `Portal` (more pages than the budget of two), `Blocked` (error pages in
  place of scripts); three kinds of store; an abort anywhere.
* `fetch`: two scans, three calls, one slot per client, three attempts.  Two calls
  compete for a slot while a third uses the forwarder of another client.
* `site_cache`: three scripts (one with a map and a chunk, one on another origin with a
  map), four scans, two mishaps.  Four scans are needed: one fills the cache, two without
  cache reads may each tear a file that is already recorded, one replays.  Two mishaps
  allow a crash together with a lost file, an abort or a failed write.  `SourcesKept` rests
  on a fact the code nowhere states: a scan that is cut off tears the map or the sources of
  a script, not both, so one of them is intact.  A second one may tear the other: the
  property is about `cutOff <= 1`, and without that premise TLC finds the history of
  four scans that loses both.
* `front_ends`: every command line of up to three of 28 arguments and those of four that
  speak of the cache, which is as far as one argument reaches (a flag, its value, the URL);
  two changes of a registry between calls with every combination of the options that matter;
  four jobs over two slots, so that two wait and either may be cancelled; a page with one
  script that has a map, for two scans at once over what an earlier one left, with a mishap.
* `analysis`: three requests to two hosts, with two places in the jar, so that the injected
  cookie is evicted, chunks that end at, before and beyond the limit of four; some
  fourteen hundred maps, each with four scripts, with deltas of up to thirty bits, garbage, and names that climb, are too
  long or fall together; three documents dispatched in every order, of two builds that share
  ids; pages of up to three parts and `MaxSymbols` symbols whose strings and comments hold
  closers and quotes; pages of sites under four directories, with every route of up to three
  parts before a second one.  TLC evaluates a fold by recursion, one level a symbol, so pages
  and mappings are kept as short as the cases need: twenty symbols hold each manifest with a
  tag beside it, or three scripts, and values of thirty bits stand one or two to a segment.

Disagreements, each a run of its own that TLC must find violated (details in
`PROJECT.json`, "findings"):

* `fallback`: the conventional manifests are claimed, and then turned away as claimed.
* `pivot_slots`: a page named by a loopback address is charged to the budget twice.
* `determinism`: with the budget exhausted, two scans of a site report different scripts.
* `forwarder`: the first scan to end stops the forwarder the next one is handed.
* `partial_meta`: an aborted scan records its partial list, which is replayed as complete.
* `replay`: a replay loses the restored sources of scripts of other origins.

The scans of a process, of a site and the calls of a client end, so deadlock is not
checked in these runs; `Termination`, `EveryCallSettles` (of `Fetch`), `EveryJobEnds` and, of
the semaphore, `ImplementsPool` with the liveness of `SlotPool` say that they end well.  A
process of `front_ends` exits and an analysis is over when its inputs are.

### Fairness

* `Semaphore`: a granted call starts its function, and the function settles (the request
  has a timeout); abort listeners run.
* `Discovery`: priming, the loop and the tasks as a group go on: the event loop runs
  whatever promise has settled, and every promise a task awaits settles, which is
  `Fetch`'s `EveryCallSettles`.  No single task is favoured.
* `Fetch`: a call that was begun goes on; the starting of the forwarder settles; a call
  that waits is granted a slot if slots keep coming free (strong fairness on `Enter`,
  which the queue of `Semaphore` provides: `NoOvertaking`).  That `factory.create` of the
  forwarder settles is assumed: it is awaited outside the request's timeout.
* `FrontEnds`: the scan of each job ends (`ScanEnds`), which is `Termination` of the loop.
  Nobody has to send requests, cancel or stop the process; `Sweep` need not run.
* Nobody has to abort, begin, close, or crash.

## 5. What is proved

For every value of the constants, under the assumption each module states of them
(`SemaphoreAssumption`, `DiscoveryAssumption` and so on: finite sets of calls, positive
limits, a site that maps URLs to pages).

* `Semaphore_proofs`: types, `SlotsConserved`, `NoIdleSlot`, `NoOvertaking`, and that the
  semaphore implements the safety part of `SlotPool`.  The invariant adds `FiringWaits`:
  a call whose listener is due still waits in the queue.
* `Discovery_proofs`: types, which need `Awaited`: a task that awaits a request still has
  that work on its list; `ClaimedOnce`, `ClaimsAccounted`, `AbortStartsNothing`,
  `FragmentsWaitForQuiet`, the refinement of `Worklist`, and `PivotSlotsDistinct` when no
  page is named by a loopback address (`NoDevPages`; without it the run `pivot_slots`
  shows the violation).  The invariant says that whatever is queued, running or done has
  been claimed, and `AtWork`: before the entry is primed nothing is claimed, queued or
  done, and tasks run only in the crawl.

  `OnlyScriptsReported` follows from `ServedInv`: a task that counts as a script's has a
  request behind it that was answered with a script, under its own address or the one it was
  redirected to.  `CrawlClosed` follows from `ClosedInv`: what a body, an inline script or
  an answer reports is handled (claimed, resolved, entered) or on the list of a task
  (`PagesFolded`, `InlinesFolded`), a complete crawl has no task (`EndInv`), and the base
  does not move once anything was found under it (`Anchored`); if it did, claims made under
  the old base would be looked for under the new one.  `FallbackIdle` says that the fallback
  queues nothing, which is the finding of the run `fallback`, proved.  The theorem is about
  sites where no page is named by a development address or none is at one (`PagesLookedUp`):
  else the claim of another page may be taken for that of a page.  `RedirectAssumption` says
  that an address redirects end at is not moved again, as the client follows them to the end;
  `KeyAssumption` that the key of an inline script, its document and place, determines what is
  found in it.
* `Fetch_proofs`: types, `NothingSentAfterAbort`, `NoForwarderLeft`, and that any client
  implements `SlotPool`.  `NoForwarderLeft` needs two facts: only a call of an open client
  waits, loads or flies, and a forwarder that starts has a call waiting for it, one that is
  up has such a call or a client that remembers it.
* `SiteCache_proofs`: types and `MetaBacked`, for shared slots and shared source paths
  too.  The invariant: what a crawl has listed or restored is on disk, or a task is
  writing that very file; when the metadata is being written no task is writing.

  `WarmAsCold` and `SourcesKept` hold for any history of scans the properties allow: crashes,
  aborts, lost files.  `Reachable` is the least set of scripts
  that is closed under what the pages link to.  A crawl takes up nothing else (`Sound`);
  while nothing was missed it takes up everything a page that is through leads to
  (`Complete`), so what it has listed at its end is closed; the metadata and a replay of it
  list that set (`MetaTrue`, `ReplayTrue`), whatever is left of the files, because a slot holds
  its page whole, nothing, or what its task is writing (`PagesTrue`).  For the sources
  (`SourceInv`): the metadata of a scan that missed nothing names exactly the scripts of the
  origin with maps, and of each of them both files are intact but for the one being written,
  or one of the two after one scan was cut off (`Intact`).  A replay restores from the map
  or finds the sources there, so it reports what the crawl did.  Both theorems are about
  sites where no two scripts share a slot (`SlotsDistinct`), and `SourcesKept` about those
  where no two sources share a path (`PathsDistinct`) either: the hazards of
  `PROJECT.json` tell what happens else.
* `FrontEnds_proofs`: types of the service, `SlotsAccounted`, `CancelReachesScan`,
  `OutcomeFinal`, and that the service implements `SlotPool`, for any number of jobs and
  slots.  `PumpTakes` gives what the pump takes: as many jobs as there are free slots, or
  all.  `RunJobsTakes` follows for every call of it.  The invariant adds `Stages`: a job not
  asked for left no trace and is followed only by such jobs, so a new id is greater than all
  in the queue; one that waits is held and has no end, so the sweep cannot drop it; and only
  cancelled jobs were aborted.

  `RegistryAgrees`, for the registry a caller composes and the one each scan makes of it: the
  list has no two plugins of a name and the index has exactly its members (`Agrees`).
  `register`, `remove` and their relatives keep that; for the loops of `exclude` and
  `select` (`RegisteredAgrees`) it is shown by induction over how many plugins have been
  registered.

  `ScopeSound`, for shared slots and paths too.  The invariant of two scans is in the terms of
  what one step of one scan does to the files (`FilesHeld`: what is on disk or being written
  stays so or is replaced by a whole file): a torn file is being written by one of the two, or
  is the metadata of two saves (`AllHeld`), and what the metadata names, or a scan is about to
  name in it, is on disk or being written by one of the two (`AllEarned`).  Mixed metadata
  names nothing (`MixStep`), and a save that is written over leaves what the other wrote
  (`FirstSavedOver`, `SecondSavedOver`).  The steps of one scan leave the other's memory alone
  and keep both facts; when both scans are through nobody writes.  The two scans are instances
  of the same module, and so are their proofs.

  `CacheFlagsHonoured`, for every command line.  The invariant of the loop of `parseArgs`:
  `index` stands at an argument that is read as one, with no `--` before it (`Reading`), and
  `parsed.cache` is what the last of those before it that speaks of the cache says (`Heard`).
  The loop skips the word of `--cache`, which the reading does not, and both agree since such
  a word is no flag; `CliAssumption` says that the boolean words are none.
* `Analysis_proofs`: `CookiesApply`, in `ExchangeInv`: the jar, in its order, is a
  subsequence of the cookies it was given that are alive, each the newest of its identity; and
  a newest live one is missing only if as many newer ones as the jar takes came after it
  (`Holds`, of one response `Tracks`, `Misses` and `Pushed`).  What a request carried depends
  only on the cookies given before it, so later responses do not touch it (`CarriedAll`).
  This is of the cookies as the code replaces and matches them, and gives `CookiesApply`, which
  leaves open what the comments deny of it.
  `BodyRead`: which size and which flag a read ends with depends on the total of the
  chunks alone, by induction over the chunks, for any split of a body into them.
  `ExchangeAssumption` says what cookies and chunks are.

  `EntriesBounded`: the library's folds are loops over numbers (`FoldsExist`, `FoldLeads`).
  After the first n links (`NamedTo`) a page has yielded at most two more than the limit,
  each of a usable link, and each usable one of those links is named or the limit is reached.
  `DispatchAssumption` says that the address of a file of another type has a dot in it, so
  that no guess is made from it.

  `ChunksFollowFirstHash`: the pairs in the maps the plugin keeps are exactly what the
  documents so far gave, each id with its first hash (`KnownHashes`), and the fingerprint is
  the first one printed (`FirstPrint`), in `ChunkInv`.  `MergedIsKnown` says that merging keeps
  the first hash of an id, `LaterHistory` what one more document changes in those histories,
  and `FallbackProbes` what the fallbacks name from such maps.

  `RoutesUnderBase`: the text of a path is the texts of its parts one after another, each
  after a slash and at a place of its own (`JoinedPlaces`), and the text of two lists of parts
  one after the other is the two texts one after the other (`JoinedConcat`).  The route starts
  with a slash, and the directory has slashes only where its parts start, none of which begins
  like the route; so the first place the route is found at is where the directory ends
  (`FirstPlace`), and what comes before is the directory (`BaseFound`).  `ProbesDeduped` says
  that the loop that drops repeated requests keeps each once.  `NextAssumption` says that a
  path is cut into parts at its slashes.
* `SourceMaps_proofs`: `SourcesWritten`, for any map, script and limits.  Where a mapping puts
  text out, it is what stands between the last mapping and itself, clipped to the lines there
  are (`EmitOrdered`, with `Reached` for how far the text is put out), so a source rebuilt from
  mappings in order has each position once and in order (`PiecesOrdered`), whatever the columns
  are, negative ones too.  A path is clean if no part of it is empty or dots (`Clean`): a text
  is cut into its pieces (`SplitPieces`) and names put together are cut into those names
  (`JoinClean`), so what is cleaned is empty or clean (`CleanedIs`), also when its middle is
  cut out (`CutMiddle`, `TruncatedIs`) or its separators are flattened (`FlattenedIs`), unless
  the file name does not fit; and the guard of every write passes what is clean (`SafeIs`).
  A file is under its own path if none before it has that, or else under the map's name
  (`PutAt`), so two of them in one place need a third file of the path or a path under that
  name (`TwoInOne`).  `SourceMapsAssumption` types the documents.

  `EmbeddedWhole`, for any page.  A scan for strings, or for comments, is outside of them
  again after each piece, and a closing tag counts in none (`PieceStrings`, `PieceComments`,
  `PieceClosers`, put together in `Past`), so it is outside after all pieces of a script
  (`PastPieces`, `PastBody`) and the script ends at the closer that follows it (`CloseAt`).  The
  scan for opening tags, at the start of each part of the page, has found the scripts written
  before it (`TagTaken`, `ScriptTaken`, `ScriptsExtracted`); those with a body are kept with
  their places (`BodiesKept`).  The count of braces is back at its depth after each piece of a
  manifest (`PieceBraces`, `CountPiece`), reaches zero at the brace that closes it and has
  taken what is between (`BracesTaken`); the mark it is looked for by stands in no other part
  (`MentionedStands`, `PathsFound`).  `EmbeddedAssumption` types the parts: any symbol but an
  opening script tag may stand between the scripts.

  `MappingsSummed`, for any maps.  The digits of a value are the groups of five bits of its
  number (`Halves`, `GroupsAre`, `DigitsAre`), so the word they are shifted into holds that
  number's bits (`WordIs`) and the number in the word, halved and with the sign its lowest bit
  says, is the value (`SignedWord`, `ValueReadBack`).  Each value of a segment is read from
  where the one before it ended (`SegmentPlaces`, `OneValueMore`, `ValuesReadBack`).  A text
  put together with a mark that is in none of its parts is split into those parts
  (`MarkedPlaces`, `SplitJoined`), first into lines, then into segments (`LinesCut`,
  `LineCut`).  A sum over a finite set does not depend on which element is taken first
  (`AddsExist`, `AddsAny`), so the sum up to a segment is the one up to the segment before
  it, or the last of the line before, and what it adds (`SumsAre`); these are the numbers
  the reading carries along (`SegmentAdded`, `LineAdded`), which gives `MappingsMeant`.
* `Induction`: a set of naturals that has 0 and with each number its successor up to k has
  all up to k; and a function defined by recursion on a number exists and has the values of
  its definition (`StepwiseFunction`).  The library's theorems on induction take a predicate
  as a parameter, which the provers cannot be given; its theorem on minimal elements of
  well-founded sets takes a set, and gives the same.

Only model-checked: the liveness properties (`Termination`, `EveryCallSettles`,
`EveryJobEnds`), which TLC checks under the fairness above, since fairness and `ENABLED` are
outside what the provers do.

## 6. What is not modelled

Text matching by regular expressions, the TLS forwarder package and the network are outside;
their results are inputs.  Not modelled: module federation, the framework plugins other than
Next.js and Modern.js, and the pattern plugins, which match a text, report what they matched
and keep nothing; `normalizeUrl`, `expandComboLoader` and the mangling of file names, which
rewrite strings the models treat as names; sniffing of encodings; `encodeVLQ` and map
generation, which no scan calls; `setConcurrency` on a client in use, since the pipeline
calls it before the first request; proxy parsing and environment probes; the `outputDir`
mirror; rendering, logging and help text, which have no state.

### Divergences met, without a run of their own

* `extractor/pipeline.ts:1694`: a replay goes on without the sources of a script when both their
  files and the map are gone.  Two scans without cache reads that are killed, one while it
  writes a source (`fetcher/fs-storage.ts:145` empties the file first) and one while it writes
  the map, leave that, although `pipeline.ts:1594` says that "replaying the recorded list
  guarantees the same result as the run that wrote it".  It is the history `SourcesKept`
  leaves out.
* `fetcher/cookies.ts:75` calls a cookie without an explicit domain host-only, as
  `cookies.ts:15` does of an empty domain; the code keeps the host as its domain, and the jar
  sends it to every subdomain.  `cookies.ts:74` says that a cookie replaces one of the same name,
  domain and path; the code asks for the same host besides, so two hosts' cookies for one
  domain stand side by side, and both are sent.  A `Set-Cookie` that is already expired is
  skipped, so it does not delete the cookie of its name.
* `fetcher/fetcher.ts:50` says that `truncated` tells whether the body was cut off at the cap.
  A body that just fits is flagged by the built-in clients; one cut after the Node client
  unpacked it, or by the fetcher after an injected client handed it over, is not.
* `fetcher/fs-storage.ts:145` empties a file and then writes it, and nothing keeps two scans of
  a scope apart: two saves of `meta.json` at once may leave a record that cannot be parsed, and
  the next scan crawls again.
* `examples/05-http-service/server.mjs:344`: a shutdown aborts running scans, and the pump of
  their `finally` starts the queued ones, which nobody aborts.
* `setCookies` of the browser client makes `setCookieString` report success, unlike the
  comment at `fetcher.ts:178`; the browser client drops the headers of a single request.
* `cli/args.ts`: `--no-cache=false` disables the cache; arguments after `--` beyond the
  first word are dropped.
* `sourcemap/sourcemap.ts:135`: a source is rebuilt with everything up to its last mapped
  line, not from its own fragments; `truncatePath` can cut a name to `..`, refused
  afterwards.
* `extractor/pipeline.ts:1415`: the name of the map as a prefix is said to keep two sources of
  one path apart.  A third one gets the prefixed path of the second, a source's own path may
  start with the map's name, and the set of paths used (`pipeline.ts:1439`) holds them as they
  were before `safeSourcePath` rewrote them: of two sources one of which was cut to a path that
  ends in a slash and the other is named as that path without it, the later overwrites the
  earlier.
* `plugins/webpack.ts:175`: `[[:alnum:]]` is no class in JavaScript, so that pattern matches
  nothing; three attempts succeed with nothing found and end the analysis.
* `plugins/helpers.ts:20` calls the cap a maximum per plugin result; the HTML branch of the
  pivot may pass it by two, and its script branch (`plugins/html-pivot.ts:168`) has none, so a
  script with many page names in it can take the whole page budget.
* `plugins/html-script.ts`: an apostrophe in a comment keeps the scanner inside a string, and
  the scripts after it are lost; numeric entities are decoded twice after `&amp;`.
* `plugins/nextjs.ts:507`: the directory is found by text, without regard to segments.
