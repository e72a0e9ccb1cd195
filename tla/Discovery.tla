----------------------------- MODULE Discovery ------------------------------
(***************************************************************************)
(* src/src/extractor/pipeline.ts: the discovery loop.  The loop takes the  *)
(* whole queue as one batch, runs processUrl on every item of it at once,  *)
(* waits for all of them, and starts over; when the queue is dry it        *)
(* resolves the pending fragments, then tries the fallback, then stops.    *)
(*                                                                         *)
(* JavaScript is single threaded: between two awaits a task is not         *)
(* interrupted.  `turn` is the task inside such a stretch; nothing else    *)
(* happens until it reaches an await and the turn is Nobody again.         *)
(*                                                                         *)
(* A URL is a record of what the pipeline looks at.  Two spellings of one  *)
(* address are one record: normalizeUrl is idempotent and is applied to    *)
(* every URL before it is claimed, and Start is in normal form.            *)
(*                                                                         *)
(* What the plugins read in a page is the site's business, not the loop's: *)
(* site[u].finds is the sequence of findings the plugins return for the    *)
(* body served at u, in the order processResults folds them.               *)
(***************************************************************************)
EXTENDS Integers, Sequences, FiniteSets, SequencesExt

CONSTANTS
  Origin, Segment, File,  \* what URLs are made of
  Loopback,               \* origins on 127.0.0.1, localhost or [::1]
  Static,                 \* files isLikelyStaticResource accepts
  Wildcard,               \* chunk files with an unresolved hash (209-*.js)
  MapOf,                  \* buildSourceMapUrl on the file part
  Manifests,              \* emp.json and emp-stats.json
  Plugin,                 \* provenances, "CLI" and "FallbackEmp" among them
  Finding,                \* what a plugin result is made of
  Key,                    \* dedup keys of inline scripts and probe requests
  Sites, Start, Storages, \* the sites, the start URL and the kinds of storage
  MaxPivots,              \* MAX_HTML_PIVOTS
  NoOrigin, Nobody

Url == [origin : Origin, dir : Seq(Segment), file : File]
Prefix == [origin : Origin, dir : Seq(Segment)]
Public == [origin : Origin \cup {NoOrigin}, dir : Seq(Segment)]
Fragment == [rooted : BOOLEAN, dir : Seq(Segment), file : File]
Answer == {"ok", "busy", "refused", "lost"}
Tag == {"prefix", "public", "url", "absolute", "bare", "path", "page",
        "inline", "request"}

\* The body served for a request of u, where the redirects lead (final) and
\* how the server may answer (busy is 429 or 5xx, lost a transport failure).
Page == [answers : SUBSET Answer, final : Url, kind : {"html", "js", "other"},
         empty : BOOLEAN, announcesMap : BOOLEAN, finds : Seq(Finding)]

ASSUME DiscoveryAssumption ==
  /\ MapOf \in [File -> File]
  /\ Manifests \subseteq File
  /\ {"CLI", "FallbackEmp", "HTMLScriptPlugin", "Unknown"} \subseteq Plugin
  /\ MaxPivots \in Nat
  /\ NoOrigin \notin Origin
  /\ Start \in Url
  /\ Storages \subseteq {"none", "writeonly", "full"}
  /\ \A s \in Sites : \A u \in DOMAIN s : u \in Url /\ s[u] \in Page

\* The client follows redirects, so an address one ends at is not moved again.
ASSUME RedirectAssumption ==
  \A s \in Sites : \A u \in DOMAIN s :
    s[u].final \in DOMAIN s => s[s[u].final].final = s[u].final

\* A finding, by its tag: a prefix or publicPath for the knowledge base, a
\* URL, a probe target (absolute URL, bare file name or path fragment; now
\* when an inline script held it), a page or manifest to enter, an inline
\* script with its own findings, or a request to issue.  awaits tells
\* whether the code awaits before it goes on to the next finding.
ASSUME FindingAssumption ==
  \A f \in Finding :
    /\ f.tag \in Tag /\ f.by \in Plugin /\ f.awaits \in BOOLEAN
    /\ f.tag = "prefix" => f.prefix \in Prefix
    /\ f.tag = "public" => f.public \in Public
    /\ f.tag \in {"url", "absolute", "page", "request"} => f.url \in Url
    /\ f.tag \in {"bare", "path"} => f.frag \in Fragment /\ f.from \in Url
    /\ f.tag = "path" => f.now \in BOOLEAN
    /\ f.tag = "page" => f.html \in BOOLEAN
    /\ f.tag \in {"inline", "request"} => f.key \in Key
    /\ f.tag = "inline" =>
         /\ f.finds \in Seq(Finding)
         /\ \A n \in DOMAIN f.finds : f.finds[n].tag \notin {"inline", "request"}

\* The key of an inline script is its document's address and its place there:
\* it stands for one text, and for no request (these have "probe:" keys).
ASSUME KeyAssumption ==
  \A f, g \in Finding :
    (f.tag = "inline" /\ g.tag \in {"inline", "request"} /\ f.key = g.key) =>
      g.tag = "inline" /\ g.finds = f.finds

VARIABLES
  site, storing,  \* the site, and whether the storage reads and writes (full),
                  \* only writes (noCache) or neither (none); never change
  phase,          \* "prime", "crawl", "complete", "stopped" or "rejected"
  aborted,        \* signal.aborted
  turn,           \* the item whose task is between two awaits, or Nobody
  base,           \* baseUrl
  redirected,     \* redirectedBase, as a set of at most one pair
  seen,           \* knowledge.seenUrls
  keys,           \* the "#inline#" and "probe:" keys of the same set
  fragSeen,       \* knowledge.seenFragments
  queue,          \* the URLs awaiting processing, with their provenance
  task,           \* the running processUrl calls: item -> progress
  done,           \* items whose processUrl has returned
  fragments,      \* fragments awaiting resolution
  prefixes,       \* knowledge.prependUrls
  publics,        \* knowledge.publicPaths
  htmlEntries,    \* htmlEntries; htmlPivotCount is its length
  entries,        \* jsEntries, their URLs being emitted and knownPaths too
  fallbackChecked,
  analysed        \* history: the requests whose body went to the plugins

scanVars == <<site, storing>>
loopVars == <<phase, aborted, fallbackChecked>>
claimVars == <<seen, queue>>
baseVars == <<base, redirected>>
knowVars == <<prefixes, publics, entries, htmlEntries>>
fragVars == <<fragSeen, fragments>>
vars == <<scanVars, loopVars, claimVars, baseVars, knowVars, fragVars, turn,
          keys, task, done, analysed>>
-----------------------------------------------------------------------------
Item == [url : Url, by : Plugin]
Step == {"load", "retry", "fold", "flight", "store", "map"}
Task == [url : Url, by : Plugin, pc : Step, eff : Url, js : BOOLEAN,
         announced : BOOLEAN, todo : Seq(Finding)]

ScanTypes == site \in Sites /\ storing \in Storages
LoopTypes ==
  /\ phase \in {"prime", "crawl", "complete", "stopped", "rejected"}
  /\ aborted \in BOOLEAN /\ fallbackChecked \in BOOLEAN
BaseTypes == base \in Url /\ redirected \subseteq [from : Url, to : Url]
ClaimTypes == seen \subseteq Url /\ queue \subseteq Item /\ keys \subseteq Key
TaskTypes ==
  /\ DOMAIN task \subseteq Item /\ done \subseteq Item
  /\ task \in [DOMAIN task -> Task]
  /\ turn \in DOMAIN task \cup {Nobody}
FragTypes ==
  /\ fragSeen \subseteq Fragment \cup Url
  /\ fragments \in Seq([frag : Fragment, from : Url, by : Plugin])
KnowTypes ==
  /\ prefixes \subseteq Prefix /\ publics \in Seq(Public)
  /\ htmlEntries \in Seq(Url)
  /\ entries \subseteq Item /\ analysed \subseteq Url

TypeOK == ScanTypes /\ LoopTypes /\ BaseTypes /\ ClaimTypes /\ TaskTypes /\ FragTypes
            /\ KnowTypes

Site(u) == [origin |-> u.origin, dir |-> <<>>]
Known == {e.url : e \in entries}
MapUrl(u) == [u EXCEPT !.file = MapOf[@]]
IsMap(u) == u.file \in {MapOf[f] : f \in File}

\* rebaseLoopbackOrigin: a baked-in development address is moved onto the
\* origin being scanned.
RebaseTo(u, b) == IF u.origin \in Loopback THEN [u EXCEPT !.origin = b.origin] ELSE u
Rebase(u) == RebaseTo(u, base)

\* What a request for u may come to.  After an abort it may always be lost.
Answers(u) == (IF u \in DOMAIN site THEN site[u].answers ELSE {"refused"})
              \cup (IF aborted THEN {"lost"} ELSE {})

Init ==
  /\ site \in Sites /\ storing \in Storages
  /\ phase = "prime" /\ aborted = FALSE /\ fallbackChecked = FALSE
  /\ turn = Nobody
  /\ base = Start /\ redirected = {}
  /\ seen = {} /\ keys = {} /\ fragSeen = {}
  /\ queue = {} /\ task = [i \in {} |-> Nobody] /\ done = {}
  /\ fragments = <<>> /\ prefixes = {Site(Start)} /\ publics = <<>>
  /\ htmlEntries = <<>> /\ entries = {} /\ analysed = {}
-----------------------------------------------------------------------------
(* Queueing *)

\* Bug: the claim is looked at before the address is rebased and stored after.
EnqueueUnclaimed(claimed, targets, by) ==
  LET fresh == {Rebase(t) : t \in targets \ claimed}
  IN /\ seen' = claimed \cup fresh
     /\ queue' = queue \cup [url : fresh, by : {by}]

\* Bug: nothing is claimed, every sighting of a URL queues it.
EnqueueUnmarked(claimed, targets, by) ==
  LET fresh == {Rebase(t) : t \in targets}
  IN /\ seen' = claimed \cup fresh
     /\ queue' = queue \cup [url : fresh, by : {by}]

\* enqueue: rebase, claim, push.  claimed is the seen set at that moment.
Enqueue(claimed, targets, by) ==
  LET fresh == {Rebase(t) : t \in targets} \ claimed
  IN /\ seen' = claimed \cup fresh
     /\ queue' = queue \cup [url : fresh, by : {by}]

\* recordJs: the first provenance of a URL stays.
RecordJs(u, by) ==
  entries' = IF u \in Known THEN entries ELSE entries \cup {[url |-> u, by |-> by]}

\* handleRedirect: only a redirect of the page the scan is anchored on moves
\* the anchor, and with it the origin relative fragments are tried on.
HandleRedirect(from, to) ==
  IF to # from /\ from = base
  THEN /\ base' = to
       /\ prefixes' = prefixes \cup {Site(to)}
       /\ redirected' = {[from |-> from, to |-> to]}
  ELSE UNCHANGED <<base, prefixes, redirected>>

EffectiveUrl(u, final) ==
  IF final # u THEN final
  ELSE IF \E r \in redirected : r.from = u
       THEN (CHOOSE r \in redirected : r.from = u).to
       ELSE u
-----------------------------------------------------------------------------
(* The entry page: primeEntryPage, then the first enqueue of run. *)

PrimeUnchanged == UNCHANGED <<scanVars, aborted, fallbackChecked, turn, keys, task,
                              done, fragVars, publics, htmlEntries, entries, analysed>>

\* Without a storage there is nothing to prime.
PrimeSkip ==
  /\ phase = "prime" /\ storing = "none"
  /\ phase' = "crawl"
  /\ Enqueue(seen, {Start}, "CLI")
  /\ UNCHANGED <<base, redirected, prefixes>>
  /\ PrimeUnchanged

\* The page is fetched once for the cache; a redirect moves the base before
\* the start URL is queued, so the start URL is claimed in its rebased form.
PrimeOk ==
  /\ phase = "prime" /\ storing # "none"
  /\ "ok" \in Answers(Start)
  /\ phase' = "crawl"
  /\ HandleRedirect(Start, site[Start].final)
  /\ LET u == RebaseTo(Start, base')
     IN seen' = {u} /\ queue' = {[url |-> u, by |-> "CLI"]}
  /\ PrimeUnchanged

\* Any other answer ends the scan with an error.
PrimeFailed ==
  /\ phase = "prime" /\ storing # "none"
  /\ Answers(Start) # {"ok"}
  /\ phase' = "rejected"
  /\ UNCHANGED <<base, redirected, prefixes, claimVars>>
  /\ PrimeUnchanged

\* The caller aborts the scan's signal, at any await.
Abort ==
  /\ ~aborted /\ turn = Nobody
  /\ phase \in {"prime", "crawl"}
  /\ aborted' = TRUE
  /\ UNCHANGED <<scanVars, phase, fallbackChecked, turn, claimVars, baseVars,
                 knowVars, fragVars, keys, task, done, analysed>>
-----------------------------------------------------------------------------
(* processUrl *)

\* The task of item i goes on as t, and gives the turn to nxt.
Continue(i, t, nxt) ==
  /\ task' = [task EXCEPT ![i] = t]
  /\ turn' = nxt
  /\ UNCHANGED done

\* Bug: the task is gone and the turn is still its own.
ReturnWithTurn(i) ==
  /\ task' = [j \in DOMAIN task \ {i} |-> task[j]]
  /\ done' = done \cup {i}
  /\ turn' = i

\* processUrl(i) returns, whether it got anywhere or not.
Return(i) ==
  /\ task' = [j \in DOMAIN task \ {i} |-> task[j]]
  /\ done' = done \cup {i}
  /\ turn' = Nobody

TaskUnchanged == UNCHANGED <<scanVars, loopVars, keys, fragVars, publics, htmlEntries>>

\* Bug: an error page answered for a script address is recorded like an empty
\* body.
ArriveBlockPage(i, u, kind, eff) ==
  LET t == [task[i] EXCEPT !.eff = eff, !.js = (kind = "js")]
  IN IF kind = "html" /\ eff.file \in Static
     THEN RecordJs(eff, t.by) /\ Return(i) /\ UNCHANGED analysed
     ELSE /\ Continue(i, [t EXCEPT !.pc = IF IsMap(eff) THEN "map" ELSE "fold",
                                   !.todo = IF IsMap(eff) THEN <<>> ELSE site[u].finds],
                      Nobody)
          /\ UNCHANGED <<entries, analysed>>

\* The body served for a request of u is at hand, as kind, and counts as eff:
\* an HTML answer to a static resource is an error page unless it is empty, a
\* source map is restored and goes no further, the rest goes to the plugins.
Arrive(i, u, kind, eff) ==
  LET t == [task[i] EXCEPT !.eff = eff, !.js = (kind = "js")]
  IN \/ /\ kind = "html" /\ eff.file \in Static
        /\ IF site[u].empty THEN RecordJs(eff, t.by) ELSE UNCHANGED entries
        /\ Return(i)
        /\ UNCHANGED analysed
     \/ /\ ~(kind = "html" /\ eff.file \in Static) /\ IsMap(eff)
        /\ Continue(i, [t EXCEPT !.pc = "map"], Nobody)
        /\ UNCHANGED <<entries, analysed>>
     \/ /\ ~(kind = "html" /\ eff.file \in Static) /\ ~IsMap(eff)
        /\ Continue(i, [t EXCEPT !.pc = "fold", !.todo = site[u].finds,
                                 !.announced = site[u].announcesMap], Nobody)
        /\ analysed' = analysed \cup {u}
        /\ UNCHANGED entries

\* loadFromCache: the entry page is read back from the slot priming filled,
\* and is HTML because of the slot it came from.  A stored empty body is a
\* miss.
CacheHit(u) ==
  storing = "full" /\ u = base /\ Start \in DOMAIN site /\ ~site[Start].empty

LoadCached(i) ==
  /\ turn = Nobody /\ task[i].pc = "load"
  /\ CacheHit(task[i].url)
  /\ Arrive(i, Start, "html", EffectiveUrl(task[i].url, task[i].url))
  /\ UNCHANGED <<claimVars, baseVars, prefixes>>
  /\ TaskUnchanged

Requesting(i) ==
  /\ turn = Nobody
  /\ \/ task[i].pc = "load" /\ ~CacheHit(task[i].url)
     \/ task[i].pc = "retry"

DownloadOk(i) ==
  LET u == task[i].url
  IN /\ Requesting(i) /\ "ok" \in Answers(u)
     /\ HandleRedirect(u, site[u].final)
     /\ Arrive(i, u, site[u].kind, EffectiveUrl(u, site[u].final))
     /\ UNCHANGED claimVars
     /\ TaskUnchanged

\* A 429 or 5xx is worth a second request, and only one.
DownloadBusy(i) ==
  /\ Requesting(i) /\ task[i].pc = "load" /\ "busy" \in Answers(task[i].url)
  /\ Continue(i, [task[i] EXCEPT !.pc = "retry"], Nobody)
  /\ UNCHANGED <<claimVars, baseVars, prefixes, entries, analysed>>
  /\ TaskUnchanged

DownloadFailed(i) ==
  /\ Requesting(i)
  /\ Answers(task[i].url) \cap
       (IF task[i].pc = "load" THEN {"refused", "lost"} ELSE {"refused", "lost", "busy"}) # {}
  /\ Return(i)
  /\ UNCHANGED <<claimVars, baseVars, prefixes, entries, analysed>>
  /\ TaskUnchanged

\* The findings are folded: a script is stored, anything else is finished.
Folded(i) ==
  /\ turn = Nobody /\ task[i].pc = "fold" /\ task[i].todo = <<>>
  /\ IF task[i].js THEN Continue(i, [task[i] EXCEPT !.pc = "store"], Nobody)
                   ELSE Return(i)
  /\ UNCHANGED <<claimVars, baseVars, prefixes, entries, analysed>>
  /\ TaskUnchanged

\* The script is written: it is recorded, and unless the script announced a
\* map of its own the sibling .map is claimed and probed.
Stored(i) ==
  LET eff == task[i].eff
  IN /\ turn = Nobody /\ task[i].pc = "store"
     /\ RecordJs(eff, task[i].by)
     /\ IF task[i].announced \/ MapUrl(eff) \in seen
        THEN Return(i) /\ UNCHANGED seen
        ELSE /\ seen' = seen \cup {MapUrl(eff)}
             /\ Continue(i, [task[i] EXCEPT !.pc = "map"], Nobody)
     /\ UNCHANGED <<queue, baseVars, prefixes, analysed>>
     /\ TaskUnchanged

\* The probe of a map, or the restoring of one, is over.
MapSettled(i) ==
  /\ turn = Nobody /\ task[i].pc = "map"
  /\ Return(i)
  /\ UNCHANGED <<claimVars, baseVars, prefixes, entries, analysed>>
  /\ TaskUnchanged
-----------------------------------------------------------------------------
(* processResults: one finding at a time *)

Finding1(i) == Head(task[i].todo)
Rest(i) == [task[i] EXCEPT !.todo = Tail(@)]

\* Task i is about to fold a finding of this tag.
Folding(i, tag) ==
  /\ turn \in {Nobody, i}
  /\ task[i].pc = "fold" /\ task[i].todo # <<>>
  /\ Finding1(i).tag = tag

\* The turn is kept up to the next await.
TurnAfter(i) == IF Finding1(i).awaits \/ Len(task[i].todo) = 1 THEN Nobody ELSE i

FoldUnchanged == UNCHANGED <<scanVars, loopVars, baseVars, entries, analysed>>

FoldPrefix(i) ==
  /\ Folding(i, "prefix")
  /\ prefixes' = prefixes \cup {Finding1(i).prefix}
  /\ Continue(i, Rest(i), TurnAfter(i))
  /\ UNCHANGED <<claimVars, keys, fragVars, publics, htmlEntries>>
  /\ FoldUnchanged

FoldPublic(i) ==
  /\ Folding(i, "public")
  /\ publics' = IF Contains(publics, Finding1(i).public) THEN publics
                ELSE Append(publics, Finding1(i).public)
  /\ Continue(i, Rest(i), TurnAfter(i))
  /\ UNCHANGED <<claimVars, keys, fragVars, prefixes, htmlEntries>>
  /\ FoldUnchanged

FoldUrl(i) ==
  /\ Folding(i, "url")
  /\ Enqueue(seen, {Finding1(i).url}, Finding1(i).by)
  /\ Continue(i, Rest(i), TurnAfter(i))
  /\ UNCHANGED <<keys, fragVars, prefixes, publics, htmlEntries>>
  /\ FoldUnchanged

\* A probe target is claimed by its text: whichever task claims it first
\* decides the document it is resolved against.
Text(f) == IF f.tag = "absolute" THEN f.url ELSE f.frag

\* dispatchProbeTarget on a text already claimed.
FoldClaimed(i) ==
  /\ \E tag \in {"absolute", "bare", "path"} : Folding(i, tag)
  /\ Text(Finding1(i)) \in fragSeen
  /\ Continue(i, Rest(i), TurnAfter(i))
  /\ UNCHANGED <<claimVars, keys, fragVars, prefixes, publics, htmlEntries>>
  /\ FoldUnchanged

ClaimText(i) ==
  /\ Text(Finding1(i)) \notin fragSeen
  /\ fragSeen' = fragSeen \cup {Text(Finding1(i))}

FoldAbsolute(i) ==
  /\ Folding(i, "absolute") /\ ClaimText(i)
  /\ Enqueue(seen, {Finding1(i).url}, Finding1(i).by)
  /\ Continue(i, Rest(i), TurnAfter(i))
  /\ UNCHANGED <<keys, fragments, prefixes, publics, htmlEntries>>
  /\ FoldUnchanged

\* A bare file name: beside the discovering document, and under every prefix
\* known by now.
BareTargets(f) ==
  {[f.from EXCEPT !.file = f.frag.file]}
    \cup {[origin |-> p.origin, dir |-> p.dir, file |-> f.frag.file] : p \in prefixes}

FoldBare(i) ==
  /\ Folding(i, "bare") /\ ClaimText(i)
  /\ Enqueue(seen, BareTargets(Finding1(i)), Finding1(i).by)
  /\ Continue(i, Rest(i), TurnAfter(i))
  /\ UNCHANGED <<keys, fragments, prefixes, publics, htmlEntries>>
  /\ FoldUnchanged

\* resolveFragment on a path fragment.
Under(origin, dir, frag) ==
  [origin |-> origin, dir |-> dir \o frag.dir, file |-> frag.file]

\* The origin the n-th publicPath is tried on: its own, else that of the last
\* publicPath before it that has one, else the document's.
PublicOrigins(n, from) ==
  LET last(m) == publics[m].origin # NoOrigin /\ \A k \in (m + 1)..n : publics[k].origin = NoOrigin
  IN IF \E m \in 1..n : last(m) THEN {publics[m].origin : m \in {k \in 1..n : last(k)}}
                                ELSE {from.origin}

OnPublicPaths(frag, from) ==
  UNION {{Under(o, publics[n].dir, frag) : o \in PublicOrigins(n, from)} : n \in DOMAIN publics}

Candidates(frag, from) ==
  IF frag.file \in Wildcard THEN {}
  ELSE {[k EXCEPT !.file = frag.file] :
          k \in {u \in Known : frag.dir # <<>> /\ IsSuffix(frag.dir, u.dir)}}
         \cup {Under(p.origin, p.dir, frag) : p \in prefixes}
         \cup OnPublicPaths(frag, from)
         \cup {Under(base.origin, <<>>, frag)}
         \cup (IF frag.rooted THEN {Under(from.origin, <<>>, frag)} ELSE {})

\* A fragment of an inline script is resolved on the spot, against what is
\* known by now ...
FoldPathNow(i) ==
  LET f == Finding1(i)
  IN /\ Folding(i, "path") /\ f.now /\ ClaimText(i)
     /\ Enqueue(seen, Candidates(f.frag, f.from), f.by)
     /\ Continue(i, Rest(i), TurnAfter(i))
     /\ UNCHANGED <<keys, fragments, prefixes, publics, htmlEntries>>
     /\ FoldUnchanged

\* ... any other is kept until the queue is dry.
FoldPath(i) ==
  LET f == Finding1(i)
  IN /\ Folding(i, "path") /\ ~f.now /\ ClaimText(i)
     /\ fragments' = Append(fragments, [frag |-> f.frag, from |-> f.from, by |-> f.by])
     /\ Continue(i, Rest(i), TurnAfter(i))
     /\ UNCHANGED <<claimVars, keys, prefixes, publics, htmlEntries>>
     /\ FoldUnchanged

\* Bug: the page is claimed where it should only be looked up, and lost when
\* the budget turns it away.
FoldPageSeenClaims(i) ==
  /\ Folding(i, "page")
  /\ \/ Finding1(i).url \in seen
     \/ Finding1(i).html /\ Len(htmlEntries) >= MaxPivots
  /\ seen' = seen \cup {Finding1(i).url}
  /\ Continue(i, Rest(i), TurnAfter(i))
  /\ UNCHANGED <<queue, keys, fragVars, prefixes, publics, htmlEntries>>
  /\ FoldUnchanged

\* enqueueIntermediate: the budget is looked at after the page is found new.
FoldPageSeen(i) ==
  /\ Folding(i, "page")
  /\ \/ Finding1(i).url \in seen
     \/ Finding1(i).html /\ Len(htmlEntries) >= MaxPivots
  /\ Continue(i, Rest(i), TurnAfter(i))
  /\ UNCHANGED <<claimVars, keys, fragVars, prefixes, publics, htmlEntries>>
  /\ FoldUnchanged

\* Bug: the budget is charged before the page is looked up.
FoldPageCharged(i) ==
  LET f == Finding1(i)
  IN /\ Folding(i, "page")
     /\ f.html => Len(htmlEntries) < MaxPivots
     /\ htmlEntries' = IF f.html THEN Append(htmlEntries, f.url) ELSE htmlEntries
     /\ Enqueue(seen, {f.url}, f.by)
     /\ Continue(i, Rest(i), TurnAfter(i))
     /\ UNCHANGED <<keys, fragVars, prefixes, publics>>
     /\ FoldUnchanged

FoldPage(i) ==
  LET f == Finding1(i)
  IN /\ Folding(i, "page") /\ f.url \notin seen
     /\ f.html => Len(htmlEntries) < MaxPivots
     /\ htmlEntries' = IF f.html THEN Append(htmlEntries, f.url) ELSE htmlEntries
     /\ Enqueue(seen, {f.url}, f.by)
     /\ Continue(i, Rest(i), TurnAfter(i))
     /\ UNCHANGED <<keys, fragVars, prefixes, publics>>
     /\ FoldUnchanged

\* processInlineScript and processProbeRequest run once per key.
FoldKeySeen(i) ==
  /\ Folding(i, "inline") \/ Folding(i, "request")
  /\ Finding1(i).key \in keys
  /\ Continue(i, Rest(i), TurnAfter(i))
  /\ UNCHANGED <<claimVars, keys, fragVars, prefixes, publics, htmlEntries>>
  /\ FoldUnchanged

\* The findings of an inline script come before the rest of the page's.
FoldInline(i) ==
  /\ Folding(i, "inline") /\ Finding1(i).key \notin keys
  /\ keys' = keys \cup {Finding1(i).key}
  /\ Continue(i, [task[i] EXCEPT !.todo = Finding1(i).finds \o Tail(@)], Nobody)
  /\ UNCHANGED <<claimVars, fragVars, prefixes, publics, htmlEntries>>
  /\ FoldUnchanged

\* A request is issued: the finding stays at the head until it is answered.
FoldRequest(i) ==
  /\ Folding(i, "request") /\ Finding1(i).key \notin keys
  /\ keys' = keys \cup {Finding1(i).key}
  /\ Continue(i, [task[i] EXCEPT !.pc = "flight"], Nobody)
  /\ UNCHANGED <<claimVars, fragVars, prefixes, publics, htmlEntries>>
  /\ FoldUnchanged

\* Its answer goes to the plugins, unless it is an error page, and what they
\* find comes before the rest.
FlightOk(i) ==
  LET u == Finding1(i).url
  IN /\ turn = Nobody /\ task[i].pc = "flight"
     /\ "ok" \in Answers(u) /\ site[u].kind # "html"
     /\ Continue(i, [task[i] EXCEPT !.pc = "fold", !.todo = site[u].finds \o Tail(@)],
                 Nobody)
     /\ analysed' = analysed \cup {u}
     /\ UNCHANGED <<claimVars, keys, fragVars, prefixes, publics, htmlEntries, entries,
                    scanVars, loopVars, baseVars>>

FlightFailed(i) ==
  LET u == Finding1(i).url
  IN /\ turn = Nobody /\ task[i].pc = "flight"
     /\ \/ Answers(u) # {"ok"}
        \/ u \in DOMAIN site /\ site[u].kind = "html"
     /\ Continue(i, [Rest(i) EXCEPT !.pc = "fold"], Nobody)
     /\ UNCHANGED <<claimVars, keys, fragVars, prefixes, publics, htmlEntries>>
     /\ FoldUnchanged
-----------------------------------------------------------------------------
(* discoveryLoop *)

\* Every task of the batch has returned and the loop starts over.
AtTop == phase = "crawl" /\ turn = Nobody /\ DOMAIN task = {}

LoopUnchanged == UNCHANGED <<scanVars, aborted, turn, baseVars, knowVars, fragSeen,
                             keys, done, analysed>>

\* Bug: an aborted loop ends as if it had run dry.
StopAsComplete ==
  /\ AtTop /\ aborted
  /\ phase' = "complete"
  /\ UNCHANGED <<fallbackChecked, claimVars, fragments, task>>
  /\ LoopUnchanged

StopOnAbort ==
  /\ AtTop /\ aborted
  /\ phase' = "stopped"
  /\ UNCHANGED <<fallbackChecked, claimVars, fragments, task>>
  /\ LoopUnchanged

\* The provenance of a URL rebased after it was queued is that of the item
\* it was rebased onto, if any.
Provenance(i, u) ==
  IF u = i.url THEN i.by
  ELSE LET same == {j \in queue \cup done : j.url = u}
       IN IF same = {} THEN "Unknown" ELSE (CHOOSE j \in same : TRUE).by

NewTask(i) ==
  [url |-> Rebase(i.url), by |-> Provenance(i, Rebase(i.url)), pc |-> "load",
   eff |-> Rebase(i.url), js |-> FALSE, announced |-> FALSE, todo |-> <<>>]

\* Bug: the signal is not looked at between two batches.
StartBatchAnyway ==
  /\ AtTop /\ queue # {}
  /\ task' = [i \in queue |-> NewTask(i)]
  /\ queue' = {}
  /\ UNCHANGED <<phase, fallbackChecked, seen, fragments>>
  /\ LoopUnchanged

StartBatch ==
  /\ AtTop /\ ~aborted /\ queue # {}
  /\ task' = [i \in queue |-> NewTask(i)]
  /\ queue' = {}
  /\ UNCHANGED <<phase, fallbackChecked, seen, fragments>>
  /\ LoopUnchanged

\* processFragments: the items made of the pending fragments.  A candidate
\* of two of them belongs to the earlier.
FragmentItems ==
  LET cand(n) == {Rebase(c) : c \in Candidates(fragments[n].frag, fragments[n].from)}
      first(n) == cand(n) \ (seen \cup UNION {cand(m) : m \in 1..(n - 1)})
  IN UNION {[url : first(n), by : {fragments[n].by}] : n \in DOMAIN fragments}

\* Bug: fragments are matched at the top of every round.
ResolveEarly ==
  /\ AtTop /\ ~aborted /\ fragments # <<>>
  /\ queue' = queue \cup FragmentItems
  /\ seen' = seen \cup {i.url : i \in FragmentItems}
  /\ fragments' = <<>>
  /\ UNCHANGED <<phase, fallbackChecked, task>>
  /\ LoopUnchanged

ResolveFragments ==
  /\ AtTop /\ ~aborted /\ queue = {} /\ fragments # <<>>
  /\ queue' = FragmentItems
  /\ seen' = seen \cup {i.url : i \in FragmentItems}
  /\ fragments' = <<>>
  /\ UNCHANGED <<phase, fallbackChecked, task>>
  /\ LoopUnchanged

\* Bug: pending fragments are forgotten.
DryQueue == AtTop /\ ~aborted /\ queue = {}

Dry == AtTop /\ ~aborted /\ queue = {} /\ fragments = <<>>

\* tryConventionalFallback, once: when nothing but the HTML script plugin
\* found scripts, the manifests at the origin are claimed and enqueued.  (The
\* enqueue claims again: seen already holds the target.)
Fallback ==
  LET dynamic == \E e \in entries : e.by # "HTMLScriptPlugin"
      targets == {[origin |-> base.origin, dir |-> <<>>, file |-> m] : m \in Manifests}
      fresh == IF dynamic THEN {} ELSE targets \ seen
  IN /\ Dry /\ ~fallbackChecked
     /\ fallbackChecked' = TRUE
     /\ Enqueue(seen \cup fresh, fresh, "FallbackEmp")
     /\ phase' = IF fresh = {} THEN "complete" ELSE "crawl"
     /\ UNCHANGED <<fragments, task>>
     /\ LoopUnchanged

Finish ==
  /\ Dry /\ fallbackChecked
  /\ phase' = "complete"
  /\ UNCHANGED <<fallbackChecked, claimVars, fragments, task>>
  /\ LoopUnchanged
-----------------------------------------------------------------------------
Prime == PrimeSkip \/ PrimeOk \/ PrimeFailed

Loop == StopOnAbort \/ StartBatch \/ ResolveFragments \/ Fallback \/ Finish

Fold(i) ==
  \/ FoldPrefix(i) \/ FoldPublic(i) \/ FoldUrl(i) \/ FoldClaimed(i)
  \/ FoldAbsolute(i) \/ FoldBare(i) \/ FoldPathNow(i) \/ FoldPath(i)
  \/ FoldPageSeen(i) \/ FoldPage(i)
  \/ FoldKeySeen(i) \/ FoldInline(i) \/ FoldRequest(i)

Process(i) ==
  \/ LoadCached(i) \/ DownloadOk(i) \/ DownloadBusy(i) \/ DownloadFailed(i)
  \/ Fold(i) \/ FlightOk(i) \/ FlightFailed(i)
  \/ Folded(i) \/ Stored(i) \/ MapSettled(i)

Next == Prime \/ Abort \/ Loop \/ \E i \in DOMAIN task : Process(i)

\* Every request settles (the fetcher bounds each with a timeout) and the
\* event loop runs what is ready; nobody has to abort.
Fairness ==
  /\ WF_vars(Prime) /\ WF_vars(Loop)
  /\ WF_vars(\E i \in DOMAIN task : Process(i))

Spec == Init /\ [][Next]_vars /\ Fairness
-----------------------------------------------------------------------------
Jobs == queue \cup DOMAIN task \cup done
Urls(items) == {i.url : i \in items}

\* Claims made without an item: the sibling maps of recorded scripts, and the
\* manifests of the fallback.
ProbedMaps == {MapUrl(u) : u \in Known}
FallbackClaims == IF fallbackChecked THEN {u \in seen : u.dir = <<>> /\ u.file \in Manifests}
                                     ELSE {}

(* No URL is fetched twice: however many tasks, fragments and prefixes lead *)
(* to it, one item is made of it, and that item is queued, in process or    *)
(* finished, never two of these.                                            *)
ClaimedOnce ==
  /\ \A i, j \in Jobs : i.url = j.url => i = j
  /\ queue \cap DOMAIN task = {} /\ queue \cap done = {} /\ DOMAIN task \cap done = {}

(* No claim is lost: a URL marked as seen, which no later discovery can     *)
(* queue again, has an item of its own, is the map of a recorded script or  *)
(* a manifest of the fallback.                                              *)
ClaimsAccounted == seen \subseteq Urls(Jobs) \cup ProbedMaps \cup FallbackClaims

\* What the plugins reported in the body served at u, inline scripts included.
Reported(u) ==
  LET page == ToSet(site[u].finds)
  IN page \cup UNION {ToSet(f.finds) : f \in {g \in page : g.tag = "inline"}}

(* A crawl that calls itself complete is closed: every URL reported in any  *)
(* page it read was claimed, every probe target resolved, every page        *)
(* entered unless the budget is spent, and nothing is pending.              *)
CrawlClosed ==
  phase = "complete" =>
    /\ queue = {} /\ DOMAIN task = {} /\ fragments = <<>>
    /\ \A u \in analysed : \A f \in Reported(u) :
         /\ f.tag = "url" => Rebase(f.url) \in seen
         /\ f.tag \in {"absolute", "bare", "path"} => Text(f) \in fragSeen
         /\ f.tag = "page" => \/ Rebase(f.url) \in seen
                              \/ f.html /\ Len(htmlEntries) = MaxPivots

(* What the scan lists as a script was served as one, or with an empty body, *)
(* at that address or at one that redirects to it: a block page answered for *)
(* a .js address never enters the result.                                    *)
OnlyScriptsReported ==
  \A u \in Known : \E r \in DOMAIN site :
    /\ u \in {r, site[r].final}
    /\ site[r].kind = "js" \/ (site[r].kind = "html" /\ site[r].empty)

(* The page budget pays for pages: the slots taken are slots of distinct     *)
(* pages, each of which is queued or was, and there are at most MaxPivots.   *)
PivotSlotsDistinct ==
  /\ Len(htmlEntries) <= MaxPivots
  /\ \A m, n \in DOMAIN htmlEntries :
       Rebase(htmlEntries[m]) = Rebase(htmlEntries[n]) => m = n
  /\ \A n \in DOMAIN htmlEntries : Rebase(htmlEntries[n]) \in Urls(Jobs)

(* Fragments are matched only when all there is to match them against is     *)
(* known: every URL claimed so far has been answered.                        *)
FragmentsWaitForQuiet ==
  [][fragments' = fragments \/ Len(fragments') > Len(fragments)
     \/ seen \subseteq Urls(done) \cup ProbedMaps \cup FallbackClaims]_vars

(* After an abort the loop takes no further batch: requests that were on     *)
(* their way settle, and nothing that was still queued is fetched.           *)
AbortStartsNothing == [][aborted => DOMAIN task' \subseteq DOMAIN task]_vars

(* Every scan ends, of a finite site, whatever links to whatever.            *)
Termination == <>(phase \in {"complete", "stopped", "rejected"})

(* The comments of discoveryLoop and tryConventionalFallback: a site whose   *)
(* scripts all came from script tags is probed for the manifests before the  *)
(* loop gives up.  The code does not do it: the manifests are claimed twice, *)
(* and the second claim, inside enqueue, fails.                              *)
FallbackProbesManifests ==
  (phase = "complete" /\ \A e \in entries : e.by = "HTMLScriptPlugin") =>
    \A m \in Manifests :
      [origin |-> base.origin, dir |-> <<>>, file |-> m] \in Urls(done)

Outcome == CASE phase = "complete" -> "complete"
             [] phase \in {"stopped", "rejected"} -> "cut"
             [] OTHER -> "open"

List == INSTANCE Worklist WITH
          pending <- Urls(queue \cup DOMAIN task), finished <- Urls(done), outcome <- Outcome

(* The loop is a worklist: each URL is taken up once and finished once, and  *)
(* complete means that nothing taken up is left.                             *)
ImplementsWorklist == List!ListSpec
=============================================================================
