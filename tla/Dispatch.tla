------------------------------ MODULE Dispatch ------------------------------
(***************************************************************************)
(* dispatchPlugins, src/src/extractor/pipeline.ts: every plugin that       *)
(* applies to a document is run on it, and each result stands at its       *)
(* plugin's place in the registry, which is the order they are taken in.   *)
(* Documents come in any order, as their downloads do; the plugins of one  *)
(* scan see all of them.                                                   *)
(***************************************************************************)
EXTENDS Webpack, Entries

CONSTANTS
  Doc,        \* the documents a site may serve
  MaxDocs     \* bound: documents analysed

\* A file of another type is told by its extension, so its name has a dot.
ASSUME DispatchAssumption ==
  \A d \in Doc :
    /\ d.links \in Seq(PageLink)
    /\ \A n \in DOMAIN d.links : d.links[n].otherType => d.links[n].dotted
    /\ d.entries \in Seq(MicroEntry) /\ d.arrayEntries \in Seq(MicroEntry)
    /\ {d.stringChunkHashes, d.chunkHashes, d.chunkNumericHashes, d.shortHashes}
         \subseteq Seq(STRING \X STRING)
    /\ {d.lType, d.chunkPushes, d.loadCalls, d.loadStringIds, d.fingerprintIds, d.existingIds}
         \subseteq Seq(STRING)

VARIABLE analysed   \* history: documents with the results they gave

dispatchVars == <<analysed, webpackVars>>

\* Registration order; the micro-frontend plugins stand for four alike, and
\* the last is a plugin a library caller registered.
Registration == <<"WebpackPlugin", "QiankunPlugin", "IcestarkPlugin", "HTMLPivotPlugin", "Custom">>

\* The caller's plugin may throw from precheck, fail in analyze, or add a page.
Conduct == {"throws", "fails", "finds"}

Applies(plugin, d, conduct) ==
  CASE plugin = "WebpackPlugin" -> WebpackPrecheck(d)
    [] plugin \in {"QiankunPlugin", "IcestarkPlugin"} -> MicroPrecheck(d)
    [] plugin = "HTMLPivotPlugin" -> PivotPrecheck(d)
    [] OTHER -> conduct # "throws"

Analyze(plugin, d) ==
  CASE plugin = "WebpackPlugin" -> WebpackAnalyze(d)
    [] plugin = "QiankunPlugin" -> MicroAnalyze(d)
    [] plugin = "IcestarkPlugin" -> IcestarkAnalyze(d)
    [] plugin = "HTMLPivotPlugin" -> PivotAnalyze(d)
    [] OTHER -> AddIntermediate(NewBuilder, <<"custom", "">>)

\* A plugin that throws or fails is left out; the others' results stand.
DispatchPlugins(d, conduct) ==
  LET settled(p) == Applies(p, d, conduct) /\ (p # "Custom" \/ conduct # "fails")
  IN  [n \in {k \in DOMAIN Registration : settled(Registration[k])} |->
         [fromPlugin |-> Registration[n], found |-> Analyze(Registration[n], d)]]

DispatchInit == WebpackInit /\ analysed = <<>>

Dispatch(d, conduct) ==
  /\ Len(analysed) < MaxDocs
  /\ analysed' = Append(analysed, [doc |-> d, results |-> DispatchPlugins(d, conduct)])
  /\ IF WebpackPrecheck(d) THEN WebpackLearns(d) ELSE UNCHANGED webpackVars

DispatchNext == \E d \in Doc, conduct \in Conduct : Dispatch(d, conduct)
-----------------------------------------------------------------------------
FoundBy(plugin, results) ==
  LET own == {k \in DOMAIN results : results[k].fromPlugin = plugin}
  IN  IF own = {} THEN NewBuilder ELSE results[CHOOSE k \in own : TRUE].found

Learning(d) == WebpackPrecheck(d) /\ FallsThrough(d)

\* Of a history h of documents, the first n: the scripts that reached the
\* fallbacks, the ids in them, the first hash of each, and the fingerprints.
Learners(h, n) == {m \in 1..n : Learning(h[m].doc)}
Naming(h, m, id) ==
  {p \in DOMAIN h[m].doc.stringChunkHashes : h[m].doc.stringChunkHashes[p][1] = id}
KnownIds(h, n) ==
  UNION {{p[1] : p \in ToSet(h[m].doc.stringChunkHashes)} : m \in Learners(h, n)}
FirstHash(h, n, id) ==
  LET m == Min({k \in Learners(h, n) : Naming(h, k, id) # {}})
  IN  h[m].doc.stringChunkHashes[Min(Naming(h, m, id))][2]
Printed(h, n) == {m \in Learners(h, n) : h[m].doc.fingerprint # ""}

\* The hashes a script itself pairs with ids, which it yields besides.
OwnHashes(d) ==
  {p[2] : p \in ToSet(d.chunkHashes) \cup ToSet(d.chunkNumericHashes) \cup ToSet(d.shortHashes)}

(* A chunk id and its hash may be in different scripts, and scripts are    *)
(* analysed as they arrive.  Whatever the order, a script that reaches the *)
(* fallbacks yields every id known by then with the first hash any of them *)
(* gave it; while no id is known, it yields the ids of its load calls; and *)
(* the first fingerprint seen names its chunks.  It yields no other hash   *)
(* that it does not hold itself: none of another script's but the first    *)
(* for that very id, and no later fingerprint.                             *)
ChunksFollowFirstHash ==
  \A n \in DOMAIN analysed : Learning(analysed[n].doc) =>
    LET d == analysed[n].doc
        probes == ToSet(FoundBy("WebpackPlugin", analysed[n].results).probeTargets)
    IN  /\ \A id \in KnownIds(analysed, n) :
             <<DetectPathPrefix(d), id, ".", FirstHash(analysed, n, id), ".js">> \in probes
        /\ KnownIds(analysed, n) = {} => \A id \in ToSet(d.loadStringIds) :
             \E f \in probes : f[2] = id /\ f[4] \in {"", "*"}
        /\ Printed(analysed, n) # {} => \A id \in ToSet(d.loadStringIds) :
             <<d.dir, id, ".", analysed[Min(Printed(analysed, n))].doc.fingerprint, ".js">>
               \in probes
        /\ \A f \in probes :
             \/ f[4] \in {"", "*"} \cup OwnHashes(d)
             \/ f[2] \in KnownIds(analysed, n) /\ f[4] = FirstHash(analysed, n, f[2])
             \/ Printed(analysed, n) # {} /\ f[4] = analysed[Min(Printed(analysed, n))].doc.fingerprint

Usable(link) == ~link.blank /\ ~link.unusable /\ ~link.otherType /\ link.leads = "same"

(* Whatever an HTML page links to, HTMLPivotPlugin names no more pages for *)
(* it than the limit and two, the guesses that go with the last link; all  *)
(* of them are on the page's host; and a link is left out only after as    *)
(* many as the limit were named.  A micro-frontend plugin names no more    *)
(* than the limit for any document.  Of the pages HTMLPivotPlugin takes    *)
(* from a script nothing is said: their number has no limit there.         *)
EntriesBounded ==
  \A n \in DOMAIN analysed :
    LET d == analysed[n].doc
        found == analysed[n].results
        pages == FoundBy("HTMLPivotPlugin", found).intermediates
    IN  /\ \A plugin \in {"QiankunPlugin", "IcestarkPlugin"} :
             Len(FoundBy(plugin, found).intermediates) <= MAX_MICRO_APP_ENTRIES
        /\ d.type = "html" /\ d.hasLinks =>
             /\ Len(pages) <= MAX_MICRO_APP_ENTRIES + 2
             /\ \A p \in ToSet(pages) : \E k \in DOMAIN d.links :
                  Usable(d.links[k]) /\ p[1] = d.links[k].name
             /\ \A k \in DOMAIN d.links : Usable(d.links[k]) =>
                  \/ <<d.links[k].name, "">> \in ToSet(pages)
                  \/ Len(pages) >= MAX_MICRO_APP_ENTRIES
=============================================================================
