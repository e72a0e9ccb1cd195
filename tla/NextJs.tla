------------------------------- MODULE NextJs -------------------------------
(***************************************************************************)
(* NextJsPlugin, src/src/plugins/nextjs.ts: what a page, a flight payload  *)
(* or a script of a Next.js site leads to.  The routes of a site are asked *)
(* for again with an RSC header, at addresses put together from the route  *)
(* tree, so the directory the site is deployed under must be found first.  *)
(*                                                                         *)
(* The path of a page and a route of the payload are sequences of parts; a *)
(* part is a sequence of characters, or, in a route, Mark: an empty one,   *)
(* "__PAGE__" or "$...".  The code puts them together to a text and looks  *)
(* for one text in the other, and so does the model.  An address is        *)
(* <<origin, text, query>>, an origin <<protocol, host>>.  What the other  *)
(* patterns match are sequences of captures, after decoding.               *)
(***************************************************************************)
EXTENDS Findings

CONSTANTS
  Served,    \* documents a site may serve
  Mark,
  Unread     \* no result yet

VARIABLES
  served,    \* the document in hand
  told       \* the plugin's result, Unread before

nextVars == <<served, told>>

Href == [unusable : BOOLEAN, parses : BOOLEAN, origin : STRING \X STRING, isAsset : BOOLEAN,
         path : Seq(Seq(STRING \ {"/"}))]

\* A path is cut into parts at its slashes.
ASSUME NextAssumption ==
  \A d \in Served : /\ d.path \in Seq(Seq(STRING \ {"/"}))
                    /\ d.routes \in Seq(Seq({Mark} \cup Seq(STRING)))
                    /\ d.links \in Seq(Href)

NextPrecheck(d) == d.type = "flight" \/ (d.type \in {"html", "js"} /\ d.marked)

KeepPart(parts, part) == IF part = Mark THEN parts ELSE Append(parts, part)
PartsOf(route) == FoldLeft(KeepPart, <<>>, route)
Joined(parts) == FlattenSeq([n \in DOMAIN parts |-> <<"/">> \o parts[n]])
PathName(parts) == IF parts = <<>> THEN <<"/">> ELSE Joined(parts)

\* String.indexOf: the places where a text starts in a path, and the first.
Places(text, path) ==
  {i \in 1..Len(path) : i + Len(text) - 1 <= Len(path)
                        /\ SubSeq(path, i, i + Len(text) - 1) = text}
UpTo(text, path) == SubSeq(path, 1, Min(Places(text, path)) - 1)

KeepRoute(routes, route) == IF PartsOf(route) = <<>> THEN routes ELSE Append(routes, route)
Informative(routes) == FoldLeft(KeepRoute, <<>>, routes)

\* Bug: the last route that is found decides, not the first one.
InferBasePathOfLast(path, routes) ==
  LET found == SelectSeq(Informative(routes), LAMBDA r : Places(Joined(PartsOf(r)), path) # {})
  IN  IF found = <<>> THEN <<>> ELSE UpTo(Joined(PartsOf(Last(found))), path)

\* What comes before the first route in the path of the page; or before its
\* last part, if every part is in the path somewhere.
InferBasePath(path, routes) ==
  LET parts == PartsOf(Informative(routes)[1])
      tail == <<"/">> \o Last(parts)
  IN  CASE Informative(routes) = <<>> -> <<>>
        [] Informative(routes) # <<>> /\ Places(Joined(parts), path) # {} ->
             UpTo(Joined(parts), path)
        [] Informative(routes) # <<>> /\ Places(Joined(parts), path) = {}
           /\ (\A n \in DOMAIN parts : Places(<<"/">> \o parts[n], path) # {})
           /\ Min(Places(tail, path)) > 1 -> UpTo(tail, path)
        [] OTHER -> <<>>

RouteAddresses(d) ==
  LET base == InferBasePath(PathName(d.path), d.routes)
      routes == Informative(d.routes)
  IN  [n \in DOMAIN routes |-> <<d.origin, base \o Joined(PartsOf(routes[n])), "">>]

\* Links to pages of the same host, without query and fragment.
AddHref(d, asked, l) ==
  IF l.unusable \/ ~l.parses \/ l.origin[2] # d.origin[2] \/ l.isAsset THEN asked
  ELSE Append(asked, <<l.origin, PathName(l.path), "">>)
LinkAddresses(d) == FoldLeft(LAMBDA asked, l : AddHref(d, asked, l), <<>>, d.links)

ManifestsOf(id) ==
  [n \in 1..3 |-> <<"/_next/static/", id,
                    <<"/_buildManifest.js", "/_ssgManifest.js", "/_appManifest.js">>[n]>>]

\* Of the build ids found the first that is not empty is kept.
BuildIds(ids) == SelectSeq(ids, LAMBDA id : id # "")
KeepBuildId(b, ids) == IF ids = <<>> THEN b ELSE AddPublicPath(b, ids[1])

\* probeRequests are returned once each, in order.
DedupeProbes(addresses) == FoldLeft(Include, <<>>, addresses)

\* Origins of assets, unless a placeholder stands in them.
Prepends(d) == FoldLeft(Include, <<>>, SelectSeq(d.assetPrefixes, LAMBDA p : p # Mark))

ResultOf(b, addresses) == [found |-> b, prepends |-> <<>>, probes |-> DedupeProbes(addresses)]

AddManifests(b, d, ids) ==
  IF ids = <<>> THEN b
  ELSE AddAbsolutes(AddProbes(b, ManifestsOf(ids[1])),
                    [n \in 1..3 |-> <<d.origin, ManifestsOf(ids[1])[n]>>])

\* The page itself comes first, then its routes, then its links.
AnalyzeHtml(d) ==
  LET firsts == <<d.buildId, d.flightBuild>>
      ids == BuildIds(firsts)
      b == AddManifests(KeepBuildId(NewBuilder, ids), d, ids)
      own == <<d.origin, PathName(d.path), d.query>>
  IN  [ResultOf(AddAbsolutes(b, d.flightChunks),
                <<own>> \o RouteAddresses(d) \o LinkAddresses(d)) EXCEPT !.prepends = Prepends(d)]

AnalyzeFlight(d) ==
  LET b == AddAbsolutes(AddAbsolutes(NewBuilder, d.flightChunks), d.hinted)
  IN  ResultOf(KeepBuildId(b, BuildIds(<<d.flightBuild>>)), RouteAddresses(d))

\* Ids with their hashes, in the four layouts Next.js has used.
NumericChunks(pairs) ==
  FlattenSeq([n \in DOMAIN pairs |->
    <<<<"static/chunks/", pairs[n], ".js">>, <<"static/", pairs[n], ".js">>,
      <<"chunks/", pairs[n], ".js">>, <<"", pairs[n], ".function.chunk.js">>>>])

NextChunks(builders) ==
  FlattenSeq([n \in DOMAIN builders |->
    [k \in DOMAIN builders[n].hashes |->
       <<builders[n].prefix, builders[n].hashes[k], builders[n].suffix>>]])

\* A page of the build manifest: its chunks under /_next/, and as they stand.
AddPage(b, origin, p) ==
  FoldLeft(LAMBDA acc, chunk : AddAbsolute(AddProbe(acc, <<origin, "/_next/", chunk>>), chunk),
           b, p.chunks)

\* Turbopack: the chunks other chunks need, and the pages.  Pages are asked for
\* both with the header and without it.
AddOtherChunks(b, d) ==
  LET chunks == SelectSeq(d.otherChunks, LAMBDA c : c.static)
  IN  AddProbes(b, [n \in DOMAIN chunks |-> <<d.origin, "/_next/", chunks[n].path>>])

SortedPages(d) == [n \in DOMAIN d.sortedPages |-> <<d.origin, d.sortedPages[n], "">>]

AnalyzeJs(d) ==
  LET urls == AddAbsolutes(NewBuilder, NextChunks(d.builders) \o NumericChunks(d.numbered)
                                       \o d.relative)
      marked == AddProbes(urls, [n \in DOMAIN d.required |->
                                   <<"__webpack_require_e__", d.required[n]>>])
      paged == FoldLeft(LAMBDA acc, p : AddPage(acc, d.origin, p), marked, d.pages)
  IN  ResultOf(FoldLeft(AddIntermediate, AddOtherChunks(paged, d), SortedPages(d)),
               [n \in DOMAIN d.pages |-> <<d.origin, d.pages[n].path, "">>] \o SortedPages(d))

NextAnalyze(d) ==
  CASE d.type = "flight" -> AnalyzeFlight(d)
    [] d.type = "html" -> AnalyzeHtml(d)
    [] OTHER -> AnalyzeJs(d)

NextInit == served \in Served /\ told = Unread

ReadServed ==
  /\ told = Unread /\ NextPrecheck(served)
  /\ told' = NextAnalyze(served)
  /\ UNCHANGED served
-----------------------------------------------------------------------------
\* The page is its own route below the directory of the first n parts of its
\* path, and no part of the directory begins like the route.
Deployed(d, n) ==
  LET own == PartsOf(Informative(d.routes)[1])
  IN  /\ Informative(d.routes) # <<>> /\ d.path = SubSeq(d.path, 1, n) \o own
      /\ \A i \in 1..n : ~IsPrefix(own[1], d.path[i])

(* The routes of a deployed site are asked for where the site has them,    *)
(* although the directory it is deployed under is found by looking for one *)
(* text in another: each route of the tree under the directory of the      *)
(* page, the page itself and its links to pages, all on its host and none  *)
(* of them twice.                                                          *)
RoutesUnderBase ==
  told # Unread /\ served.type \in {"html", "flight"} =>
    LET d == served
        asked == ToSet(told.probes)
        pages == IF d.type = "html"
                 THEN {<<d.origin, PathName(d.path), d.query>>} \cup ToSet(LinkAddresses(d))
                 ELSE {}
    IN  /\ Len(told.probes) = Cardinality(asked)
        /\ \A p \in asked : p[1][2] = d.origin[2]
        /\ \A n \in 0..Len(d.path) : Deployed(d, n) =>
             asked = pages \cup {<<d.origin, Joined(SubSeq(d.path, 1, n)) \o Joined(PartsOf(r)), "">> :
                                   r \in ToSet(Informative(d.routes))}
=============================================================================
