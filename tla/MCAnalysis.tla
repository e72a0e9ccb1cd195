----------------------------- MODULE MCAnalysis -----------------------------
EXTENDS Analysis

(* Exchange. *)

Ck(n, v, d, p, m, e) == [name |-> n, value |-> v, domain |-> d, path |-> p, maxAge |-> m, expires |-> e]
An(cs, ch, l, f, ra) == [cookies |-> cs, chunks |-> ch, label |-> l, form |-> f, ratio |-> ra]
MCHostOf == [r1 |-> <<"com", "a">>, r2 |-> <<"com", "a", "cdn">>, r3 |-> <<"com", "a">>]
MCPathOf == [r1 |-> <<"">>, r2 |-> <<"js", "x">>, r3 |-> <<"js", "">>]
MCOneOff == [r1 |-> {}, r2 |-> {"RSC"}, r3 |-> {}]
MCInjected == <<Ck("cf", "0", None, None, None, None)>>
MCAnswer == {
  An(<<Ck("cf", "1", None, None, None, None)>>, <<2, 1>>, "", "plain", 1),
  An(<<Ck("s", "2", <<"com", "a">>, <<"js">>, 1, None)>>, <<1, 2>>, "x-gzip", "gzip", 2),
  An(<<Ck("cf", "3", None, None, 0, None), Ck("s", "4", <<"com", "a">>, <<"js">>, None, 3)>>,
     <<2, 2, 1>>, "gzip", "gzip", 3),
  An(<<>>, <<1>>, "deflate", "deflate-raw", 2),
  An(<<Ck("t", "5", None, <<"js", "">>, None, 2)>>, <<3, 1>>, "br", "plain", 1)}

(* Source maps. *)

Of(sources, contents, root, mappings, deltas) ==
  [form |-> "object", sources |-> sources, sourcesContent |-> contents, sourceRoot |-> root,
   mappings |-> mappings, deltas |-> deltas]
Segments == {<<0>>, <<3>>, <<2, 0, 1, -1>>, <<4, 1, 0, 16>>, <<1, -1, 2, 5, 511>>, <<5, 0, -2, 40, -3>>}
Lines == {<<>>} \cup {<<s>> : s \in Segments} \cup (Segments \X Segments)
Extreme == 1073741823
Deltas == {<<l, <<s>>>> : l \in Lines, s \in Segments}
          \cup {<<<<s>>, <<>>, l>> : s \in {<<2, 0, 1, -1>>, <<4, 1, 0, 16>>}, l \in Lines}
          \cup {<<<<<<Extreme>>, <<-Extreme>>>>>>, <<<<<<-Extreme, 0, 0, 1>>>>, <<<<Extreme, 1, 1024, -1>>>>>>,
                <<<<<<0, 0, Extreme, -Extreme>>>>>>, <<<<<<1, 0, 0, -Extreme>>, <<1, 1, 2, Extreme, 1024>>>>>>}
X == <<"x">>
Garbage == {<<Invalid>>, <<4, 0, 0, 0, Comma, 40, Comma, 2>>, <<4, 2, Invalid, 0, Semicolon, 2, 0, 0, 0>>,
            <<4, 2, 0, 0, Comma, Comma, 2, Semicolon, Semicolon, 2, 1, 4, 0>>,
            <<32, 32, 32, 32, 32, 32, 32, 2>>}
Ten == <<"x", "x", "x", "x", "x", "x", "x", "x", "x", "x">>
Up2 == <<".", ".", "/", ".", ".", "/">>
Names == {
  X, <<>>, <<" ", ".", "/", "x", " ">>, <<"~", "/", "x">>, <<"x", "\\", ".", ".">>,
  <<"x", ":", "/", "/", "/", ".", "/", "x", "/", "x">>, <<"x", ":", "/", "/", "x">>,
  Up2 \o X, X \o <<"/">> \o Up2 \o X, <<" ", ".", ".", " ", "/", "x", ":">>,
  <<"x", "/", "x", "/", "x", "/", "x">>, <<"x", "/", "x", "x", "x", "/", "x", "x", "x">>,
  Ten, <<"x", "x", "x", "x", "x", "/", ".", ".">> \o Ten, <<"x", "x", "x", "x", "x", "x", "x", "/">> \o Ten,
  <<"x", "x", "x", "x", "x", "/", ".", ".">> \o Ten \o <<"/", ".">>, <<"map", "/", "x">>}
MCRawMap ==
  {Of(<<X, <<"x", "/", "x">>>>, c, Absent, Encoded(d), d) :
     d \in Deltas, c \in {Absent, <<Absent, "">>}}
  \cup {Of(<<X, Up2>>, Absent, Absent, g, Absent) : g \in Garbage}
  \cup {Of(<<a, b>>, <<"t1", "t2">>, r, Absent, Absent) :
          a, b \in Names, r \in {Absent, <<"/", "x">>, Up2}}
  \cup {Of(<<a, X, X>>, <<"t1", "t2", "t3">>, Absent, Absent, Absent) : a \in Names}
  \cup {Of(<<a, a, X, a>>, <<"t1", "t2", Absent, "t3">>, Absent, <<2, 0, 0, 0>>, Absent) : a \in Names}
  \cup {Of(<<Absent>>, <<"t1">>, Absent, Absent, Absent), Of(<<>>, Absent, Absent, Absent, Absent),
        [form |-> "unreadable"]}
MCScript == {<<0>>, <<6>>, <<4, 0, 5>>, <<3, 7>>}

(* Plugins. *)

NoBody == [num |-> <<>>, fcnum |-> <<>>, quoted |-> <<>>, ident |-> <<>>, inline |-> TRUE]
Nums == [NoBody EXCEPT !.num = <<<<"1", "ab12cd">>, <<"2", "home">>, <<"1", "ee99ff">>>>]
Names3 == [NoBody EXCEPT !.num = <<<<"1", "main">>>>, !.ident = <<<<"app", "core">>>>]
Plain ==
  [type |-> "js", markers |-> TRUE, minimalRuntime |-> FALSE, publicPath |-> NoMatch,
   chunkMap |-> NoMatch, staticChunk |-> NoMatch, chunkReturn |-> NoMatch, requireU |-> NoMatch,
   federation |-> NoMatch, ternary |-> NoMatch, arrowFnPrefix |-> NoMatch,
   idValues |-> <<>>, stringKeys |-> <<>>, directPaths |-> <<>>, numericHashes |-> <<>>,
   pathPrefix |-> NoMatch, pathPrefixAlt |-> NoMatch, fallbackPrefixes |-> <<>>,
   chunkHashes |-> <<>>, chunkNumericHashes |-> <<>>, jsPrefix |-> "", querySuffix |-> "",
   lType |-> <<>>, chunkPushes |-> <<>>, selfRegistered |-> FALSE, shortHashes |-> <<>>,
   loadCalls |-> <<>>, stringChunkHashes |-> <<>>, loadStringIds |-> <<>>,
   fingerprint |-> "", fingerprintIds |-> <<>>, existingIds |-> <<>>, dir |-> "https://a/js/",
   hasLinks |-> FALSE, links |-> <<>>, hasPages |-> FALSE, pages |-> <<>>,
   registers |-> FALSE, entries |-> <<>>, arrayEntries |-> <<>>]

Link(n) == [name |-> n, blank |-> FALSE, unusable |-> FALSE, otherType |-> FALSE, dotted |-> TRUE,
            slashed |-> FALSE, query |-> FALSE, leads |-> "same"]
Route(n) == [Link(n) EXCEPT !.dotted = FALSE]
Entry(v) == [value |-> v, near |-> TRUE, placed |-> TRUE, ends |-> "/", parses |-> TRUE]
Remote == [path |-> "https://cdn/", absolute |-> TRUE, rooted |-> FALSE]
Rooted == [path |-> "/remote", absolute |-> FALSE, rooted |-> TRUE]

MCDoc ==
  { \* the runtime, with the hashes
    [Plain EXCEPT !.pathPrefix = "static/js/",
       !.stringChunkHashes = <<<<"chunk-a", "h1">>, <<"chunk-b", "h2">>, <<"chunk-a", "css1">>>>,
       !.chunkHashes = <<<<"chunk-a", "h1">>, <<"chunk-b", "h2">>, <<"chunk-a", "css1">>>>],
    \* another build's, over some of the same ids
    [Plain EXCEPT !.fallbackPrefixes = <<"a/b/", "c/d/">>,
       !.stringChunkHashes = <<<<"chunk-a", "h9">>, <<"chunk-c", "h3">>>>],
    \* scripts that load chunks
    [Plain EXCEPT !.markers = FALSE, !.minimalRuntime = TRUE, !.pathPrefixAlt = "static/js/",
       !.loadStringIds = <<"chunk-a", "chunk-2d0b2b28">>, !.fingerprint = "f1.111",
       !.publicPath = Remote],
    [Plain EXCEPT !.loadStringIds = <<"chunk-d">>, !.fingerprint = "f2.222",
       !.fingerprintIds = <<"chunk-e">>, !.existingIds = <<"chunk-d">>,
       !.selfRegistered = TRUE, !.shortHashes = <<<<"7", "ab12cd">>, <<"7", "ee99ff">>>>,
       !.loadCalls = <<"7", "0">>, !.chunkPushes = <<"7">>, !.lType = <<"p/">>,
       !.idValues = <<<<"7", "page">>>>, !.chunkNumericHashes = <<<<"7", "ab12cd">>>>,
       !.querySuffix = ".js?v"],
    \* runtimes of the first seven shapes; the hashes of the first are not learned
    [Plain EXCEPT !.chunkMap = [prefix |-> "js/", separator |-> "", body |-> Nums, suffix |-> ".js"],
       !.publicPath = Rooted, !.stringChunkHashes = <<<<"chunk-b", "zz">>>>],
    [Plain EXCEPT !.chunkMap = [prefix |-> "js/", separator |-> ".", body |-> NoBody, suffix |-> ".js"],
       !.staticChunk = [prefix |-> "s/", names |-> [Names3 EXCEPT !.inline = FALSE],
                        hashes |-> [Nums EXCEPT !.inline = FALSE]],
       !.idValues = <<<<"1", "ab12cd">>, <<"2", "abc">>>>],
    [Plain EXCEPT !.chunkReturn = "r/", !.publicPath = Remote,
       !.idValues = <<<<"1", "ab12cd">>, <<"1", "home">>, <<"1", "ee99ff">>>>,
       !.arrowFnPrefix = "z/"],
    [Plain EXCEPT !.requireU = [prefix |-> "u/", names |-> Names3, hashes |-> NoBody],
       !.stringKeys = <<<<"app", "ab12cd">>, <<"app", "ee99ff">>>>, !.directPaths = <<"d.js">>],
    [Plain EXCEPT !.federation = [before |-> NoMatch, names |-> Names3, hashes |-> Nums, suffix |-> ".js"]],
    [Plain EXCEPT !.ternary = [id |-> "1", name |-> "main", separator |-> "-", body |-> Nums],
       !.numericHashes = <<<<"1", "ab12cd">>>>],
    [Plain EXCEPT !.arrowFnPrefix = "w/", !.numericHashes = <<<<"1", "ab12cd">>, <<"1", "ee99ff">>>>],
    \* pages
    [Plain EXCEPT !.type = "html", !.hasLinks = TRUE,
       !.links = <<Link("p"), [Route("q") EXCEPT !.query = TRUE], Link("p"), Route("r"), Route("s"), Link("t")>>],
    [Plain EXCEPT !.type = "html", !.hasLinks = TRUE,
       !.links = <<[Link("o") EXCEPT !.leads = "other"], [Link("i") EXCEPT !.otherType = TRUE],
                   [Route("#") EXCEPT !.unusable = TRUE], [Route("") EXCEPT !.blank = TRUE],
                   Link("p"), Link("q"), Route("r"), [Route("d") EXCEPT !.slashed = TRUE]>>],
    \* sub-applications
    [Plain EXCEPT !.markers = FALSE, !.hasPages = TRUE, !.pages = <<Link("p"), Link("q")>>,
       !.registers = TRUE, !.arrayEntries = <<Entry("/m/"), Entry("/n/")>>,
       !.entries = <<Entry("/a/"), [Entry("/b") EXCEPT !.ends = "other"], Entry("/c/"),
                     [Entry("d/") EXCEPT !.placed = FALSE], [Entry("/e/") EXCEPT !.near = FALSE],
                     [Entry("/f.html") EXCEPT !.ends = "html"], Entry("/g/")>>] }

(* Pages with inline scripts. *)

Piece(k, t) == [kind |-> k, text |-> t, quote |-> ""]
Str(q, t) == [kind |-> "string", text |-> t, quote |-> q]
Inline(pieces) == [kind |-> "script", pieces |-> pieces]
Tag(t) == [kind |-> "tag", tag |-> t]
Code == Piece("code", <<"x">>)
Parts ==
  {Tag(t) : t \in {"<script src>", "<script/>", "<scripting>", "x", "</script>", "'", "cdn"}}
  \cup {Inline(p) : p \in {
    <<>>, <<Code>>, <<Piece("code", <<"cdn">>)>>,
    <<Code, Str("'", <<"<script>", "</script>">>), Code>>,
    <<Str("\"", <<"'", "</script>", "\\", "\"">>)>>, <<Str("backtick", <<"</script>", "\"">>)>>,
    <<Piece("comment", <<"x", "</script>", "x">>), Code>>,
    <<Piece("comment", <<"</script>">>), Str("'", <<"\\", "'", "</script>">>), Piece("code", <<"</scriptfoo>">>)>>,
    <<Piece("comment", <<"x", "'">>), Code>>}}
  \cup {[kind |-> "manifest", pieces |-> p] : p \in {
    <<Str("\"", <<"p1">>)>>,
    <<Str("\"", <<"}">>), Piece("object", <<"x">>), Str("'", <<"p1">>)>>,
    <<Str("\"", <<"\\", "\"", "{", "p2">>), Code, Str("'", <<"p1">>)>>,
    <<Piece("object", <<"p2">>), Str("\"", <<"</script>", "}">>), Str("\"", <<"p1">>)>>}}
\* Enough for each manifest and a tag beside it, or three scripts.
MaxSymbols == 20
MCPage == {p \in UNION {[1..n -> Parts] : n \in 1..3} : Len(Html(p)) <= MaxSymbols}

(* Documents of a Next.js site. *)

Origin == <<"https", "h">>
HrefTo(path) == [unusable |-> FALSE, parses |-> TRUE, origin |-> Origin, isAsset |-> FALSE, path |-> path]
NextDoc ==
  [type |-> "html", marked |-> TRUE, origin |-> Origin, path |-> <<>>, query |-> "", routes |-> <<>>,
   links |-> <<>>, assetPrefixes |-> <<>>, buildId |-> "", flightBuild |-> "", flightChunks |-> <<>>,
   hinted |-> <<>>, builders |-> <<>>, numbered |-> <<>>, relative |-> <<>>, required |-> <<>>,
   pages |-> <<>>, otherChunks |-> <<>>, sortedPages |-> <<>>]
A == <<"a">>
B == <<"b">>
AB == <<"a", "b">>
RouteTrees == UNION {[1..n -> {A, B, AB, Mark}] : n \in 1..3}
Bases == {<<>>, <<A>>, <<AB>>, <<B, A>>}
Scripted ==
  {[NextDoc EXCEPT !.type = "js", !.builders = <<[prefix |-> "p", hashes |-> <<"h1", "h2">>, suffix |-> ".js"]>>,
      !.numbered = <<"n1", "n1">>, !.required = <<"r">>, !.relative = <<"s">>,
      !.pages = <<[path |-> <<"/", "a">>, chunks |-> <<"c1", "c1">>]>>,
      !.otherChunks = <<[static |-> TRUE, path |-> "o"], [static |-> FALSE, path |-> "q"]>>,
      !.sortedPages = <<<<"/", "a">>, <<"/", "b">>>>]}
MCServed ==
  Scripted \cup {[NextDoc EXCEPT !.marked = FALSE]}
  \cup {[NextDoc EXCEPT !.type = t, !.path = base \o own, !.query = q, !.routes = <<first, second>>,
           !.flightBuild = "b1", !.assetPrefixes = <<"cdn", Mark, "cdn">>,
           !.flightChunks = <<"c1">>, !.hinted = <<"c1">>,
           !.links = <<HrefTo(base \o own), HrefTo(base \o <<B>>), [HrefTo(<<AB>>) EXCEPT !.origin = <<"http", "h">>],
                       [HrefTo(<<A>>) EXCEPT !.origin = <<"https", "o">>], [HrefTo(<<B>>) EXCEPT !.isAsset = TRUE]>>] :
           t \in {"html", "flight"}, base \in Bases, q \in {"", "?q"}, first \in RouteTrees,
           second \in {<<A>>, <<B, AB>>, <<Mark>>}, own \in {<<A>>, <<A, B>>, <<AB>>, <<B, A, B>>, <<B, A>>}}
=============================================================================
