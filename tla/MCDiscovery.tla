---------------------------- MODULE MCDiscovery -----------------------------
(* Small sites for the discovery loop, each built around some of its       *)
(* branches.  Every address a site does not list is refused.               *)
EXTENDS Discovery

MCOrigin == {"site", "cdn", "dev"}
MCSegment == {"static"}
Scripts == {"main.js", "vendor.js", "chunk.js", "lazy.js"}
MCFile == Scripts \cup {"index", "home", "p1", "p2", "p3", "manifest", "flight",
                        "emp.json", "209-*.js", "main.js.map", "any.map"}
MCMapOf == [f \in MCFile |-> IF f = "main.js" THEN "main.js.map" ELSE "any.map"]
MCPlugin == {"CLI", "FallbackEmp", "HTMLScriptPlugin", "Unknown", "Webpack"}
MCKey == {"index#0", "p1#0", "probe:flight"}

At(origin, dir, file) == [origin |-> origin, dir |-> dir, file |-> file]
Root(file) == At("site", <<>>, file)
MCStart == Root("index")

\* Findings
Found(tag, by) == [tag |-> tag, by |-> by, awaits |-> FALSE]
ScriptTag(u) == Found("url", "HTMLScriptPlugin") @@ [url |-> u]
Link(u) == Found("url", "Webpack") @@ [url |-> u]
Frag(dir, file) == [rooted |-> FALSE, dir |-> dir, file |-> file]
Bare(file, from) == [Found("bare", "Webpack") EXCEPT !.awaits = TRUE]
                      @@ [frag |-> Frag(<<>>, file), from |-> from]
Path(frag, from, now) == [Found("path", "Webpack") EXCEPT !.awaits = TRUE]
                           @@ [frag |-> frag, from |-> from, now |-> now]
Absolute(u) == [Found("absolute", "Webpack") EXCEPT !.awaits = TRUE] @@ [url |-> u]
Entered(u) == Found("page", "Webpack") @@ [url |-> u, html |-> TRUE]
ManifestAt(u) == Found("page", "Webpack") @@ [url |-> u, html |-> FALSE]
Inline(key, finds) == [Found("inline", "Unknown") EXCEPT !.awaits = TRUE]
                        @@ [key |-> key, finds |-> finds]
Request(key, u) == [Found("request", "Unknown") EXCEPT !.awaits = TRUE]
                     @@ [key |-> key, url |-> u]
PublicPath(origin, dir) == Found("public", "Webpack")
                             @@ [public |-> [origin |-> origin, dir |-> dir]]
Prepend(origin, dir) == Found("prefix", "Webpack")
                          @@ [prefix |-> [origin |-> origin, dir |-> dir]]

\* Pages, served at u
Serve(u, kind, finds) ==
  u :> [answers |-> {"ok"}, final |-> u, kind |-> kind, empty |-> FALSE,
        announcesMap |-> FALSE, finds |-> finds]
Doc(u, finds) == Serve(u, "html", finds)
Script(u, finds) == Serve(u, "js", finds)
Moved(u, to, finds) == u :> [Doc(u, finds)[u] EXCEPT !.final = to]
Answering(page, u, answers) == u :> [page[u] EXCEPT !.answers = answers]

\* A bundled application: two scripts whose chunks are found by fragments, a
\* vendor script that may be rate limited, and a link that leads nowhere.
Bundled ==
  Answering(Doc(MCStart, <<Prepend("cdn", <<>>), ScriptTag(Root("main.js")),
                           ScriptTag(Root("vendor.js")), ScriptTag(Root("p3"))>>),
            MCStart, {"ok", "busy"})
  @@ Script(Root("main.js"), <<PublicPath("cdn", <<"static">>),
                               PublicPath(NoOrigin, <<>>),
                               Path(Frag(<<"static">>, "chunk.js"), Root("main.js"), FALSE),
                               Path(Frag(<<"static">>, "209-*.js"), Root("main.js"), FALSE)>>)
  @@ Answering(Script(Root("vendor.js"),
                      <<Bare("lazy.js", Root("vendor.js")),
                        Absolute(At("cdn", <<"static">>, "lazy.js")),
                        Path(Frag(<<"static">>, "chunk.js"), Root("vendor.js"), FALSE)>>),
               Root("vendor.js"), {"ok", "busy", "lost"})
  @@ Script(At("site", <<"static">>, "chunk.js"), <<Link(Root("main.js")), Link(At("site", <<"static">>, "chunk.js"))>>)
  @@ Script(At("cdn", <<"static">>, "lazy.js"), <<>>)

\* A site whose entry page redirects to another origin, names itself there,
\* and holds an inline script, an announced map and an address of the
\* developer's machine.
MovedSite ==
  LET home == At("cdn", <<>>, "home")
      finds == <<ScriptTag(At("cdn", <<>>, "main.js")), Link(At("dev", <<>>, "main.js")),
                 Link(home), Link(At("cdn", <<>>, "main.js.map")),
                 Inline("index#0",
                        <<Path(Frag(<<"static">>, "chunk.js"), home, TRUE),
                          Bare("lazy.js", home)>>)>>
  IN Moved(MCStart, home, finds)
     @@ Doc(home, finds)
     @@ (At("cdn", <<>>, "main.js") :>
           [Script(MCStart, <<>>)[MCStart] EXCEPT !.final = At("cdn", <<>>, "main.js"),
                                                  !.announcesMap = TRUE])
     @@ Serve(At("cdn", <<>>, "main.js.map"), "other", <<>>)

\* More pages than the budget has slots, each reached from several others,
\* and a request whose answer holds a script.
Portal ==
  Doc(MCStart, <<Entered(Root("p1")), Entered(Root("p1")), Entered(Root("p2")),
                 ManifestAt(Root("manifest"))>>)
  @@ Doc(Root("p1"), <<Entered(Root("p2")), Entered(Root("p3")),
                       Request("probe:flight", Root("flight"))>>)
  @@ Doc(Root("p2"), <<Entered(Root("p1")), Request("probe:flight", Root("flight"))>>)
  @@ Answering(Serve(Root("flight"), "other", <<Link(Root("main.js")), Link(Root("vendor.js"))>>),
               Root("flight"), {"ok", "refused"})
  @@ Serve(Root("manifest"), "other", <<Link(Root("main.js"))>>)
  @@ Script(Root("main.js"), <<Request("probe:flight", Root("flight"))>>)
  @@ Script(Root("vendor.js"), <<>>)

\* Addresses of scripts that answer with an error page or with nothing, and
\* an entry page behind a page that is not there.
Blocked ==
  Doc(MCStart, <<ScriptTag(Root("main.js")), ScriptTag(Root("lazy.js")),
                 ScriptTag(Root("vendor.js")), Request("probe:flight", Root("p1"))>>)
  @@ Doc(Root("main.js"), <<Link(Root("chunk.js"))>>)
  @@ Root("lazy.js") :> [Doc(Root("lazy.js"), <<>>)[Root("lazy.js")] EXCEPT !.empty = TRUE]
  @@ Moved(Root("vendor.js"), Root("main.js"), <<>>)
  @@ Doc(Root("p1"), <<>>)

\* A micro-frontend host: two scripts name the same page under the address it
\* has on the developer's machine.
DevEntry ==
  Doc(MCStart, <<ScriptTag(Root("main.js")), ScriptTag(Root("vendor.js"))>>)
  @@ Script(Root("main.js"), <<Entered(At("dev", <<>>, "p1"))>>)
  @@ Script(Root("vendor.js"), <<Entered(At("dev", <<>>, "p1"))>>)
  @@ Doc(Root("p1"), <<>>)

MCSites == {Bundled, MovedSite, Portal, Blocked}
BlockedOnly == {Blocked}
DevOnly == {DevEntry}

FindingsOf(s) == UNION {ToSet(s[u].finds) : u \in DOMAIN s}
MCFinding ==
  LET all == UNION {FindingsOf(s) : s \in Sites}
  IN all \cup UNION {ToSet(f.finds) : f \in {g \in all : g.tag = "inline"}}
=============================================================================
