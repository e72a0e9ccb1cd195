---------------------------- MODULE MCFrontEnds -----------------------------
(* Every command line of up to three arguments, and the longer ones that   *)
(* speak of the cache and end in the URL; two replaceable plugins; four    *)
(* jobs over two slots, so that two wait and either may be cancelled; a    *)
(* page with one script that has a map, for two scans over what a third left. *)
EXTENDS FrontEnds

CONSTANTS start, app

Bare(w) == <<w, None>>

MCArgument ==
  {Bare(w) : w \in {"https://a", "no", "yes", "json", "5", "scan", "serve", "K: v", "--",
                    "--cache", "--no-cache", "--proxy", "--format", "--concurrency",
                    "--header", "--json", "--list-plugins", "--help", "--only-plugins",
                    "--unknown"}}
  \cup {<<"--cache", "no">>, <<"--cache", "yes">>, <<"--format", "json">>,
        <<"--timeout", "5">>, <<"--only-plugins", "vite">>,
        <<"--exclude-plugins", "webpack">>, <<"--only-plugins", "vitte">>,
        <<"--no-cache", "no">>}

Caching == {Bare("--cache"), Bare("--no-cache"), <<"--cache", "no">>, <<"--cache", "yes">>,
            Bare("no"), Bare("yes"), Bare("--proxy")}

MCArgvs ==
  {<<>>, <<Bare("help")>>, <<Bare("version")>>, <<Bare("--version")>>}
  \cup UNION {[1..n -> MCArgument] : n \in 1..3}
  \cup {<<a, b, c, Bare("https://a")>> : a, b, c \in Caching}
  \cup {<<a, Bare("https://a"), b, c>> : a, b, c \in Caching}

MCListed ==
  [w \in ({a[i] : a \in MCArgument, i \in 1..2} \ {None})
           \cup {"help", "version", "--version"} |-> <<w>>]

MCBuiltin == <<"html-script", "webpack", "vite">>

MCOrders ==
  {[DefaultOptions EXCEPT !.url = u, !.plugins = p, !.onlyPlugins = o, !.excludePlugins = e,
                          !.transport = t, !.storage = s, !.noCache = n, !.cache = c,
                          !.writeCache = w] :
     u \in {"absolute", "bad"}, p \in BOOLEAN, o \in {<<>>, <<"vite", "webpack">>, <<"vitte">>},
     e \in {<<>>, <<"vite", "vitte">>}, t \in BOOLEAN, s \in BOOLEAN, n \in BOOLEAN,
     c \in BOOLEAN, w \in BOOLEAN}

MCCustom == {[name |-> "vite", object |-> 1], [name |-> "own", object |-> 1],
             [name |-> "own", object |-> 2]}

MCPages == {start, app}
MCLinks == [p \in MCPages |-> IF p = start THEN {app} ELSE {}]
MCSlotOf == [p \in MCPages |-> p]
MCPathOf == [s \in Script |-> s]
=============================================================================
