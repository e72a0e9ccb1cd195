------------------------------ MODULE ScanCall ------------------------------
(***************************************************************************)
(* One call of scan, src/src/scan.ts: options are validated, a registry, a *)
(* fetcher and a store are assembled, the pipeline runs, and the fetcher   *)
(* is closed whatever came of it.  What the pipeline does is the business  *)
(* of Discovery.tla and SiteCache.tla.  The caller may have made a         *)
(* registry of its own, a client of its own and a store of its own.        *)
(***************************************************************************)
EXTENDS Registry, FiniteSets

CONSTANTS
  Builtin,        \* names of the plugins createDefaultRegistry registers
  HasFilesystem   \* hasFilesystem()

ASSUME ScanAssumption == Builtin \in Seq(STRING) /\ HasFilesystem \in BOOLEAN

VARIABLES
  options,   \* the call's ScanOptions
  mine,      \* a registry the caller keeps
  call,      \* "asked", "running", "closing", "returned", "threw"
  used,      \* the registry the pipeline was given
  store,     \* what the pipeline may do with its store
  client     \* the client behind the fetcher: whose, and whether it is open

scanVars == <<options, mine, call, used, store, client>>

\* Fields that steer the assembly; what is merely passed on is left out.
DefaultOptions ==
  [url |-> "absolute", plugins |-> FALSE, onlyPlugins |-> <<>>,
   excludePlugins |-> <<>>, transport |-> FALSE, storage |-> FALSE,
   noCache |-> FALSE, cache |-> TRUE, writeCache |-> TRUE]

Plain(name) == [name |-> name, object |-> 0]
DefaultRegistry == Registered([n \in DOMAIN Builtin |-> Plain(Builtin[n])])

NoAccess == [readable |-> FALSE, writable |-> FALSE]
NoClient == [owner |-> "none", open |-> FALSE]

ScanInit ==
  /\ options = DefaultOptions
  /\ mine = DefaultRegistry
  /\ call = "idle"
  /\ used = NewRegistry /\ store = NoAccess /\ client = NoClient

\* buildRegistry: a registry of the caller's beats a list of names, and the
\* list of names to take beats the one to leave out.
Chosen ==
  CASE options.plugins -> mine
    [] ~options.plugins /\ options.onlyPlugins # <<>> ->
         Select(DefaultRegistry, options.onlyPlugins)
    [] OTHER -> Exclude(DefaultRegistry, options.excludePlugins)

Throws ==
  \/ options.url # "absolute"
  \/ ~options.plugins /\ Unknown(DefaultRegistry, options.onlyPlugins)

\* createStorageFor and applyAccess, over a supplied store that allows both:
\* without one, and without a file system, a store that keeps nothing.
Access ==
  IF ~options.storage /\ ~HasFilesystem THEN NoAccess
  ELSE [readable |-> ~options.noCache /\ options.cache, writable |-> options.writeCache]

\* prepare up to pipeline.run.
Prepare ==
  /\ call = "asked" /\ ~Throws
  /\ call' = "running"
  /\ used' = Chosen
  /\ store' = Access
  /\ client' = [owner |-> IF options.transport THEN "caller" ELSE "scan", open |-> TRUE]
  /\ UNCHANGED <<options, mine>>

PrepareThrows ==
  /\ call = "asked" /\ Throws
  /\ call' = "threw"
  /\ UNCHANGED <<options, mine, used, store, client>>

\* pipeline.run resolves or rejects.
Run(ok) ==
  /\ call = "running"
  /\ call' = IF ok THEN "closing-ok" ELSE "closing-failed"
  /\ UNCHANGED <<options, mine, used, store, client>>

\* The finally: a fetcher is closed when no transport was supplied, and it
\* closes its client when it made it.
Close ==
  /\ call \in {"closing-ok", "closing-failed"}
  /\ call' = IF call = "closing-ok" THEN "returned" ELSE "threw"
  /\ client' = [client EXCEPT !.open = @ /\ client.owner = "caller"]
  /\ UNCHANGED <<options, mine, used, store>>

ScanNext == Prepare \/ PrepareThrows \/ Close \/ \E ok \in BOOLEAN : Run(ok)
-----------------------------------------------------------------------------
(* The list of a registry and its index hold the same plugins, one per     *)
(* name, whatever was registered, replaced, removed, selected or excluded  *)
(* before: a plugin that is found by name runs, and the other way round.   *)
RegistryAgrees ==
  \A r \in {mine, used} :
    /\ \A n \in DOMAIN r.plugins : LET p == r.plugins[n]
                                   IN p.name \in Names(r) /\ r.byName[p.name] = p
    /\ \A name \in Names(r) : \E n \in DOMAIN r.plugins : r.plugins[n] = r.byName[name]
    /\ Len(r.plugins) = Cardinality(Names(r))
=============================================================================
