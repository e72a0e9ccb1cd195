------------------------------ MODULE Webpack -------------------------------
(***************************************************************************)
(* WebpackPlugin, src/src/plugins/webpack.ts: the chunks a script names,   *)
(* and what the plugin carries from one script to the next.                *)
(*                                                                         *)
(* A script is what the plugin's patterns match in it: one field per       *)
(* pattern, NoMatch or the captures, and for a pattern that matches many    *)
(* times their sequence.  The body of an id map is the pairs <<id, value>> *)
(* in it, by the form of their keys.  A fragment is a tuple                *)
(* <<prefix, name, separator, hash, suffix>>.                              *)
(***************************************************************************)
EXTENDS Findings

CONSTANTS
  Hex,           \* values isHex accepts
  Long,          \* those of 6 to 40 characters
  Alnum,         \* values of 3 to 40 letters and digits
  LikelyHash,    \* ids isLikelyChunkHash accepts
  NoMatch

VARIABLES
  stringChunkHashMaps,   \* the maps kept, oldest first
  runtimeFingerprint     \* HASH.TIMESTAMP, "" before one is seen

webpackVars == <<stringChunkHashMaps, runtimeFingerprint>>

WebpackInit == stringChunkHashMaps = <<>> /\ runtimeFingerprint = ""

WebpackPrecheck(d) == d.type = "js" /\ (d.markers \/ d.minimalRuntime)

Among(pairs, values) == SelectSeq(pairs, LAMBDA p : p[2] \in values)

(* The ways a map body is read. *)

ExtractHashMap(body) ==
  FirstWins(<<>>, Among(body.num \o body.quoted \o body.ident, Alnum))
ExtractNameMapStrict(body) ==
  LastWins(<<>>, body.num \o body.fcnum \o body.quoted \o body.ident)
ExtractHashMapStrict(body) ==
  LastWins(<<>>, Among(body.num \o body.fcnum \o body.quoted \o body.ident, Alnum))
CollectIdValue(body) == FirstWins(<<>>, body.num)

\* <prefix><name or id>.<hash><suffix> for every hash.
Named(prefix, names, hashes, suffix) ==
  [n \in DOMAIN hashes |->
     <<prefix, Get(names, hashes[n][1], hashes[n][1]), ".", hashes[n][2], suffix>>]

\* An absolute public path makes a fragment a URL.
Queue(b, d, fragments) ==
  IF d.publicPath # NoMatch /\ d.publicPath.absolute
  THEN AddAbsolutes(b, [n \in DOMAIN fragments |-> <<d.publicPath.path, fragments[n]>>])
  ELSE AddProbes(b, fragments)

Miss == [hit |-> FALSE]
Hit(b) == [hit |-> TRUE, builder |-> b]

(* Attempts 1 to 7: the first to succeed ends the analysis. *)

TryChunkMapPattern(d, b) ==
  LET m == d.chunkMap
      hashes == ExtractHashMap(m.body)
      rooted == d.publicPath # NoMatch /\ d.publicPath.rooted
      dir == IF rooted THEN d.publicPath.path \o m.prefix ELSE m.prefix
      sep == IF m.separator = "" THEN "-" ELSE m.separator
  IN  IF m = NoMatch \/ hashes = <<>> THEN Miss
      ELSE Hit(AddProbes(b, [n \in DOMAIN hashes |->
                 <<dir, hashes[n][1], sep, hashes[n][2], m.suffix>>]))

\* Maps written in place, or named and defined elsewhere; fewer than three
\* hashes and every long hexadecimal value of the script is taken for one.
TryStaticChunkPattern(d, b) ==
  LET m == d.staticChunk
      elsewhere == ~m.names.inline /\ ~m.hashes.inline
      names == IF m.names.inline \/ elsewhere THEN CollectIdValue(m.names) ELSE <<>>
      hashes == CASE m.hashes.inline -> LastWins(<<>>, Among(m.hashes.num, Alnum))
                  [] elsewhere -> CollectIdValue(m.hashes)
                  [] OTHER -> <<>>
      enough == IF Len(hashes) < 3 THEN LastWins(<<>>, Among(d.idValues, Hex \cap Long))
                ELSE hashes
  IN  IF m = NoMatch THEN Miss ELSE Hit(AddProbes(b, Named(m.prefix, names, enough, ".js")))

TryChunkReturnPattern(d, b) ==
  LET names == LastWins(<<>>, SelectSeq(d.idValues, LAMBDA p : p[2] \notin Hex))
      hashes == LastWins(<<>>, Among(d.idValues, Hex))
  IN  IF d.chunkReturn = NoMatch THEN Miss
      ELSE Hit(Queue(b, d, Named(d.chunkReturn, names, hashes, ".js")))

\* Ids that are strings are looked for in the whole script, where no number is found.
TryRequireUChunkPattern(d, b) ==
  LET m == d.requireU
      strict == ExtractHashMapStrict(m.hashes)
      hashes == IF strict = <<>> THEN FirstWins(<<>>, d.stringKeys) ELSE strict
      queued == Queue(b, d, Named(m.prefix, ExtractNameMapStrict(m.names), hashes, ".js"))
  IN  IF m = NoMatch THEN Miss
      ELSE Hit(AddProbes(queued, [n \in DOMAIN d.directPaths |->
                 <<"", d.directPaths[n], "", "", ".js">>]))

\* The literal before the expression is the prefix; without one the suffix decides.
TryFederationChunkPattern(d, b) ==
  LET m == d.federation
      prefix == CASE m.before # NoMatch -> m.before
                  [] m.before = NoMatch /\ m.suffix = ".async.js" -> ""
                  [] OTHER -> "static/js/async/"
  IN  IF m = NoMatch THEN Miss
      ELSE Hit(AddProbes(b, Named(prefix, ExtractNameMapStrict(m.names),
                                  ExtractHashMapStrict(m.hashes), m.suffix)))

TryTernaryNameMap(d, b) ==
  LET m == d.ternary
      pairs == Among(m.body.num, Alnum)
  IN  IF m = NoMatch THEN Miss
      ELSE Hit(AddProbes(b, [n \in DOMAIN pairs |->
                 <<"", IF pairs[n][1] = m.id THEN m.name ELSE pairs[n][1],
                   m.separator, pairs[n][2], ".js">>]))

TryArrowFunctionPrefix(d, b) ==
  IF d.arrowFnPrefix = NoMatch THEN Miss
  ELSE Hit(AddProbes(b, [n \in DOMAIN d.numericHashes |->
             <<d.arrowFnPrefix, d.numericHashes[n][1], "-", d.numericHashes[n][2], ".js">>]))

(* Attempt 8: every pattern adds what it finds. *)

\* The runtime's own path expression, then RuoYi's, then the first two-level
\* literal; the pattern admits no blank, so none of these is a style loader's.
DetectPathPrefix(d) ==
  LET found == SelectSeq(<<d.pathPrefix, d.pathPrefixAlt>> \o d.fallbackPrefixes,
                         LAMBDA p : p # NoMatch)
  IN  IF found = <<>> THEN "" ELSE found[1]

Wildcard(prefix, id) == <<prefix, id, "-", "*", ".js">>

\* Bug: the last hash of an id stays.
MergedLast(maps, d) == LastWins(LastWins(<<>>, FlattenSeq(maps)), d.stringChunkHashes)

\* The maps kept, later ones over earlier ones, then the script's own ids
\* where they are new.
Merged(maps, d) == FirstWins(LastWins(<<>>, FlattenSeq(maps)), d.stringChunkHashes)

CollectStringChunkHashes(d, b, prefix, maps) ==
  LET merged == Merged(maps, d)
      calls == [n \in DOMAIN d.loadStringIds |->
                  IF d.loadStringIds[n] \in LikelyHash
                  THEN <<prefix, d.loadStringIds[n], "", "", ".js">>
                  ELSE Wildcard(prefix, d.loadStringIds[n])]
  IN  AddProbes(b, IF merged # <<>> THEN Named(prefix, <<>>, merged, ".js") ELSE calls)

\* chunkUrlBuilder holds a POSIX class, which here asks for a "]" in the hash:
\* no runtime has one, and load calls become wildcards or nothing.
TryGenericFallbacks(d, b) ==
  LET prefix == DetectPathPrefix(d)
      names == LastWins(<<>>, SelectSeq(d.idValues, LAMBDA p : p[2] \notin Hex))
      long == d.chunkNumericHashes
      short == IF d.selfRegistered THEN LastWins(<<>>, d.shortHashes) ELSE <<>>
      parts ==
        << Named(prefix, <<>>, d.chunkHashes, ".js"),
           [n \in DOMAIN long |-> <<d.jsPrefix, Get(names, long[n][1], long[n][1]), ".chunk.",
                                    long[n][2],
                                    IF d.querySuffix = "" THEN ".js" ELSE d.querySuffix>>],
           [n \in DOMAIN d.lType |-> <<d.lType[n], "_placeholder_", "", "", ".js">>],
           [n \in DOMAIN d.chunkPushes |-> Wildcard("", d.chunkPushes[n])],
           Named("", <<>>, short, ".js"),
           IF d.selfRegistered THEN [n \in DOMAIN d.loadCalls |-> Wildcard("", d.loadCalls[n])]
           ELSE <<>> >>
  IN  CollectStringChunkHashes(d, AddProbes(b, FlattenSeq(parts)), prefix, stringChunkHashMaps)

\* The fingerprint kept, or else the script's.
Fingerprint(d) ==
  IF runtimeFingerprint # "" THEN runtimeFingerprint ELSE d.fingerprint

\* A fragment here is a whole address, beside the script.
TryRuntimeFingerprint(d, b) ==
  LET ids == d.fingerprintIds \o d.existingIds \o d.loadStringIds
  IN  IF Fingerprint(d) = "" THEN b
      ELSE AddProbes(b, [n \in DOMAIN ids |-> <<d.dir, ids[n], ".", Fingerprint(d), ".js">>])

Attempts(d, b) ==
  << TryChunkMapPattern(d, b), TryStaticChunkPattern(d, b), TryChunkReturnPattern(d, b),
     TryRequireUChunkPattern(d, b), TryFederationChunkPattern(d, b), TryTernaryNameMap(d, b),
     TryArrowFunctionPrefix(d, b) >>

FallsThrough(d) == \A n \in 1..7 : ~Attempts(d, NewBuilder)[n].hit

WebpackAnalyze(d) ==
  LET b == IF d.publicPath = NoMatch THEN NewBuilder
           ELSE AddPublicPath(NewBuilder, d.publicPath.path)
      hits == {n \in 1..7 : Attempts(d, b)[n].hit}
  IN  IF hits # {} THEN Attempts(d, b)[Min(hits)].builder
      ELSE TryRuntimeFingerprint(d, TryGenericFallbacks(d, b))

\* What analysing the script leaves behind.
WebpackLearns(d) ==
  IF FallsThrough(d)
  THEN /\ stringChunkHashMaps' =
            IF Merged(stringChunkHashMaps, d) = <<>> THEN stringChunkHashMaps
            ELSE Append(stringChunkHashMaps, Merged(stringChunkHashMaps, d))
       /\ runtimeFingerprint' = Fingerprint(d)
  ELSE UNCHANGED webpackVars
=============================================================================
