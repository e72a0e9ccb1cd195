----------------------------- MODULE SourceMaps -----------------------------
(***************************************************************************)
(* Restoring the original files a source map describes: parsing the JSON,  *)
(* decoding the VLQ mappings, rebuilding a source without sourcesContent   *)
(* from the script, and turning a source's name into a path that can be    *)
(* written.  src/src/sourcemap: sourcemap.ts, vlq.ts, path.ts.             *)
(*                                                                         *)
(* A mappings string is a sequence of symbols: the base64 digits 0..63 and *)
(* the three below.  A script is the sequence of its lines' lengths, and a *)
(* piece of it a sequence of positions <<line, column>>, the position past *)
(* a line's end being its newline.  A path is a sequence of characters of  *)
(* which only these matter: "/", "\\", ".", ":" (any character a file name *)
(* must not hold), " ", "~" and "x" (any other).                           *)
(***************************************************************************)
EXTENDS Integers, Sequences, FiniteSets, SequencesExt

CONSTANTS
  RawMap,         \* the contents a .map file may have
  Script,         \* the scripts they come with
  MAX_LEN,        \* MAX_SOURCE_PATH_LEN
  MAX_DEPTH,      \* MAX_SOURCE_PATH_DEPTH
  Absent

Comma == 64
Semicolon == 65
Invalid == 66

\* A path has room for the name of a source that has none.
ASSUME SourceMapsAssumption ==
  /\ MAX_LEN \in Nat /\ MAX_LEN >= 3 /\ MAX_DEPTH \in Nat \ {0}
  /\ Script \subseteq Seq(Nat)
  /\ \A doc \in RawMap : doc.form = "object" =>
       /\ doc.sources \in Seq(Seq(STRING) \cup {Absent})
       /\ doc.sourceRoot \in Seq(STRING) \cup {Absent}
       /\ doc.mappings \in Seq(0..Invalid) \cup {Absent}

VARIABLES
  raw,       \* the .map file in hand
  script,    \* the script it belongs to
  sm,        \* what parse returned: Absent before, Failed, or a SourceMap
  files      \* what restoreFiles returned: Absent before, then SourceFiles

mapVars == <<raw, script, sm, files>>

(* Mappings. *)

Bits(d) == {b \in 0..4 : (d \div 2^b) % 2 = 1}

\* The number in a 32 bit word: bit 0 is the sign, the rest is shifted right
\* arithmetically, so that bit 31 stands for all that are higher.
Signed(word) ==
  LET upTo[n \in 0..30] == IF n = 0 THEN (IF 31 \in word THEN -1 ELSE 0)
                           ELSE 2 * upTo[n - 1] + (IF 31 - n \in word THEN 1 ELSE 0)
  IN  IF 0 \in word THEN -upTo[30] ELSE upTo[30]

\* The word that the groups of five bits start..end add up to; a shift is
\* taken modulo 32 and what it moves past bit 31 is lost.
Word(s, start, end) ==
  0..31 \cap UNION {{((5 * (i - start)) % 32) + b : b \in Bits(s[i])} : i \in start..end}

\* The value that starts at a position of a segment.
DecodeVLQSegment(s, start) ==
  LET ends == {i \in start..Len(s) : s[i] < 32 \/ s[i] = Invalid}
      end  == Min(ends)
  IN  IF ends = {} \/ s[end] = Invalid
      THEN [ok |-> FALSE, value |-> 0, next |-> start]
      ELSE [ok |-> TRUE, value |-> Signed(Word(s, start, end)), next |-> end + 1]

\* The parts of a text between its marks.
AddSymbol(parts, c, mark) ==
  IF c = mark THEN Append(parts, <<>>) ELSE Append(Front(parts), Append(Last(parts), c))
Split(s, mark) ==
  LET upTo[n \in 0..Len(s)] == IF n = 0 THEN <<<<>>>> ELSE AddSymbol(upTo[n - 1], s[n], mark)
  IN  upTo[Len(s)]

\* The values of a segment in order: the column; source, line and column of
\* the source if anything follows; a name if anything follows still.
ReadValue(seg, acc, k) ==
  LET d == DecodeVLQSegment(seg, acc.next)
  IN  CASE acc.done -> acc
        [] ~acc.done /\ k \in {2, 5} /\ acc.next > Len(seg) -> [acc EXCEPT !.done = TRUE]
        [] OTHER -> IF d.ok THEN [acc EXCEPT !.next = d.next, !.values = Append(@, d.value)]
                    ELSE [acc EXCEPT !.done = TRUE, !.bad = TRUE]
Values(seg) ==
  FoldLeft(LAMBDA acc, k : ReadValue(seg, acc, k),
           [next |-> 1, values |-> <<>>, done |-> FALSE, bad |-> FALSE], [k \in 1..5 |-> k])

\* The values of one segment.  Deltas read before a bad value are added.
AddValues(acc, v) ==
  LET at == [k \in 1..5 |-> acc.at[k] + (IF k <= Len(v.values) THEN v.values[k] ELSE 0)]
      entry == [line |-> acc.line, col |-> at[1],
                source |-> IF Len(v.values) >= 4 THEN at[2] ELSE -1,
                sourceLine |-> IF Len(v.values) >= 4 THEN at[3] ELSE -1,
                sourceCol |-> IF Len(v.values) >= 4 THEN at[4] ELSE -1,
                name |-> IF Len(v.values) = 5 THEN at[5] ELSE -1]
  IN  [acc EXCEPT !.at = at, !.broken = v.bad,
                  !.entries = IF v.bad THEN @ ELSE Append(@, entry)]

\* Empty segments are skipped; after a bad value the rest of the line is dropped.
ReadSegment(acc, seg) == IF acc.broken \/ seg = <<>> THEN acc ELSE AddValues(acc, Values(seg))

\* Bug: every delta starts again at a line, not the column's alone.
ReadLineAfresh(acc, line) ==
  LET read == FoldLeft(ReadSegment, [acc EXCEPT !.at = [k \in 1..5 |-> 0], !.broken = FALSE],
                       Split(line, Comma))
  IN  [read EXCEPT !.line = @ + 1]

ReadLine(acc, line) ==
  LET read == FoldLeft(ReadSegment, [acc EXCEPT !.at[1] = 0, !.broken = FALSE],
                       Split(line, Comma))
  IN  [read EXCEPT !.line = @ + 1]

ParseMappings(mappings) ==
  FoldLeft(ReadLine,
           [line |-> 0, at |-> [k \in 1..5 |-> 0], broken |-> FALSE, entries |-> <<>>],
           Split(mappings, Semicolon)).entries

(* The text a source is rebuilt from. *)

\* Columns from..to-1 of a line.
Span(line, from, to) == [i \in 1..Max({to - from, 0}) |-> <<line, from + i - 1>>]

\* slice(col): a negative column counts from the end.
Rest(text, line, col) ==
  Span(line, IF col < 0 THEN Max({text[line + 1] + col, 0}) ELSE col, text[line + 1])

Whole(text, line) == Span(line, 0, text[line + 1] + 1)

\* One mapping of the source: the text since the last one.
Emit(text, acc, m) ==
  LET end == Min({m.col, text[m.line + 1]})
      here == IF m.line = acc.line THEN Span(m.line, Max({acc.col, 0}), end)
              ELSE (IF acc.line < 0 THEN <<>>
                    ELSE Rest(text, acc.line, acc.col) \o <<<<acc.line, text[acc.line + 1]>>>>)
                   \o FlattenSeq([k \in 1..m.line - acc.line - 1 |-> Whole(text, acc.line + k)])
                   \o Span(m.line, 0, end)
  IN  IF m.line >= Len(text) THEN acc
      ELSE [out |-> acc.out \o here, line |-> m.line, col |-> m.col]

\* Only the mappings of the source count.
EmitOf(index, text, acc, m) == IF m.source = index THEN Emit(text, acc, m) ELSE acc

\* After the last mapping the rest of its line follows.
Ended(text, last) ==
  last.out \o (IF last.line < 0 THEN <<>> ELSE Rest(text, last.line, last.col))

ReconstructFromMappings(entries, text, index) ==
  Ended(text, FoldLeft(LAMBDA acc, m : EmitOf(index, text, acc, m),
                       [out |-> <<>>, line |-> -1, col |-> 0], entries))

(* Paths. *)

Drop(s, n) == SubSeq(s, n + 1, Len(s))
DropPrefix(s, prefix) == IF IsPrefix(prefix, s) THEN Drop(s, Len(prefix)) ELSE s
Join(parts) == Drop(FlattenSeq([k \in DOMAIN parts |-> <<"/">> \o parts[k]]), 1)

Trim(s) ==
  LET solid == {i \in DOMAIN s : s[i] # " "}
  IN  IF solid = {} THEN <<>> ELSE SubSeq(s, Min(solid), Max(solid))

SchemeMark == <<":", "/", "/">>

\* What follows the scheme and its authority.
DropScheme(s) ==
  LET marks == {i \in 1..Len(s) - 2 : SubSeq(s, i, i + 2) = SchemeMark}
      rest == DropPrefix(Drop(s, Min(marks) + 2), <<"/", "/">>)
      slashes == {i \in DOMAIN rest : rest[i] = "/"}
  IN  IF marks = {} \/ Min(marks) = 1 THEN s
      ELSE CASE rest = <<>> \/ Head(rest) = "/" -> rest
             [] slashes = {} -> <<>>
             [] OTHER -> Drop(rest, Min(slashes))

StripSourcePrefix(s) ==
  DropPrefix(DropPrefix(DropScheme(DropPrefix(Trim(s), <<"~", "/">>)), <<"/">>), <<".", "/">>)

SanitizeFilenamePart(name) == [i \in DOMAIN name |-> IF name[i] = ":" THEN "_" ELSE name[i]]

Slashed(s) == [i \in DOMAIN s |-> IF s[i] = "\\" THEN "/" ELSE s[i]]
Up == <<".", ".">>

\* One segment: a parent segment pops one, and is dropped when none is left.
Climb(stack, part) ==
  CASE part \in {<<>>, <<".">>} -> stack
    [] part = Up -> IF stack = <<>> THEN stack ELSE Front(stack)
    [] OTHER -> Append(stack, SanitizeFilenamePart(part))

SanitizePathSegments(p) ==
  Join(FoldLeft(LAMBDA stack, part : Climb(stack, Trim(part)), <<>>,
                Split(Slashed(Trim(p)), "/")))

TruncatePath(p) ==
  LET filename == Last(Split(p, "/"))
      keep == MAX_LEN - Len(filename) - 1
  IN  CASE Len(p) <= MAX_LEN -> p
        [] Len(p) > MAX_LEN /\ keep < 0 -> SubSeq(p, 1, MAX_LEN)
        [] OTHER -> SubSeq(p, 1, keep) \o <<"_">> \o filename

\* The separators past the deepest one allowed become underscores.
FlattenExcessDepth(p) ==
  LET deep(i) == Cardinality({j \in 1..i : p[j] = "/"}) > MAX_DEPTH
  IN  [i \in DOMAIN p |-> IF p[i] = "/" /\ deep(i) THEN "_" ELSE p[i]]

\* The path of a source below its root, before it is cut to size.
CleanedPath(source, root) ==
  LET rootPart == StripSourcePrefix(root)
      own == StripSourcePrefix(source)
      joined == IF rootPart = <<>> THEN own ELSE rootPart \o <<"/">> \o own
  IN  SanitizePathSegments(DropPrefix(DropPrefix(joined, <<"/">>), <<".", "/">>))

NormalizeSourcePath(source, root) == FlattenExcessDepth(TruncatePath(CleanedPath(source, root)))

\* storage.ts, the guard of every write under sources/: the empty path is its null.
KeepSegment(kept, s) == IF s \in {<<>>, <<".">>} THEN kept ELSE Append(kept, s)
SafeSourcePath(p) ==
  LET segments == Split(Slashed(p), "/")
  IN  IF Up \in ToSet(segments) THEN <<>> ELSE Join(FoldLeft(KeepSegment, <<>>, segments))

(* A map and its files. *)

\* An entry of sourcesContent that holds text; a missing, null or empty one does not.
HasText(map, i) ==
  /\ map.sourcesContent # Absent
  /\ i \in DOMAIN map.sourcesContent
  /\ map.sourcesContent[i] \notin {Absent, ""}

HasSourcesContent(map) ==
  map.sourcesContent # Absent /\ \E i \in DOMAIN map.sourcesContent : HasText(map, i)

Failed == [failed |-> TRUE]

\* A source that is not a string stands as the empty one.
Parse(doc) ==
  IF doc.form # "object" \/ doc.sources = <<>> THEN Failed
  ELSE [sources |-> [i \in DOMAIN doc.sources |->
                       IF doc.sources[i] = Absent THEN <<>> ELSE doc.sources[i]],
        sourcesContent |-> doc.sourcesContent,
        sourceRoot |-> IF doc.sourceRoot = Absent THEN <<>> ELSE doc.sourceRoot,
        mappings |-> IF doc.mappings = Absent THEN <<>> ELSE doc.mappings]

Unnamed(i) == <<"unnamed_", ToString(i - 1), ".js">>

\* The file of a source, from its text in the map or from pieces of the script.
FileWith(map, text, i, named, pieces) ==
  LET path == IF named = <<>> THEN Unnamed(i) ELSE named
  IN  CASE HasText(map, i) ->
             <<[path |-> path, content |-> map.sourcesContent[i], mode |-> "sourcesContent"]>>
        [] ~HasText(map, i) /\ text # <<0>> /\ pieces # <<>> ->
             <<[path |-> path, content |-> pieces, mode |-> "mappings"]>>
        [] OTHER -> <<>>

\* Nothing, or the file restored for one source.
FileOf(map, text, i) ==
  FileWith(map, text, i, NormalizeSourcePath(map.sources[i], map.sourceRoot),
           ReconstructFromMappings(ParseMappings(map.mappings), text, i - 1))

RestoreFiles(map, text) == FlattenSeq([i \in DOMAIN map.sources |-> FileOf(map, text, i)])

\* Bug: a file goes where its path says, whatever was written there before.
PlaceOver(acc, file) ==
  LET safe == SafeSourcePath(file.path)
  IN  IF safe = <<>> THEN acc ELSE Append(acc, [file |-> file, target |-> file.path, at |-> safe])

MapPrefix == <<"map", "/">>

\* restoreSources' loop: a path used before gets the map's name in front of it.
Place(acc, file) ==
  LET target == IF \E w \in ToSet(acc) : w.target = file.path
                THEN MapPrefix \o file.path ELSE file.path
      safe == SafeSourcePath(target)
  IN  IF safe = <<>> THEN acc ELSE Append(acc, [file |-> file, target |-> target, at |-> safe])

(* The life of one map. *)

MapInit ==
  /\ raw \in RawMap /\ script \in Script
  /\ sm = Absent /\ files = Absent

ParseMap ==
  /\ sm = Absent
  /\ sm' = Parse(raw)
  /\ UNCHANGED <<raw, script, files>>

\* restoreSources: the script's text is used only where no source has content.
RestoreSources ==
  /\ sm \notin {Absent, Failed} /\ files = Absent
  /\ files' = FoldLeft(Place, <<>>,
                       RestoreFiles(sm, IF HasSourcesContent(sm) THEN <<0>> ELSE script))
  /\ UNCHANGED <<raw, script, sm>>

MapNext == ParseMap \/ RestoreSources
-----------------------------------------------------------------------------
\* What a mapping is written with: values of up to thirty bits and a sign, one,
\* four or five of them.
MaxDelta == 1073741823
Delta == -MaxDelta..MaxDelta
Segment == {s \in Seq(Delta) : Len(s) \in {1, 4, 5}}

\* The digits the source map format gives a value: its sign is the lowest bit, and
\* all but the last digit are marked.
SignedLast(v) == IF v < 0 THEN 2 * (-v) + 1 ELSE 2 * v
VlqDigits(v) ==
  LET n == SignedLast(v)
      last == Cardinality({k \in 1..6 : n >= 2^(5 * k)})
  IN  [k \in 1..last + 1 |-> ((n \div 2^(5 * (k - 1))) % 32) + IF k <= last THEN 32 ELSE 0]

\* Lines of segments of values, written out.
SegmentText(s) == FlattenSeq([f \in DOMAIN s |-> VlqDigits(s[f])])
Marked(parts, mark) ==
  FlattenSeq([k \in DOMAIN parts |-> (IF k = 1 THEN <<>> ELSE <<mark>>) \o parts[k]])
LineText(line) == Marked([k \in DOMAIN line |-> SegmentText(line[k])], Comma)
Encoded(deltas) == Marked([l \in DOMAIN deltas |-> LineText(deltas[l])], Semicolon)

ASSUME MappingsAssumption ==
  \A doc \in RawMap : doc.form = "object" /\ doc.deltas # Absent =>
    /\ doc.deltas \in Seq(Seq(Segment))
    /\ doc.mappings = Encoded(doc.deltas) /\ doc.mappings # Absent

\* What those values mean: each field the sum of its values so far, the
\* column of those on its line.
SoFar(deltas, l, k, f) ==
  {p \in UNION {{<<i, j>> : j \in DOMAIN deltas[i]} : i \in DOMAIN deltas} :
     /\ p[1] < l \/ (p[1] = l /\ p[2] <= k)
     /\ Len(deltas[p[1]][p[2]]) >= f
     /\ f = 1 => p[1] = l}
SumTo(deltas, l, k, f) == MapThenSumSet(LAMBDA p : deltas[p[1]][p[2]][f], SoFar(deltas, l, k, f))
Field(deltas, l, k, f) == IF f <= Len(deltas[l][k]) THEN SumTo(deltas, l, k, f) ELSE -1
Meaning(deltas, l, k) ==
  [line |-> l - 1, col |-> SumTo(deltas, l, k, 1), source |-> Field(deltas, l, k, 2),
   sourceLine |-> Field(deltas, l, k, 3), sourceCol |-> Field(deltas, l, k, 4),
   name |-> Field(deltas, l, k, 5)]
MeantOn(deltas, l) == [k \in DOMAIN deltas[l] |-> Meaning(deltas, l, k)]
Meant(deltas) == FlattenSeq([l \in DOMAIN deltas |-> MeantOn(deltas, l)])

Loaded == sm \notin {Absent, Failed}

(* Mappings written the way the format says are read back as the positions *)
(* they stand for: values of up to thirty bits and a sign, deltas carried  *)
(* over lines except the column's, segments of one, four and five values.  *)
MappingsSummed ==
  Loaded /\ raw.deltas # Absent => ParseMappings(sm.mappings) = Meant(raw.deltas)

Before(p, q) == p[1] < q[1] \/ (p[1] = q[1] /\ p[2] < q[2])

InOrder(entries) ==
  \A i, j \in DOMAIN entries :
    i < j => ~Before(<<entries[j].line, entries[j].col>>, <<entries[i].line, entries[i].col>>)

\* What the map's name as a prefix does not keep apart: a third source of one
\* path, a path under that name itself, and a path the guard of the write
\* rewrites, which only one cut to MAX_LEN is.
Unparted(m, n) ==
  \/ \E k \in 1..(m - 1) : files[k].file.path = files[m].file.path
                            /\ files[k].file.path = files[n].file.path
  \/ \E k \in {m, n} : IsPrefix(MapPrefix, files[k].file.path)
  \/ \E k \in {m, n} : files[k].at # files[k].target

(* Restored files: if the mappings come in the script's order, no piece of *)
(* it is put into a file twice or out of that order; a path is below       *)
(* sources/ and at most MAX_LEN long but for the prefix of the map; a      *)
(* source with its text in the map is written, unless its file name alone  *)
(* is longer than a path may be; and what was written stays: two sources   *)
(* share a file in the three cases of Unparted only, where the later one   *)
(* overwrites the earlier, whatever pipeline.ts:1415 says of the prefix.   *)
SourcesWritten ==
  Loaded /\ files # Absent =>
    /\ \A n \in DOMAIN files : files[n].file.mode = "mappings" /\ InOrder(ParseMappings(sm.mappings)) =>
         \A i, j \in DOMAIN files[n].file.content :
           i < j => Before(files[n].file.content[i], files[n].file.content[j])
    /\ \A n \in DOMAIN files :
         LET segments == ToSet(Split(files[n].at, "/"))
         IN  segments \cap {<<>>, <<".">>, Up} = {} /\ Len(files[n].file.path) <= MAX_LEN
    /\ \A m, n \in DOMAIN files : m # n /\ files[m].at = files[n].at => Unparted(m, n)
    /\ \A i \in DOMAIN sm.sources : HasText(sm, i) =>
         \/ \E n \in DOMAIN files : files[n].file.mode = "sourcesContent"
                                    /\ files[n].file.content = sm.sourcesContent[i]
         \/ Len(Last(Split(CleanedPath(sm.sources[i], sm.sourceRoot), "/"))) > MAX_LEN - 1
=============================================================================
