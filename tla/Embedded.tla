------------------------------ MODULE Embedded ------------------------------
(***************************************************************************)
(* Text cut out of a page: the bodies of inline scripts, which             *)
(* HtmlScriptPlugin hands back to be analysed as scripts                   *)
(* (src/src/plugins/html-script.ts), and the route manifest ModernJsPlugin *)
(* finds by counting braces (frameworks.ts).  Both scan past closers that  *)
(* are only content.                                                       *)
(*                                                                         *)
(* A page is a sequence of symbols: the tags "<script>", "<script src>",   *)
(* "<script/>" and "<scripting>", the closers "</script>" and              *)
(* "</scriptfoo>", comment marks, quotes, "\\", braces, "=", " ", the      *)
(* name of the manifest variable, an assignment of the origin of assets,   *)
(* script paths, and "x" for the rest.                                     *)
(***************************************************************************)
EXTENDS Integers, Sequences, FiniteSets, SequencesExt

CONSTANTS
  Page,      \* pages, as sequences of the parts they are written of
  Path,      \* string literals that hold the path of a script
  NotYet

\* The parts a page is written of.  An opening tag begins a script part.
TagPart == [kind : {"tag"}, tag : STRING \ {"<script>"}]
ScriptPiece == [kind : STRING, text : Seq(STRING), quote : STRING]
ScriptPart == [kind : {"script", "manifest"}, pieces : Seq(ScriptPiece)]

ASSUME EmbeddedAssumption == Page \subseteq Seq(TagPart \cup ScriptPart)

VARIABLES
  page,
  cut        \* what the plugins return of it, NotYet before

embeddedVars == <<page, cut>>

JsonQuote == {"\"", "'"}
HtmlQuote == JsonQuote \cup {"backtick"}

\* One symbol of a scan that tells string literals from the rest.
Quoting(quotes, acc, t) ==
  CASE acc.skip -> [acc EXCEPT !.skip = FALSE]
    [] ~acc.skip /\ acc.quote = "" -> IF t \in quotes THEN [acc EXCEPT !.quote = t] ELSE acc
    [] ~acc.skip /\ acc.quote # "" /\ t = "\\" -> [acc EXCEPT !.skip = TRUE]
    [] OTHER -> IF t = acc.quote THEN [acc EXCEPT !.quote = ""] ELSE acc

Outside == [quote |-> "", skip |-> FALSE]

QuotedAfter(text) == FoldLeft(LAMBDA acc, t : Quoting(HtmlQuote, acc, t), Outside, text)
IsInsideString(html, from, offset) == QuotedAfter(SubSeq(html, from, offset - 1)).quote # ""

Commenting(in, t) == IF in THEN t # "-->" ELSE t = "<!--"
CommentedAfter(text) == FoldLeft(Commenting, FALSE, text)
IsInsideComment(html, from, offset) == CommentedAfter(SubSeq(html, from, offset - 1))

\* Bug: a closer in a comment ends the script.
FindScriptCloseInComments(html, from) ==
  Min({k \in from..Len(html) : html[k] = "</script>" /\ ~IsInsideString(html, from, k)}
      \cup {Len(html) + 1})

\* The closer that is neither in a string nor in a comment, or the page's end.
FindScriptClose(html, from) ==
  Min({k \in from..Len(html) : /\ html[k] = "</script>"
                               /\ ~IsInsideComment(html, from, k)
                               /\ ~IsInsideString(html, from, k)}
      \cup {Len(html) + 1})

\* One symbol: only opening tags count, and none within a body already taken.
ScanTag(html, acc, i) ==
  CASE i < acc.cursor \/ html[i] \notin {"<script>", "<script/>"} -> acc
    [] i >= acc.cursor /\ html[i] = "<script/>" -> [acc EXCEPT !.scripts = Append(@, <<>>)]
    [] i >= acc.cursor /\ html[i] = "<script>" ->
         LET close == FindScriptClose(html, i + 1)
         IN  [cursor |-> close + 1,
              scripts |-> Append(acc.scripts, SubSeq(html, i + 1, close - 1))]

ScanTags(html) ==
  FoldLeft(LAMBDA acc, i : ScanTag(html, acc, i), [cursor |-> 1, scripts |-> <<>>],
           [i \in DOMAIN html |-> i])
ExtractInlineScripts(html) == ScanTags(html).scripts

\* Empty bodies are dropped, and counted.
KeepBody(bodies, kept, n) ==
  IF bodies[n] = <<>> THEN kept ELSE Append(kept, [index |-> n - 1, content |-> bodies[n]])
KeptBodies(bodies) ==
  FoldLeft(LAMBDA kept, n : KeepBody(bodies, kept, n), <<>>, [n \in DOMAIN bodies |-> n])
InlineScripts(html) == KeptBodies(ExtractInlineScripts(html))

\* One symbol after the opening brace.
Brace(acc, t) ==
  LET scan == Quoting(JsonQuote, acc.scan, t)
      code == acc.scan.quote = "" /\ scan.quote = ""
      depth == acc.depth + (IF code /\ t = "{" THEN 1 ELSE IF code /\ t = "}" THEN -1 ELSE 0)
  IN  IF acc.depth = 0 THEN acc
      ELSE [scan |-> scan, depth |-> depth,
            text |-> IF depth = 0 THEN acc.text ELSE Append(acc.text, t)]

BracesAfter(text) == FoldLeft(Brace, [scan |-> Outside, depth |-> 1, text |-> <<>>], text)

\* The contents of the object assigned to the variable; nothing is returned when
\* an assignment or a brace is missing.
ExtractBraceBalancedJson(content) ==
  LET marks == {i \in DOMAIN content : content[i] = "marker"}
      equals == {i \in DOMAIN content : marks # {} /\ i > Min(marks) /\ content[i] = "="}
      opens == {i \in DOMAIN content :
                  /\ equals # {} /\ i > Min(equals) /\ content[i] = "{"
                  /\ \A j \in (Min(equals) + 1)..(i - 1) : content[j] = " "}
      read == BracesAfter(SubSeq(content, Min(opens) + 1, Len(content)))
  IN  IF opens = {} \/ read.depth # 0 THEN <<>> ELSE read.text

\* The origin of assets a script names.
ExtractCdnBase(html) == IF "cdn" \in ToSet(html) THEN "cdn" ELSE ""

\* The paths in the manifest, each under that origin.
JsPaths(html) ==
  {<<ExtractCdnBase(html), t>> : t \in ToSet(ExtractBraceBalancedJson(html)) \cap Path}

\* The origin, as one that fragments of the whole scan may be under.
PrependUrls(html) ==
  IF ExtractBraceBalancedJson(html) = <<>> THEN {} ELSE {ExtractCdnBase(html)} \ {""}
-----------------------------------------------------------------------------
(* How a page is written: scripts made of code, strings, comments and the  *)
(* manifest with its strings and objects; tags; and text.                  *)

Written(piece) ==
  CASE piece.kind = "string" -> <<piece.quote>> \o piece.text \o <<piece.quote>>
    [] piece.kind = "comment" -> <<"<!--">> \o piece.text \o <<"-->">>
    [] piece.kind = "object" -> <<"{">> \o piece.text \o <<"}">>
    [] OTHER -> piece.text

WrittenAll(pieces) == FlattenSeq([n \in DOMAIN pieces |-> Written(pieces[n])])
Manifest(part) == WrittenAll(part.pieces)

ScriptBody(part) ==
  IF part.kind = "manifest"
  THEN <<"marker", " ", "=", " ", "{">> \o Manifest(part) \o <<"}">>
  ELSE WrittenAll(part.pieces)

Html(p) ==
  FlattenSeq([n \in DOMAIN p |-> IF p[n].kind = "tag" THEN <<p[n].tag>>
                                 ELSE <<"<script>">> \o ScriptBody(p[n]) \o <<"</script>">>])

EmbeddedInit == page \in Page /\ cut = NotYet

Extract ==
  /\ cut = NotYet
  /\ cut' = [inline |-> InlineScripts(Html(page)), paths |-> JsPaths(Html(page)),
             prepend |-> PrependUrls(Html(page))]
  /\ UNCHANGED page
-----------------------------------------------------------------------------
\* Strings hold their own quote only after a backslash, and no comment mark;
\* comments hold no quote; code and objects hold neither, nor closers.
PlainPiece(piece) ==
  LET text == ToSet(piece.text)
  IN  CASE piece.kind = "string" ->
             /\ piece.quote \in HtmlQuote /\ "<!--" \notin text
             /\ \A n \in DOMAIN piece.text :
                  /\ piece.text[n] = piece.quote => n > 1 /\ piece.text[n - 1] = "\\"
                  /\ piece.text[n] = "\\" => n < Len(piece.text) /\ piece.text[n + 1] # "\\"
        [] piece.kind = "comment" -> text \cap (HtmlQuote \cup {"-->"}) = {}
        [] OTHER -> text \cap (HtmlQuote \cup {"<!--", "-->", "</script>", "{", "}", "\\"}) = {}

\* A manifest is JSON: its strings have JSON's quotes, and it has no comments.
PlainPart(part) ==
  part.kind # "tag" =>
    \A n \in DOMAIN part.pieces :
      /\ PlainPiece(part.pieces[n])
      /\ part.kind = "manifest" /\ part.pieces[n].kind = "string" => part.pieces[n].quote \in JsonQuote
      /\ part.kind = "manifest" => part.pieces[n].kind # "comment"

\* The bodies of a page's inline scripts; that of a tag that closes itself is empty.
BodiesOf(part) ==
  IF part.kind # "tag" THEN <<ScriptBody(part)>>
  ELSE IF part.tag = "<script/>" THEN <<<<>>>> ELSE <<>>
Bodies(p) == FlattenSeq([n \in DOMAIN p |-> BodiesOf(p[n])])

Mentions(part, t) == IF part.kind = "tag" THEN part.tag = t ELSE t \in ToSet(ScriptBody(part))

(* What a page embeds is cut out whole: every inline script that is not    *)
(* empty, in order and with its place among all of them, though it holds   *)
(* closing tags in its strings and comments; and of the one manifest every *)
(* path, though its strings hold braces and quotes, under the origin the   *)
(* page names, which is told to the scan if the manifest holds anything.   *)
EmbeddedWhole ==
  cut # NotYet /\ (\A n \in DOMAIN page : PlainPart(page[n])) =>
    LET bodies == Bodies(page)
        solid == {n \in DOMAIN bodies : bodies[n] # <<>>}
        base == IF \E n \in DOMAIN page : Mentions(page[n], "cdn") THEN "cdn" ELSE ""
    IN  /\ ToSet(cut.inline) = {[index |-> n - 1, content |-> bodies[n]] : n \in solid}
        /\ \A i, j \in DOMAIN cut.inline : i < j => cut.inline[i].index < cut.inline[j].index
        /\ \A n \in DOMAIN page :
             /\ page[n].kind = "manifest"
             /\ \A m \in DOMAIN page \ {n} : ~Mentions(page[m], "marker")
             => /\ cut.paths = {<<base, t>> : t \in ToSet(Manifest(page[n])) \cap Path}
                /\ cut.prepend = IF Manifest(page[n]) = <<>> THEN {} ELSE {base} \ {""}
=============================================================================
