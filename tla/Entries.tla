------------------------------ MODULE Entries -------------------------------
(***************************************************************************)
(* The plugins that name further pages to fetch: HtmlPivotPlugin           *)
(* (src/src/plugins/html-pivot.ts) from a page's links and a script's      *)
(* literals, and the micro-frontend plugins (micro-apps.ts) from the       *)
(* sub-applications a script registers.                                    *)
(*                                                                         *)
(* A link is a record: its name, whether it is blank, unusable (an anchor, *)
(* a pseudo-scheme or a template), a file of another type, has a dot, ends *)
(* in a slash, has a query, and where it leads: "same", "other" or "none"  *)
(* for a host, or no address over HTTP.  An entry is a record: its value,  *)
(* whether a companion field is near it, whether it is rooted or a full    *)
(* address and not a template, and how it ends.                            *)
(***************************************************************************)
EXTENDS Findings

CONSTANT MAX_MICRO_APP_ENTRIES

ASSUME EntriesAssumption == MAX_MICRO_APP_ENTRIES \in Nat \ {0}

PageLink ==
  [name : STRING, blank : BOOLEAN, unusable : BOOLEAN, otherType : BOOLEAN, dotted : BOOLEAN,
   slashed : BOOLEAN, query : BOOLEAN, leads : {"same", "other", "none"}]
MicroEntry ==
  [value : STRING, near : BOOLEAN, placed : BOOLEAN, ends : {"html", "/", "other"},
   parses : BOOLEAN]

PivotPrecheck(d) == IF d.type = "html" THEN d.hasLinks ELSE d.type = "js" /\ d.hasPages

\* addOne: the query is cut, and the page kept if it is one, on this host.
AddOne(b, link, ending) ==
  LET page == <<link.name, IF link.query THEN "" ELSE ending>>
  IN  IF link.unusable \/ (link.otherType /\ ending = "") \/ link.leads # "same" THEN b
      ELSE AddIntermediate(b, page)

\* A link with no dot and no closing slash may be a route, a directory or a file.
Add(b, link) ==
  CASE link.blank -> b
    [] ~link.blank /\ ~link.dotted /\ ~link.slashed ->
         AddOne(AddOne(AddOne(b, link, ""), link, "/index.html"), link, ".html")
    [] OTHER -> AddOne(b, link, "")

\* Bug: what a link adds is not counted against the limit.
AddLinkUncounted(b, link) == Add(b, link)

\* The limit is looked at once for each link.
AddLink(b, link) ==
  IF Len(b.intermediates) >= MAX_MICRO_APP_ENTRIES THEN b ELSE Add(b, link)

PivotAnalyze(d) ==
  IF d.type = "js" THEN FoldLeft(Add, NewBuilder, d.pages)
  ELSE FoldLeft(AddLink, NewBuilder, d.links)

MicroPrecheck(d) == d.type = "js" /\ d.registers

LooksLikeMicroAppEntry(e) == e.placed /\ (e.ends = "html" \/ (e.ends = "/" /\ e.parses))

Accept(b, e) ==
  IF e.near /\ LooksLikeMicroAppEntry(e) THEN AddIntermediate(b, <<e.value, "">>) ELSE b

Cut(b) ==
  [b EXCEPT !.intermediates = SubSeq(@, 1, IF Len(@) > MAX_MICRO_APP_ENTRIES
                                           THEN MAX_MICRO_APP_ENTRIES ELSE Len(@))]

\* qiankun, Garfish, micro-app and wujie alike.
MicroAnalyze(d) == Cut(FoldLeft(Accept, NewBuilder, d.entries))

\* icestark: the members of arrays first, then the single values.
IcestarkAnalyze(d) == Cut(FoldLeft(Accept, NewBuilder, d.arrayEntries \o d.entries))
=============================================================================
