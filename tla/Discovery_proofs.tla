-------------------------- MODULE Discovery_proofs --------------------------
(* The discovery loop never loses or repeats a claim and implements the    *)
(* worklist of Worklist.tla, for every site, storage and interleaving.     *)
EXTENDS Discovery, TLAPS

-----------------------------------------------------------------------------
(* The state of the discovery loop stays well typed, for every site.       *)

(* What a URL, a page and a finding are made of. *)
LEMMA RebaseType == ASSUME NEW u \in Url, NEW b \in Url PROVE RebaseTo(u, b) \in Url
  BY DEF RebaseTo, Url

LEMMA MapUrlType == ASSUME NEW u \in Url PROVE MapUrl(u) \in Url
  BY DiscoveryAssumption DEF MapUrl, Url, DiscoveryAssumption

LEMMA PageType ==
  ASSUME ScanTypes, NEW u \in DOMAIN site
  PROVE  u \in Url /\ site[u] \in Page
  BY DiscoveryAssumption DEF ScanTypes, DiscoveryAssumption

LEMMA StartType ==
  /\ Start \in Url /\ Site(Start) \in Prefix
  /\ {"CLI", "FallbackEmp", "HTMLScriptPlugin", "Unknown"} \subseteq Plugin
  BY DiscoveryAssumption DEF DiscoveryAssumption, Site, Url, Prefix

LEMMA SitePrefix == ASSUME NEW u \in Url PROVE Site(u) \in Prefix
  BY DEF Site, Url, Prefix

LEMMA AnsweredPage ==
  ASSUME NEW u, "ok" \in Answers(u)
  PROVE  u \in DOMAIN site
  BY DEF Answers
-----------------------------------------------------------------------------
(* The building blocks of the actions keep their part of the state typed.  *)
LEMMA EnqueueTypes ==
  ASSUME BaseTypes, ClaimTypes, NEW claimed \in SUBSET Url, NEW targets \in SUBSET Url,
         NEW by \in Plugin, Enqueue(claimed, targets, by), UNCHANGED keys
  PROVE  ClaimTypes'
<1> DEFINE fresh == {Rebase(t) : t \in targets} \ claimed
<1>1. fresh \subseteq Url
  BY RebaseType DEF Rebase, BaseTypes
<1>2. seen' = claimed \cup fresh /\ queue' = queue \cup [url : fresh, by : {by}]
  BY DEF Enqueue
<1>3. [url : fresh, by : {by}] \subseteq Item
  <2> HIDE DEF fresh
  <2> QED
    BY <1>1 DEF Item
<1> HIDE DEF fresh
<1> QED
  BY <1>1, <1>2, <1>3 DEF ClaimTypes

LEMMA RecordJsTypes ==
  ASSUME KnowTypes, NEW u \in Url, NEW by \in Plugin, RecordJs(u, by)
  PROVE  entries' \subseteq Item
  BY DEF KnowTypes, RecordJs, Item

LEMMA HandleRedirectTypes ==
  ASSUME BaseTypes, KnowTypes, NEW from \in Url, NEW to \in Url, HandleRedirect(from, to)
  PROVE  BaseTypes' /\ prefixes' \subseteq Prefix
<1>1. Site(to) \in Prefix
  BY SitePrefix
<1> QED
  BY <1>1 DEF BaseTypes, KnowTypes, HandleRedirect

LEMMA EffectiveUrlType ==
  ASSUME BaseTypes, NEW u \in Url, NEW final \in Url
  PROVE  EffectiveUrl(u, final) \in Url
<1>1. CASE \E r \in redirected : r.from = u
  <2> DEFINE r == CHOOSE r \in redirected : r.from = u
  <2>1. r \in redirected
    BY <1>1
  <2>2. r.to \in Url
    BY <2>1 DEF BaseTypes
  <2> QED
    BY <1>1, <2>2 DEF EffectiveUrl
<1>2. CASE ~ \E r \in redirected : r.from = u
  BY <1>2 DEF EffectiveUrl
<1> QED
  BY <1>1, <1>2

LEMMA ContinueTypes ==
  ASSUME TaskTypes, NEW i \in DOMAIN task, NEW t \in Task, NEW nxt \in {Nobody, i},
         Continue(i, t, nxt)
  PROVE  TaskTypes'
  BY DEF TaskTypes, Continue

LEMMA ReturnTypes ==
  ASSUME TaskTypes, NEW i \in DOMAIN task, Return(i)
  PROVE  TaskTypes'
  BY DEF TaskTypes, Return

(* A finding, and the task that is about to fold it. *)
LEMMA FindingTypes ==
  ASSUME TaskTypes, NEW i \in DOMAIN task, task[i].todo # <<>>
  PROVE  /\ Finding1(i) \in Finding /\ Rest(i) \in Task /\ task[i] \in Task
         /\ Tail(task[i].todo) \in Seq(Finding)
         /\ Finding1(i).by \in Plugin
<1>1. task[i] \in Task /\ task[i].todo \in Seq(Finding)
  BY DEF TaskTypes, Task
<1>2. Head(task[i].todo) \in Finding /\ Tail(task[i].todo) \in Seq(Finding)
  BY <1>1
<1>3. Rest(i) \in Task
  BY <1>1, <1>2 DEF Rest, Task
<1> QED
  BY <1>1, <1>2, <1>3, FindingAssumption DEF Finding1, FindingAssumption

(* The candidates of a fragment are URLs. *)
LEMMA UnderType ==
  ASSUME NEW o \in Origin, NEW d \in Seq(Segment), NEW frag \in Fragment
  PROVE  Under(o, d, frag) \in Url
<1>1. d \o frag.dir \in Seq(Segment)
  BY DEF Fragment
<1> QED
  BY <1>1 DEF Under, Url, Fragment

LEMMA PublicOriginsType ==
  ASSUME KnowTypes, NEW n \in DOMAIN publics, NEW from \in Url
  PROVE  PublicOrigins(n, from) \subseteq Origin
<1>1. \A m \in 1..n : publics[m] \in Public
  BY DEF KnowTypes
<1>2. from.origin \in Origin
  BY DEF Url
<1> QED
  BY <1>1, <1>2 DEF PublicOrigins, Public

LEMMA OnPublicPathsType ==
  ASSUME KnowTypes, NEW frag \in Fragment, NEW from \in Url
  PROVE  OnPublicPaths(frag, from) \subseteq Url
<1> DEFINE on(n) == {Under(o, publics[n].dir, frag) : o \in PublicOrigins(n, from)}
<1>1. ASSUME NEW n \in DOMAIN publics PROVE on(n) \subseteq Url
  <2>1. publics[n] \in Public
    BY DEF KnowTypes
  <2>2. publics[n].dir \in Seq(Segment)
    BY <2>1 DEF Public
  <2> QED
    BY <2>2, PublicOriginsType, UnderType
<1> HIDE DEF on
<1>2. UNION {on(n) : n \in DOMAIN publics} \subseteq Url
  BY <1>1
<1> QED
  BY <1>2 DEF OnPublicPaths, on

LEMMA CandidatesType ==
  ASSUME KnowTypes, BaseTypes, NEW frag \in Fragment, NEW from \in Url
  PROVE  Candidates(frag, from) \subseteq Url
<1>1. \A k \in Known : [k EXCEPT !.file = frag.file] \in Url
  <2>1. Known \subseteq Url
    BY DEF Known, KnowTypes, Item
  <2> QED
    BY <2>1 DEF Url, Fragment
<1>2. \A p \in prefixes : Under(p.origin, p.dir, frag) \in Url
  BY UnderType DEF KnowTypes, Prefix
<1>3. Under(base.origin, <<>>, frag) \in Url /\ Under(from.origin, <<>>, frag) \in Url
  <2>1. base.origin \in Origin /\ from.origin \in Origin /\ <<>> \in Seq(Segment)
    BY DEF BaseTypes, Url
  <2> QED
    BY <2>1, UnderType
<1> DEFINE matched == {[k EXCEPT !.file = frag.file] :
                         k \in {u \in Known : frag.dir # <<>> /\ IsSuffix(frag.dir, u.dir)}}
           prefixed == {Under(p.origin, p.dir, frag) : p \in prefixes}
<1>4. matched \subseteq Url /\ prefixed \subseteq Url
  <2>1. matched \subseteq {[k EXCEPT !.file = frag.file] : k \in Known}
    BY Zenon
  <2> HIDE DEF matched
  <2> QED
    BY <1>1, <1>2, <2>1
<1>5. Candidates(frag, from) \subseteq
        matched \cup prefixed \cup OnPublicPaths(frag, from)
          \cup {Under(base.origin, <<>>, frag), Under(from.origin, <<>>, frag)}
  BY Zenon DEF Candidates
<1> HIDE DEF matched, prefixed
<1> QED
  BY <1>3, <1>4, <1>5, OnPublicPathsType

LEMMA BareTargetsType ==
  ASSUME KnowTypes, NEW f, f.frag \in Fragment, f.from \in Url
  PROVE  BareTargets(f) \subseteq Url
<1>1. [f.from EXCEPT !.file = f.frag.file] \in Url
  BY DEF Url, Fragment
<1>2. \A p \in prefixes : [origin |-> p.origin, dir |-> p.dir, file |-> f.frag.file] \in Url
  BY DEF KnowTypes, Prefix, Url, Fragment
<1> QED
  BY <1>1, <1>2 DEF BareTargets

(* A body arrives at a task. *)
LEMMA ArriveTypes ==
  ASSUME ScanTypes, TaskTypes, KnowTypes, NEW i \in DOMAIN task, NEW u \in DOMAIN site,
         NEW kind \in {"html", "js", "other"}, NEW eff \in Url, Arrive(i, u, kind, eff)
  PROVE  TaskTypes' /\ entries' \subseteq Item /\ analysed' \subseteq Url
<1> DEFINE t == [task[i] EXCEPT !.eff = eff, !.js = (kind = "js")]
<1>1. task[i] \in Task /\ site[u] \in Page /\ u \in Url
  BY PageType DEF TaskTypes
<1>2. t \in Task
  <2>1. (kind = "js") \in BOOLEAN
    OBVIOUS
  <2> QED
    BY <1>1, <2>1 DEF Task
<1>3. t.by \in Plugin
  BY <1>2 DEF Task
<1>4. [t EXCEPT !.pc = "map"] \in Task
  BY <1>2 DEF Task, Step
<1>5. [t EXCEPT !.pc = "fold", !.todo = site[u].finds, !.announced = site[u].announcesMap]
        \in Task
  BY <1>1, <1>2 DEF Task, Step, Page
<1> HIDE DEF t
<1>6. CASE /\ IF site[u].empty THEN RecordJs(eff, t.by) ELSE UNCHANGED entries
           /\ Return(i) /\ UNCHANGED analysed
  BY <1>3, <1>6, RecordJsTypes, ReturnTypes DEF KnowTypes
<1>7. CASE /\ Continue(i, [t EXCEPT !.pc = "map"], Nobody)
           /\ UNCHANGED <<entries, analysed>>
  BY <1>4, <1>7, ContinueTypes DEF KnowTypes
<1>8. CASE /\ Continue(i, [t EXCEPT !.pc = "fold", !.todo = site[u].finds,
                                     !.announced = site[u].announcesMap], Nobody)
           /\ analysed' = analysed \cup {u} /\ UNCHANGED entries
  BY <1>1, <1>5, <1>8, ContinueTypes DEF KnowTypes
<1> QED
  BY <1>6, <1>7, <1>8 DEF Arrive, t
-----------------------------------------------------------------------------
(* processResults *)
LEMMA FoldTypes == ASSUME TypeOK, NEW i \in DOMAIN task, Fold(i) PROVE TypeOK'
<1> DEFINE f == Finding1(i)
<1> USE DEF TypeOK
<1>0. task[i].todo # <<>>
  BY DEF Fold, Folding, FoldPrefix, FoldPublic, FoldUrl, FoldClaimed, FoldAbsolute, FoldBare,
         FoldPathNow, FoldPath, FoldPageSeen, FoldPage, FoldKeySeen, FoldInline, FoldRequest
<1>1. /\ f \in Finding /\ Rest(i) \in Task /\ task[i] \in Task /\ f.by \in Plugin
      /\ Tail(task[i].todo) \in Seq(Finding)
  BY <1>0, FindingTypes
<1>2. /\ f.tag = "prefix" => f.prefix \in Prefix
      /\ f.tag = "public" => f.public \in Public
      /\ f.tag \in {"url", "absolute", "page", "request"} => f.url \in Url
      /\ f.tag \in {"bare", "path"} => f.frag \in Fragment /\ f.from \in Url
      /\ f.tag \in {"inline", "request"} => f.key \in Key
      /\ f.tag = "inline" => f.finds \in Seq(Finding)
  BY <1>1, FindingAssumption DEF FindingAssumption
<1>3. TurnAfter(i) \in {Nobody, i}
  BY DEF TurnAfter
<1>4. ASSUME FoldUnchanged PROVE ScanTypes' /\ LoopTypes' /\ BaseTypes' /\ UNCHANGED <<entries, analysed>>
  BY <1>4 DEF FoldUnchanged, scanVars, loopVars, baseVars, ScanTypes, LoopTypes, BaseTypes
<1>5. ASSUME Continue(i, Rest(i), TurnAfter(i)) PROVE TaskTypes'
  BY <1>1, <1>3, <1>5, ContinueTypes
<1>6. ASSUME UNCHANGED <<claimVars, keys>> PROVE ClaimTypes'
  BY <1>6 DEF claimVars, ClaimTypes
<1>7. ASSUME UNCHANGED fragVars PROVE FragTypes'
  BY <1>7 DEF fragVars, FragTypes
<1>8. ASSUME UNCHANGED <<prefixes, publics, htmlEntries, entries, analysed>> PROVE KnowTypes'
  BY <1>8 DEF KnowTypes
<1>9. ASSUME NEW targets \in SUBSET Url, Enqueue(seen, targets, f.by), UNCHANGED keys
      PROVE  ClaimTypes'
  <2>1. seen \in SUBSET Url
    BY DEF ClaimTypes
  <2> QED
    BY <1>1, <1>9, <2>1, EnqueueTypes
<1>10. ASSUME ClaimText(i), f.tag \in {"absolute", "bare", "path"}
       PROVE  fragSeen' \subseteq Fragment \cup Url
  BY <1>2, <1>10 DEF ClaimText, Text, FragTypes
<1> HIDE DEF f
<1> USE DEF Folding
<1>11. CASE FoldPrefix(i)
  <2>1. KnowTypes'
    BY <1>2, <1>4, <1>11 DEF FoldPrefix, KnowTypes, f
  <2> QED
    BY <1>4, <1>5, <1>6, <1>7, <1>11, <2>1 DEF FoldPrefix
<1>12. CASE FoldPublic(i)
  <2>1. KnowTypes'
    <3>1. publics' \in Seq(Public)
      BY <1>2, <1>12 DEF FoldPublic, KnowTypes, f
    <3> QED
      BY <1>4, <1>12, <3>1 DEF FoldPublic, KnowTypes
  <2> QED
    BY <1>4, <1>5, <1>6, <1>7, <1>12, <2>1 DEF FoldPublic
<1>13. CASE FoldUrl(i)
  <2>1. ClaimTypes'
    BY <1>2, <1>9, <1>13 DEF FoldUrl, f
  <2> QED
    BY <1>4, <1>5, <1>7, <1>8, <1>13, <2>1 DEF FoldUrl
<1>14. CASE FoldClaimed(i)
  BY <1>4, <1>5, <1>6, <1>7, <1>8, <1>14 DEF FoldClaimed
<1>15. CASE FoldAbsolute(i)
  <2>1. ClaimTypes' /\ fragSeen' \subseteq Fragment \cup Url
    BY <1>2, <1>9, <1>10, <1>15 DEF FoldAbsolute, f
  <2> QED
    BY <1>4, <1>5, <1>8, <1>15, <2>1 DEF FoldAbsolute, FragTypes
<1>16. CASE FoldBare(i)
  <2>1. BareTargets(f) \subseteq Url
    BY <1>2, <1>16, BareTargetsType DEF FoldBare, f
  <2>2. ClaimTypes' /\ fragSeen' \subseteq Fragment \cup Url
    BY <1>2, <1>9, <1>10, <1>16, <2>1 DEF FoldBare, f
  <2> QED
    BY <1>4, <1>5, <1>8, <1>16, <2>2 DEF FoldBare, FragTypes
<1>17. CASE FoldPathNow(i)
  <2>1. Candidates(f.frag, f.from) \subseteq Url
    BY <1>2, <1>17, CandidatesType DEF FoldPathNow, f
  <2>2. ClaimTypes' /\ fragSeen' \subseteq Fragment \cup Url
    BY <1>2, <1>9, <1>10, <1>17, <2>1 DEF FoldPathNow, f
  <2> QED
    BY <1>4, <1>5, <1>8, <1>17, <2>2 DEF FoldPathNow, FragTypes
<1>18. CASE FoldPath(i)
  <2>1. [frag |-> f.frag, from |-> f.from, by |-> f.by]
          \in [frag : Fragment, from : Url, by : Plugin]
    BY <1>1, <1>2, <1>18 DEF FoldPath, f
  <2>2. FragTypes'
    BY <1>2, <1>10, <1>18, <2>1 DEF FoldPath, FragTypes, f
  <2> QED
    BY <1>4, <1>5, <1>6, <1>8, <1>18, <2>2 DEF FoldPath
<1>19. CASE FoldPageSeen(i)
  BY <1>4, <1>5, <1>6, <1>7, <1>8, <1>19 DEF FoldPageSeen
<1>20. CASE FoldPage(i)
  <2>1. f.url \in Url
    BY <1>2, <1>20 DEF FoldPage, f
  <2>2. ClaimTypes'
    BY <1>9, <1>20, <2>1 DEF FoldPage, f
  <2>3. htmlEntries' \in Seq(Url)
    BY <1>20, <2>1 DEF FoldPage, KnowTypes, f
  <2> QED
    BY <1>4, <1>5, <1>7, <1>20, <2>2, <2>3 DEF FoldPage, KnowTypes
<1>21. CASE FoldKeySeen(i)
  BY <1>4, <1>5, <1>6, <1>7, <1>8, <1>21 DEF FoldKeySeen
<1>22. CASE FoldInline(i)
  <2>1. f.finds \o Tail(task[i].todo) \in Seq(Finding)
    BY <1>1, <1>2, <1>22 DEF FoldInline, f
  <2>2. [task[i] EXCEPT !.todo = f.finds \o Tail(@)] \in Task
    BY <1>1, <2>1 DEF Task
  <2>3. TaskTypes'
    BY <1>22, <2>2, ContinueTypes DEF FoldInline, f
  <2>4. ClaimTypes'
    BY <1>2, <1>22 DEF FoldInline, ClaimTypes, claimVars, f
  <2> QED
    BY <1>4, <1>7, <1>8, <1>22, <2>3, <2>4 DEF FoldInline
<1>23. CASE FoldRequest(i)
  <2>1. [task[i] EXCEPT !.pc = "flight"] \in Task
    BY <1>1 DEF Task, Step
  <2>2. TaskTypes'
    BY <1>23, <2>1, ContinueTypes DEF FoldRequest
  <2>3. ClaimTypes'
    BY <1>2, <1>23 DEF FoldRequest, ClaimTypes, claimVars, f
  <2> QED
    BY <1>4, <1>7, <1>8, <1>23, <2>2, <2>3 DEF FoldRequest
<1> QED
  BY <1>11, <1>12, <1>13, <1>14, <1>15, <1>16, <1>17, <1>18, <1>19, <1>20, <1>21, <1>22,
     <1>23 DEF Fold

\* A task that awaits an answer has the request it issued at the head.
Awaited == \A i \in DOMAIN task : task[i].pc = "flight" => task[i].todo # <<>>

(* Every other step of a task. *)
LEMMA ProcessTypes == ASSUME TypeOK, Awaited, NEW i \in DOMAIN task, Process(i) PROVE TypeOK'
<1> USE DEF TypeOK
<1>0. task[i] \in Task /\ task[i].url \in Url /\ task[i].eff \in Url /\ task[i].by \in Plugin
  BY DEF TaskTypes, Task
<1>1. ASSUME TaskUnchanged PROVE ScanTypes' /\ LoopTypes' /\ FragTypes' /\ keys' = keys
  BY <1>1 DEF TaskUnchanged, scanVars, loopVars, fragVars, ScanTypes, LoopTypes, FragTypes
<1>2. ASSUME UNCHANGED <<claimVars, keys>> PROVE ClaimTypes'
  BY <1>2 DEF claimVars, ClaimTypes
<1>3. ASSUME UNCHANGED baseVars PROVE BaseTypes'
  BY <1>3 DEF baseVars, BaseTypes
<1>4. ASSUME TaskUnchanged, prefixes' \subseteq Prefix, entries' \subseteq Item, analysed' \subseteq Url
      PROVE  KnowTypes'
  BY <1>4 DEF TaskUnchanged, KnowTypes
<1>5. prefixes \subseteq Prefix /\ entries \subseteq Item /\ analysed \subseteq Url
  BY DEF KnowTypes
<1>6. ASSUME NEW pc \in Step PROVE [task[i] EXCEPT !.pc = pc] \in Task
  BY <1>0, <1>6 DEF Task
<1>7. {"map", "store", "retry", "fold", "flight"} \subseteq Step
  BY DEF Step
<1>8. ASSUME Return(i), TaskUnchanged, UNCHANGED <<claimVars, baseVars, prefixes, entries, analysed>>
      PROVE  TypeOK'
  BY <1>1, <1>2, <1>3, <1>4, <1>5, <1>8, ReturnTypes
<1>9. ASSUME NEW t \in Task, Continue(i, t, Nobody), TaskUnchanged,
             UNCHANGED <<claimVars, baseVars, prefixes, entries, analysed>>
      PROVE  TypeOK'
  BY <1>1, <1>2, <1>3, <1>4, <1>5, <1>9, ContinueTypes
<1>10. CASE LoadCached(i)
  <2>1. /\ Start \in DOMAIN site /\ UNCHANGED <<claimVars, baseVars, prefixes>>
        /\ TaskUnchanged /\ Arrive(i, Start, "html", EffectiveUrl(task[i].url, task[i].url))
    BY <1>10 DEF LoadCached, CacheHit
  <2>2. TaskTypes' /\ entries' \subseteq Item /\ analysed' \subseteq Url
    BY <1>0, <2>1, EffectiveUrlType, ArriveTypes
  <2> QED
    BY <1>1, <1>2, <1>3, <1>4, <1>5, <2>1, <2>2
<1>11. CASE DownloadOk(i)
  <2> DEFINE u == task[i].url
  <2>1. /\ u \in DOMAIN site /\ HandleRedirect(u, site[u].final)
        /\ Arrive(i, u, site[u].kind, EffectiveUrl(u, site[u].final))
        /\ UNCHANGED claimVars /\ TaskUnchanged
    BY <1>11, AnsweredPage DEF DownloadOk
  <2>2. site[u].final \in Url /\ site[u].kind \in {"html", "js", "other"}
    BY <2>1, PageType DEF Page
  <2>3. TaskTypes' /\ entries' \subseteq Item /\ analysed' \subseteq Url
    BY <1>0, <2>1, <2>2, EffectiveUrlType, ArriveTypes
  <2>4. BaseTypes' /\ prefixes' \subseteq Prefix
    BY <1>0, <2>1, <2>2, HandleRedirectTypes
  <2> QED
    BY <1>1, <1>2, <1>4, <2>1, <2>3, <2>4
<1>12. CASE DownloadBusy(i)
  BY <1>6, <1>7, <1>9, <1>12 DEF DownloadBusy
<1>13. CASE DownloadFailed(i)
  BY <1>8, <1>13 DEF DownloadFailed
<1>14. CASE FlightOk(i)
  <2> DEFINE u == Finding1(i).url
  <2>1. u \in DOMAIN site
    BY <1>14, AnsweredPage DEF FlightOk
  <2>2. site[u].finds \in Seq(Finding) /\ u \in Url
    BY <2>1, PageType DEF Page
  <2> DEFINE t == [task[i] EXCEPT !.pc = "fold", !.todo = site[u].finds \o Tail(@)]
  <2>3. Tail(task[i].todo) \in Seq(Finding)
    BY <1>14, FindingTypes DEF FlightOk, Awaited
  <2>4. site[u].finds \o Tail(task[i].todo) \in Seq(Finding)
    BY <2>2, <2>3
  <2>5. t \in Task
    BY <1>0, <1>7, <2>4 DEF Task
  <2> HIDE DEF t
  <2>6. TaskTypes'
    BY <1>14, <2>5, ContinueTypes DEF FlightOk, t
  <2>7. analysed' \subseteq Url
    BY <1>5, <1>14, <2>2 DEF FlightOk
  <2> QED
    BY <1>2, <1>3, <1>14, <2>6, <2>7 DEF FlightOk, scanVars, loopVars, fragVars, ScanTypes,
                                         LoopTypes, FragTypes, KnowTypes
<1>15. CASE FlightFailed(i)
  <2>1. Rest(i) \in Task
    BY <1>15, FindingTypes DEF FlightFailed, Awaited
  <2>2. [Rest(i) EXCEPT !.pc = "fold"] \in Task
    BY <1>7, <2>1 DEF Task
  <2>3. TaskTypes'
    BY <1>15, <2>2, ContinueTypes DEF FlightFailed
  <2> QED
    BY <1>2, <1>3, <1>15, <2>3 DEF FlightFailed, FoldUnchanged, scanVars, loopVars, fragVars,
                                   ScanTypes, LoopTypes, FragTypes, KnowTypes
<1>16. CASE Folded(i)
  BY <1>6, <1>7, <1>8, <1>9, <1>16 DEF Folded
<1>17. CASE Stored(i)
  <2>1. RecordJs(task[i].eff, task[i].by) /\ MapUrl(task[i].eff) \in Url
    BY <1>0, <1>17, MapUrlType DEF Stored
  <2>2. entries' \subseteq Item
    BY <1>0, <2>1, RecordJsTypes
  <2>3. seen' \subseteq Url
    BY <1>17, <2>1 DEF Stored, ClaimTypes
  <2>4. TaskTypes'
    BY <1>6, <1>7, <1>17, ContinueTypes, ReturnTypes DEF Stored
  <2> QED
    BY <1>1, <1>3, <1>4, <1>5, <1>17, <2>2, <2>3, <2>4 DEF Stored, ClaimTypes
<1>18. CASE MapSettled(i)
  BY <1>8, <1>18 DEF MapSettled
<1> QED
  BY <1>10, <1>11, <1>12, <1>13, <1>14, <1>15, <1>16, <1>17, <1>18, FoldTypes DEF Process

(* Only a request puts a task in flight, and it stays at the head.         *)
LEMMA ProcessAwaited == ASSUME TypeOK, Awaited, NEW i \in DOMAIN task, Process(i) PROVE Awaited'
<1>1. ASSUME Return(i) PROVE Awaited'
  BY <1>1 DEF Return, Awaited
<1>2. ASSUME NEW t, NEW nxt, Continue(i, t, nxt), t.pc # "flight" \/ t.todo # <<>>
      PROVE  Awaited'
  BY <1>2 DEF Continue, Awaited
<1>3. task[i] \in Task
  BY DEF TypeOK, TaskTypes
<1>4. \A pc : [task[i] EXCEPT !.pc = pc].pc = pc
  BY <1>3 DEF Task
<1>5. CASE LoadCached(i) \/ DownloadOk(i)
  <2>1. PICK u, kind, eff : Arrive(i, u, kind, eff)
    BY <1>5 DEF LoadCached, DownloadOk
  <2> DEFINE t == [task[i] EXCEPT !.eff = eff, !.js = (kind = "js")]
  <2>2. t.pc = task[i].pc /\ [t EXCEPT !.pc = "map"].pc = "map"
    BY <1>3 DEF Task
  <2>3. [t EXCEPT !.pc = "fold", !.todo = site[u].finds, !.announced = site[u].announcesMap].pc
          = "fold"
    BY <1>3 DEF Task
  <2> QED
    BY <1>1, <1>2, <2>1, <2>2, <2>3 DEF Arrive
<1>6. CASE DownloadBusy(i) \/ DownloadFailed(i)
  BY <1>1, <1>2, <1>4, <1>6 DEF DownloadBusy, DownloadFailed
<1>7. CASE Fold(i)
  <2>1. task[i].pc = "fold" /\ task[i].todo # <<>>
    BY <1>7 DEF Fold, Folding, FoldPrefix, FoldPublic, FoldUrl, FoldClaimed, FoldAbsolute,
                FoldBare, FoldPathNow, FoldPath, FoldPageSeen, FoldPage, FoldKeySeen,
                FoldInline, FoldRequest
  <2>2. Rest(i).pc = "fold"
    BY <1>3, <2>1 DEF Rest, Task
  <2>3. CASE FoldInline(i)
    <3>1. [task[i] EXCEPT !.todo = Finding1(i).finds \o Tail(@)].pc = "fold"
      BY <1>3, <2>1 DEF Task
    <3> QED
      BY <1>2, <2>3, <3>1 DEF FoldInline
  <2>4. CASE FoldRequest(i)
    <3>1. [task[i] EXCEPT !.pc = "flight"].todo # <<>>
      BY <1>3, <2>1 DEF Task
    <3> QED
      BY <1>2, <2>4, <3>1 DEF FoldRequest
  <2> QED
    BY <1>2, <1>7, <2>2, <2>3, <2>4
       DEF Fold, FoldPrefix, FoldPublic, FoldUrl, FoldClaimed, FoldAbsolute, FoldBare,
           FoldPathNow, FoldPath, FoldPageSeen, FoldPage, FoldKeySeen
<1>8. CASE FlightOk(i) \/ FlightFailed(i)
  <2>1. /\ \A s : [task[i] EXCEPT !.pc = "fold", !.todo = s].pc = "fold"
        /\ [Rest(i) EXCEPT !.pc = "fold"].pc = "fold"
    BY <1>3 DEF Task, Rest
  <2> QED
    BY <1>2, <1>8, <2>1 DEF FlightOk, FlightFailed
<1>9. CASE Folded(i) \/ Stored(i) \/ MapSettled(i)
  BY <1>1, <1>2, <1>4, <1>9 DEF Folded, Stored, MapSettled
<1> QED
  BY <1>5, <1>6, <1>7, <1>8, <1>9 DEF Process
-----------------------------------------------------------------------------
(* The entry page, the abort, and the loop between two batches.            *)
LEMMA InitTypes == Init => TypeOK /\ Awaited
<1> SUFFICES ASSUME Init PROVE TypeOK /\ Awaited
  OBVIOUS
<1>1. ScanTypes /\ LoopTypes /\ BaseTypes /\ ClaimTypes
  BY StartType DEF Init, ScanTypes, LoopTypes, BaseTypes, ClaimTypes
<1>2. DOMAIN task = {} /\ TaskTypes /\ Awaited
  BY DEF Init, TaskTypes, Awaited
<1>3. FragTypes /\ KnowTypes
  BY StartType DEF Init, FragTypes, KnowTypes
<1> QED
  BY <1>1, <1>2, <1>3 DEF TypeOK

LEMMA PrimeTypes == ASSUME TypeOK, Awaited, Prime PROVE TypeOK' /\ Awaited'
<1> USE DEF TypeOK
<1>1. PrimeUnchanged
  BY DEF Prime, PrimeSkip, PrimeOk, PrimeFailed
<1>2. ScanTypes' /\ TaskTypes' /\ FragTypes' /\ Awaited'
  BY <1>1 DEF PrimeUnchanged, scanVars, fragVars, ScanTypes, TaskTypes, FragTypes, Awaited
<1>3. LoopTypes'
  BY <1>1 DEF PrimeUnchanged, LoopTypes, Prime, PrimeSkip, PrimeOk, PrimeFailed
<1>4. ASSUME prefixes' \subseteq Prefix PROVE KnowTypes'
  BY <1>1, <1>4 DEF PrimeUnchanged, KnowTypes
<1>5. prefixes \subseteq Prefix
  BY DEF KnowTypes
<1>6. CASE PrimeSkip
  <2>1. ClaimTypes'
    <3>1. seen \in SUBSET Url /\ {Start} \in SUBSET Url /\ "CLI" \in Plugin /\ keys' = keys
      BY <1>1, StartType DEF ClaimTypes, PrimeUnchanged
    <3> QED
      BY <1>6, <3>1, EnqueueTypes DEF PrimeSkip
  <2> QED
    BY <1>2, <1>3, <1>4, <1>5, <1>6, <2>1 DEF PrimeSkip, BaseTypes
<1>7. CASE PrimeOk
  <2>1. Start \in DOMAIN site /\ HandleRedirect(Start, site[Start].final)
    BY <1>7, AnsweredPage DEF PrimeOk
  <2>2. site[Start].final \in Url
    BY <2>1, PageType DEF Page
  <2>3. BaseTypes' /\ prefixes' \subseteq Prefix
    BY <2>1, <2>2, StartType, HandleRedirectTypes
  <2>4. RebaseTo(Start, base') \in Url
    BY <2>3, StartType, RebaseType DEF BaseTypes
  <2>5. [url |-> RebaseTo(Start, base'), by |-> "CLI"] \in Item
    BY <2>4, StartType DEF Item
  <2>6. ClaimTypes'
    BY <1>1, <1>7, <2>4, <2>5 DEF PrimeOk, PrimeUnchanged, ClaimTypes
  <2> QED
    BY <1>2, <1>3, <1>4, <2>3, <2>6
<1>8. CASE PrimeFailed
  BY <1>1, <1>2, <1>3, <1>4, <1>5, <1>8
     DEF PrimeFailed, PrimeUnchanged, BaseTypes, ClaimTypes, claimVars
<1> QED
  BY <1>6, <1>7, <1>8 DEF Prime

LEMMA NewTaskType == ASSUME TypeOK, NEW i \in queue PROVE NewTask(i) \in Task
<1>1. i \in Item /\ base \in Url /\ queue \cup done \subseteq Item
  BY DEF TypeOK, ClaimTypes, BaseTypes, TaskTypes
<1>2. Rebase(i.url) \in Url
  BY <1>1, RebaseType DEF Item, Rebase
<1>3. \A u : Provenance(i, u) \in Plugin
  <2> SUFFICES ASSUME NEW u PROVE Provenance(i, u) \in Plugin
    OBVIOUS
  <2> DEFINE same == {j \in queue \cup done : j.url = u}
  <2>1. same \subseteq Item
    BY <1>1
  <2>2. same # {} => (CHOOSE j \in same : TRUE) \in same
    OBVIOUS
  <2> HIDE DEF same
  <2>3. same # {} => (CHOOSE j \in same : TRUE).by \in Plugin
    BY <2>1, <2>2 DEF Item
  <2> QED
    BY <1>1, <2>3, StartType DEF Provenance, same, Item
<1> QED
  BY <1>2, <1>3 DEF NewTask, Task, Step

LEMMA FragmentItemsType == ASSUME TypeOK PROVE FragmentItems \subseteq Item
<1> DEFINE cand(n) == {Rebase(c) : c \in Candidates(fragments[n].frag, fragments[n].from)}
           first(n) == cand(n) \ (seen \cup UNION {cand(m) : m \in 1..(n - 1)})
           made(n) == [url : first(n), by : {fragments[n].by}]
<1>1. ASSUME NEW n \in DOMAIN fragments PROVE made(n) \subseteq Item
  <2> DEFINE Pending == [frag : Fragment, from : Url, by : Plugin]
  <2>0. fragments \in Seq(Pending)
    BY DEF TypeOK, FragTypes
  <2> HIDE DEF Pending
  <2>1. fragments[n] \in Pending
    BY <2>0
  <2> USE DEF Pending
  <2>2. Candidates(fragments[n].frag, fragments[n].from) \subseteq Url
    BY <2>1, CandidatesType DEF TypeOK
  <2>3. cand(n) \subseteq Url
    BY <2>2, RebaseType DEF Rebase, TypeOK, BaseTypes
  <2>4. first(n) \subseteq Url
    BY <2>3
  <2> HIDE DEF first
  <2> QED
    BY <2>1, <2>4 DEF Item
<1>2. FragmentItems = UNION {made(n) : n \in DOMAIN fragments}
  BY DEF FragmentItems
<1> HIDE DEF made
<1> QED
  BY <1>1, <1>2

LEMMA LoopSteps == ASSUME TypeOK, Awaited, Loop PROVE TypeOK' /\ Awaited'
<1> USE DEF TypeOK
<1>1. LoopUnchanged /\ AtTop
  BY DEF Loop, StopOnAbort, StartBatch, ResolveFragments, Fallback, Finish, Dry
<1>2. ScanTypes' /\ BaseTypes' /\ KnowTypes' /\ keys' = keys /\ turn' = turn /\ done' = done
        /\ fragSeen' = fragSeen
  BY <1>1 DEF LoopUnchanged, scanVars, baseVars, knowVars, ScanTypes, BaseTypes, KnowTypes
<1>3. LoopTypes'
  BY <1>1 DEF LoopUnchanged, LoopTypes, Loop, StopOnAbort, StartBatch, ResolveFragments,
              Fallback, Finish
<1>4. ASSUME UNCHANGED task PROVE TaskTypes' /\ Awaited'
  BY <1>2, <1>4 DEF TaskTypes, Awaited
<1>5. ASSUME UNCHANGED fragments PROVE FragTypes'
  BY <1>2, <1>5 DEF FragTypes
<1>6. CASE StopOnAbort \/ Finish
  BY <1>2, <1>3, <1>4, <1>5, <1>6 DEF StopOnAbort, Finish, claimVars, ClaimTypes
<1>7. CASE StartBatch
  <2>1. task' = [i \in queue |-> NewTask(i)] /\ queue \subseteq Item
    BY <1>7 DEF StartBatch, ClaimTypes
  <2>2. turn' = Nobody
    BY <1>1, <1>2 DEF AtTop
  <2>3. TaskTypes'
    BY <1>2, <2>1, <2>2, NewTaskType DEF TaskTypes
  <2>4. Awaited'
    BY <2>1 DEF Awaited, NewTask
  <2> QED
    BY <1>2, <1>3, <1>5, <1>7, <2>3, <2>4 DEF StartBatch, ClaimTypes
<1>8. CASE ResolveFragments
  <2>1. queue' \subseteq Item /\ seen' \subseteq Url
    BY <1>8, FragmentItemsType DEF ResolveFragments, ClaimTypes, Item
  <2>2. FragTypes'
    BY <1>2, <1>8 DEF ResolveFragments, FragTypes
  <2> QED
    BY <1>2, <1>3, <1>4, <1>8, <2>1, <2>2 DEF ResolveFragments, ClaimTypes
<1>9. CASE Fallback
  <2> DEFINE targets == {[origin |-> base.origin, dir |-> <<>>, file |-> m] : m \in Manifests}
             dynamic == \E e \in entries : e.by # "HTMLScriptPlugin"
             fresh == IF dynamic THEN {} ELSE targets \ seen
  <2>1. targets \subseteq Url
    <3>1. \A m \in Manifests : m \in File
      BY DiscoveryAssumption DEF DiscoveryAssumption
    <3>2. base.origin \in Origin /\ <<>> \in Seq(Segment)
      BY DEF BaseTypes, Url
    <3>3. \A m \in Manifests : [origin |-> base.origin, dir |-> <<>>, file |-> m] \in Url
      BY <3>1, <3>2 DEF Url
    <3> HIDE DEF dynamic, fresh
    <3> QED
      BY <3>3
  <2>2. Enqueue(seen \cup fresh, fresh, "FallbackEmp") /\ UNCHANGED <<fragments, task>>
    BY <1>9 DEF Fallback
  <2>3. fresh \in SUBSET Url /\ seen \cup fresh \in SUBSET Url
    BY <2>1 DEF ClaimTypes
  <2> HIDE DEF fresh
  <2>4. ClaimTypes'
    BY <1>2, <2>2, <2>3, StartType, EnqueueTypes
  <2> QED
    BY <1>2, <1>3, <1>4, <1>5, <2>2, <2>4
<1> QED
  BY <1>6, <1>7, <1>8, <1>9 DEF Loop

LEMMA StepTypes == TypeOK /\ Awaited /\ [Next]_vars => TypeOK' /\ Awaited'
<1> SUFFICES ASSUME TypeOK, Awaited, [Next]_vars PROVE TypeOK' /\ Awaited'
  OBVIOUS
<1>1. CASE Abort
  BY <1>1 DEF Abort, TypeOK, ScanTypes, LoopTypes, BaseTypes, ClaimTypes, TaskTypes,
              FragTypes, KnowTypes, Awaited, scanVars, claimVars, baseVars, knowVars, fragVars
<1>2. CASE UNCHANGED vars
  BY <1>2 DEF vars, TypeOK, ScanTypes, LoopTypes, BaseTypes, ClaimTypes, TaskTypes, FragTypes,
              KnowTypes, Awaited, scanVars, loopVars, claimVars, baseVars, knowVars, fragVars
<1> QED
  BY <1>1, <1>2, PrimeTypes, LoopSteps, ProcessTypes, ProcessAwaited DEF Next

(* The state of the loop is well typed whatever the plugins find: every URL  *)
(* a fragment, a prefix or a rebase makes is one, every item has a known     *)
(* provenance, and only an item of the batch ever holds the turn.            *)
THEOREM TypeCorrect == Spec => []TypeOK
<1>1. Spec => [](TypeOK /\ Awaited)
  BY InitTypes, StepTypes, PTL DEF Spec
<1> QED
  BY <1>1, PTL

-----------------------------------------------------------------------------

\* The loop is at work when it has tasks, and before the start URL is queued
\* there is nothing at all.
AtWork ==
  /\ phase = "prime" => seen = {} /\ queue = {} /\ done = {}
  /\ DOMAIN task # {} => phase = "crawl"

IInv == Urls(Jobs) \subseteq seen /\ ClaimedOnce /\ ClaimsAccounted /\ AtWork
-----------------------------------------------------------------------------
(* How the building blocks of the actions keep the claims in order.        *)

\* Nothing is queued, taken up or finished; scripts may be recorded.
LEMMA KeepsClaims ==
  ASSUME IInv, UNCHANGED <<seen, queue, done, fallbackChecked>>,
         DOMAIN task' = DOMAIN task, Known \subseteq Known',
         phase' = phase \/ (DOMAIN task = {} /\ phase' # "prime")
  PROVE  IInv'
<1>1. Jobs' = Jobs /\ Urls(Jobs)' = Urls(Jobs)
  BY DEF Jobs, Urls
<1>2. (Urls(Jobs) \subseteq seen)' /\ ClaimedOnce'
  BY <1>1 DEF IInv, ClaimedOnce
<1>3. ProbedMaps \subseteq ProbedMaps' /\ FallbackClaims' = FallbackClaims
  BY DEF ProbedMaps, FallbackClaims, MapUrl
<1>4. ClaimsAccounted'
  BY <1>1, <1>3 DEF IInv, ClaimsAccounted
<1>5. AtWork'
  BY DEF IInv, AtWork
<1> QED
  BY <1>2, <1>4, <1>5 DEF IInv

\* URLs that were not claimed are claimed, each with an item of its own.
LEMMA QueuesClaims ==
  ASSUME IInv, phase = "crawl", phase' # "prime", NEW fresh, fresh \cap seen = {},
         NEW items, Urls(items) = fresh, \A i, j \in items : i.url = j.url => i = j,
         seen \cup fresh \subseteq seen', queue' = queue \cup items,
         seen' \subseteq seen \cup fresh \cup FallbackClaims',
         DOMAIN task' = DOMAIN task, DOMAIN task # {} => phase' = "crawl",
         UNCHANGED done, Known \subseteq Known',
         fallbackChecked => fallbackChecked'
  PROVE  IInv'
<1>1. Jobs' = Jobs \cup items
  BY DEF Jobs
<1>2. /\ \A i \in items : i.url \in fresh
      /\ \A u \in fresh : \E i \in items : i.url = u
      /\ \A i \in Jobs : i.url \in seen
  BY DEF Urls, IInv
<1>3. (Urls(Jobs) \subseteq seen)'
  BY <1>1, <1>2 DEF Urls
<1>4. items \cap Jobs = {}
  BY <1>2
<1>5. ClaimedOnce'
  <2>1. \A i, j \in Jobs' : i.url = j.url => i = j
    BY <1>1, <1>2 DEF IInv, ClaimedOnce
  <2> QED
    BY <2>1, <1>4 DEF IInv, ClaimedOnce, Jobs
<1>6. ProbedMaps \subseteq ProbedMaps' /\ FallbackClaims \subseteq FallbackClaims'
  BY DEF ProbedMaps, FallbackClaims, MapUrl
<1>7. Urls(Jobs)' = Urls(Jobs) \cup fresh
  BY <1>1 DEF Urls
<1>8. ClaimsAccounted'
  BY <1>6, <1>7 DEF IInv, ClaimsAccounted
<1>9. AtWork'
  BY DEF IInv, AtWork
<1> QED
  BY <1>3, <1>5, <1>8, <1>9 DEF IInv

LEMMA EnqueueKeeps ==
  ASSUME IInv, phase = "crawl", NEW targets, NEW by, Enqueue(seen, targets, by),
         DOMAIN task' = DOMAIN task, Known \subseteq Known',
         UNCHANGED <<done, phase, fallbackChecked>>
  PROVE  IInv'
<1> DEFINE fresh == {Rebase(t) : t \in targets} \ seen
           items == [url : fresh, by : {by}]
<1>1. seen' = seen \cup fresh /\ queue' = queue \cup items /\ fresh \cap seen = {}
  BY DEF Enqueue
<1>2. Urls(items) = fresh /\ \A i, j \in items : i.url = j.url => i = j
  <2>1. \A u \in fresh : [url |-> u, by |-> by] \in items
    OBVIOUS
  <2>2. \A i \in items : i.url \in fresh /\ i = [url |-> i.url, by |-> by]
    OBVIOUS
  <2> HIDE DEF fresh, items
  <2>3. Urls(items) = fresh
    BY <2>1, <2>2 DEF Urls
  <2> QED
    BY <2>2, <2>3
<1> HIDE DEF fresh, items
<1> QED
  BY <1>1, <1>2, QueuesClaims

\* A task comes to its end.
LEMMA ReturnKeeps ==
  ASSUME IInv, NEW i \in DOMAIN task, Return(i), Known \subseteq Known',
         UNCHANGED <<queue, phase, fallbackChecked>>,
         seen' = seen \/ \E u \in Known' : seen' = seen \cup {MapUrl(u)}
  PROVE  IInv'
<1>1. DOMAIN task' = DOMAIN task \ {i} /\ done' = done \cup {i}
  BY DEF Return
<1>2. Jobs' = Jobs /\ Urls(Jobs)' = Urls(Jobs)
  BY <1>1 DEF Jobs, Urls
<1>3. (Urls(Jobs) \subseteq seen)'
  BY <1>2 DEF IInv
<1>4. ClaimedOnce'
  BY <1>1, <1>2 DEF IInv, ClaimedOnce
<1>5. /\ ProbedMaps \subseteq ProbedMaps' /\ FallbackClaims \subseteq FallbackClaims'
      /\ seen' \subseteq seen \cup ProbedMaps'
  BY DEF ProbedMaps, FallbackClaims
<1>6. ClaimsAccounted'
  BY <1>2, <1>5 DEF IInv, ClaimsAccounted
<1>7. AtWork'
  BY <1>1 DEF IInv, AtWork
<1> QED
  BY <1>3, <1>4, <1>6, <1>7 DEF IInv

\* A task goes on.
LEMMA ContinueDomain ==
  ASSUME NEW i, NEW t, NEW nxt, Continue(i, t, nxt)
  PROVE  DOMAIN task' = DOMAIN task /\ done' = done
  BY DEF Continue

LEMMA RecordJsGrows ==
  ASSUME NEW u, NEW by, RecordJs(u, by)
  PROVE  Known \subseteq Known' /\ u \in Known'
<1>1. CASE u \in Known
  BY <1>1 DEF RecordJs, Known
<1>2. CASE u \notin Known
  <2>1. entries' = entries \cup {[url |-> u, by |-> by]}
    BY <1>2 DEF RecordJs
  <2>2. [url |-> u, by |-> by].url = u
    OBVIOUS
  <2> QED
    BY <2>1, <2>2 DEF Known
<1> QED
  BY <1>1, <1>2

LEMMA EntriesKept ==
  ASSUME UNCHANGED entries PROVE Known' = Known
  BY DEF Known

\* A body arrives at a task.
LEMMA ArriveKeeps ==
  ASSUME IInv, NEW i \in DOMAIN task, NEW u, NEW kind, NEW eff, Arrive(i, u, kind, eff),
         UNCHANGED <<seen, queue, phase, fallbackChecked>>
  PROVE  IInv'
<1> DEFINE t == [task[i] EXCEPT !.eff = eff, !.js = (kind = "js")]
<1>1. CASE /\ IF site[u].empty THEN RecordJs(eff, t.by) ELSE UNCHANGED entries
           /\ Return(i)
  <2>1. Known \subseteq Known'
    BY <1>1, RecordJsGrows, EntriesKept
  <2> QED
    BY <1>1, <2>1, ReturnKeeps
<1>2. CASE /\ \E s : Continue(i, s, Nobody)
           /\ UNCHANGED entries
  BY <1>2, ContinueDomain, EntriesKept, KeepsClaims
<1> QED
  BY <1>1, <1>2 DEF Arrive
-----------------------------------------------------------------------------
(* Nothing is claimed at the start. *)
LEMMA InitIInv == Init => IInv
  BY DEF Init, IInv, AtWork, Jobs, Urls, ClaimedOnce, ClaimsAccounted

(* Folding a finding keeps the claims in order. *)
LEMMA FoldKeeps == ASSUME IInv, NEW i \in DOMAIN task, Fold(i) PROVE IInv'
<1> DEFINE f == Finding1(i)
<1>0. phase = "crawl"
  BY DEF IInv, AtWork
<1>1. ASSUME NEW t, NEW nxt, Continue(i, t, nxt), FoldUnchanged, UNCHANGED claimVars
      PROVE  IInv'
  BY <1>1, ContinueDomain, EntriesKept, KeepsClaims DEF FoldUnchanged, claimVars, loopVars
<1>2. ASSUME NEW t, NEW nxt, Continue(i, t, nxt), FoldUnchanged,
             NEW targets, NEW by, Enqueue(seen, targets, by)
      PROVE  IInv'
  BY <1>0, <1>2, ContinueDomain, EntriesKept, EnqueueKeeps DEF FoldUnchanged, loopVars
<1>3. CASE FoldPrefix(i)
  BY <1>1, <1>3 DEF FoldPrefix
<1>4. CASE FoldPublic(i)
  BY <1>1, <1>4 DEF FoldPublic
<1>5. CASE FoldUrl(i)
  BY <1>2, <1>5 DEF FoldUrl
<1>6. CASE FoldClaimed(i)
  BY <1>1, <1>6 DEF FoldClaimed
<1>7. CASE FoldAbsolute(i)
  BY <1>2, <1>7 DEF FoldAbsolute
<1>8. CASE FoldBare(i)
  BY <1>2, <1>8 DEF FoldBare
<1>9. CASE FoldPathNow(i)
  BY <1>2, <1>9 DEF FoldPathNow
<1>10. CASE FoldPath(i)
  BY <1>1, <1>10 DEF FoldPath
<1>11. CASE FoldPageSeen(i)
  BY <1>1, <1>11 DEF FoldPageSeen
<1>12. CASE FoldPage(i)
  BY <1>2, <1>12 DEF FoldPage
<1>13. CASE FoldKeySeen(i)
  BY <1>1, <1>13 DEF FoldKeySeen
<1>14. CASE FoldInline(i)
  BY <1>1, <1>14 DEF FoldInline
<1>15. CASE FoldRequest(i)
  BY <1>1, <1>15 DEF FoldRequest
<1> QED
  BY <1>3, <1>4, <1>5, <1>6, <1>7, <1>8, <1>9, <1>10, <1>11, <1>12, <1>13, <1>14, <1>15
     DEF Fold

(* So does every other step of a task. *)
LEMMA ProcessKeeps == ASSUME IInv, NEW i \in DOMAIN task, Process(i) PROVE IInv'
<1> USE DEF TaskUnchanged, claimVars, loopVars
<1>1. CASE LoadCached(i)
  BY <1>1, ArriveKeeps DEF LoadCached
<1>2. CASE DownloadOk(i)
  BY <1>2, ArriveKeeps DEF DownloadOk
<1>3. CASE DownloadBusy(i)
  BY <1>3, ContinueDomain, EntriesKept, KeepsClaims DEF DownloadBusy
<1>4. CASE DownloadFailed(i)
  BY <1>4, EntriesKept, ReturnKeeps DEF DownloadFailed
<1>5. CASE Fold(i)
  BY <1>5, FoldKeeps
<1>6. CASE FlightOk(i)
  BY <1>6, ContinueDomain, EntriesKept, KeepsClaims DEF FlightOk
<1>7. CASE FlightFailed(i)
  BY <1>7, ContinueDomain, EntriesKept, KeepsClaims DEF FlightFailed, FoldUnchanged
<1>8. CASE Folded(i)
  BY <1>8, ContinueDomain, EntriesKept, KeepsClaims, ReturnKeeps DEF Folded
<1>9. CASE Stored(i)
  <2>1. Known \subseteq Known' /\ task[i].eff \in Known'
    BY <1>9, RecordJsGrows DEF Stored
  <2>2. CASE Return(i) /\ UNCHANGED seen
    BY <1>9, <2>1, <2>2, ReturnKeeps DEF Stored
  <2>3. CASE /\ seen' = seen \cup {MapUrl(task[i].eff)}
             /\ \E t : Continue(i, t, Nobody)
    <3>1. DOMAIN task' = DOMAIN task /\ done' = done /\ queue' = queue
      BY <1>9, <2>3, ContinueDomain DEF Stored
    <3>2. Jobs' = Jobs /\ Urls(Jobs)' = Urls(Jobs)
      BY <3>1 DEF Jobs, Urls
    <3>3. /\ ProbedMaps \subseteq ProbedMaps' /\ MapUrl(task[i].eff) \in ProbedMaps'
          /\ FallbackClaims \subseteq FallbackClaims'
      BY <1>9, <2>1, <2>3 DEF Stored, ProbedMaps, FallbackClaims, MapUrl
    <3>4. ClaimsAccounted'
      BY <2>3, <3>2, <3>3 DEF IInv, ClaimsAccounted
    <3> QED
      BY <1>9, <2>3, <3>1, <3>2, <3>4 DEF Stored, IInv, ClaimedOnce, AtWork
  <2> QED
    BY <1>9, <2>2, <2>3 DEF Stored
<1>10. CASE MapSettled(i)
  BY <1>10, EntriesKept, ReturnKeeps DEF MapSettled
<1> QED
  BY <1>1, <1>2, <1>3, <1>4, <1>5, <1>6, <1>7, <1>8, <1>9, <1>10 DEF Process

(* The entry page, and the start URL after it. *)
LEMMA PrimeKeeps == ASSUME IInv, Prime PROVE IInv'
<1>0. /\ phase = "prime" /\ seen = {} /\ queue = {} /\ done = {}
      /\ DOMAIN task = {} /\ task' = task /\ done' = done /\ Known' = Known
      /\ fallbackChecked' = fallbackChecked
  BY EntriesKept DEF IInv, AtWork, Prime, PrimeSkip, PrimeOk, PrimeFailed, PrimeUnchanged
<1>1. ASSUME NEW u, seen' = {u}, queue' = {[url |-> u, by |-> "CLI"]}, phase' = "crawl"
      PROVE  IInv'
  <2> DEFINE item == [url |-> u, by |-> "CLI"]
  <2>0. item.url = u
    OBVIOUS
  <2> HIDE DEF item
  <2>1. Jobs' = {item} /\ Urls(Jobs)' = {u}
    <3>1. Jobs' = {item}
      BY <1>0, <1>1 DEF Jobs, item
    <3> QED
      BY <2>0, <3>1 DEF Urls
  <2> QED
    BY <1>0, <1>1, <2>1 DEF IInv, ClaimedOnce, ClaimsAccounted, AtWork
<1>2. CASE PrimeSkip
  <2>1. {Rebase(t) : t \in {Start}} \ seen = {Rebase(Start)}
    BY <1>0
  <2>2. \A u : [url : {u}, by : {"CLI"}] = {[url |-> u, by |-> "CLI"]}
    <3> SUFFICES ASSUME NEW u PROVE [url : {u}, by : {"CLI"}] = {[url |-> u, by |-> "CLI"]}
      OBVIOUS
    <3>1. \A i \in [url : {u}, by : {"CLI"}] : i = [url |-> u, by |-> "CLI"]
      OBVIOUS
    <3>2. [url |-> u, by |-> "CLI"] \in [url : {u}, by : {"CLI"}]
      OBVIOUS
    <3> QED
      BY <3>1, <3>2
  <2>3. seen' = {Rebase(Start)} /\ queue' = {[url |-> Rebase(Start), by |-> "CLI"]}
    BY <1>0, <1>2, <2>1, <2>2 DEF PrimeSkip, Enqueue
  <2> QED
    BY <1>1, <1>2, <2>3 DEF PrimeSkip
<1>3. CASE PrimeOk
  BY <1>1, <1>3 DEF PrimeOk
<1>4. CASE PrimeFailed
  BY <1>0, <1>4, KeepsClaims DEF PrimeFailed, claimVars
<1> QED
  BY <1>2, <1>3, <1>4 DEF Prime

(* The items made of fragments: URLs nobody claimed, one item for each.     *)
LEMMA FragmentItemsFresh ==
  ASSUME FragTypes
  PROVE  /\ Urls(FragmentItems) \cap seen = {}
         /\ \A i, j \in FragmentItems : i.url = j.url => i = j
<1> DEFINE cand(n) == {Rebase(c) : c \in Candidates(fragments[n].frag, fragments[n].from)}
           before(n) == UNION {cand(m) : m \in 1..(n - 1)}
           first(n) == cand(n) \ (seen \cup before(n))
           made(n) == [url : first(n), by : {fragments[n].by}]
<1>0. FragmentItems = UNION {made(n) : n \in DOMAIN fragments}
  BY DEF FragmentItems
<1> HIDE DEF cand
<1>1. \A n : first(n) \cap seen = {}
  OBVIOUS
<1>2. \A n : \A i \in made(n) :
        i.url \in first(n) /\ i = [url |-> i.url, by |-> fragments[n].by]
  OBVIOUS
<1>3. \A m, n \in Nat : m \in 1..(n - 1) => first(m) \cap first(n) = {}
  OBVIOUS
<1> HIDE DEF first, made
<1>4. \A i \in FragmentItems : \E n \in DOMAIN fragments : i \in made(n)
  BY <1>0
<1>5. Urls(FragmentItems) \cap seen = {}
  BY <1>1, <1>2, <1>4 DEF Urls
<1>6. ASSUME NEW i \in FragmentItems, NEW j \in FragmentItems, i.url = j.url PROVE i = j
  <2>1. PICK m \in DOMAIN fragments : i \in made(m)
    BY <1>4
  <2>2. PICK n \in DOMAIN fragments : j \in made(n)
    BY <1>4
  <2>3. m \in Nat /\ n \in Nat /\ (m \in 1..(n - 1) \/ n \in 1..(m - 1) \/ m = n)
    BY DEF FragTypes
  <2>4. i.url \in first(m) \cap first(n)
    BY <1>2, <1>6, <2>1, <2>2
  <2>5. m = n
    BY <1>3, <2>3, <2>4
  <2> QED
    BY <1>2, <1>6, <2>1, <2>2, <2>5
<1> QED
  BY <1>5, <1>6

(* The loop between two batches. *)
LEMMA LoopKeeps == ASSUME FragTypes, IInv, Loop PROVE IInv'
<1>0. /\ phase = "crawl" /\ DOMAIN task = {} /\ done' = done /\ Known' = Known
  BY EntriesKept DEF Loop, StopOnAbort, StartBatch, ResolveFragments, Fallback, Finish, Dry,
                    AtTop, LoopUnchanged, knowVars
<1>1. CASE StopOnAbort
  BY <1>0, <1>1, KeepsClaims DEF StopOnAbort, claimVars
<1>2. CASE StartBatch
  <2>1. DOMAIN task' = queue /\ queue' = {} /\ UNCHANGED <<seen, phase, fallbackChecked>>
    BY <1>2 DEF StartBatch
  <2>2. Jobs' = Jobs /\ Urls(Jobs)' = Urls(Jobs)
    BY <1>0, <2>1 DEF Jobs, Urls
  <2>3. ProbedMaps' = ProbedMaps /\ FallbackClaims' = FallbackClaims
    BY <1>0, <2>1 DEF ProbedMaps, FallbackClaims
  <2> QED
    BY <1>0, <2>1, <2>2, <2>3 DEF IInv, ClaimedOnce, ClaimsAccounted, AtWork
<1>3. CASE ResolveFragments
  <2>1. /\ queue = {} /\ queue' = FragmentItems /\ seen' = seen \cup Urls(FragmentItems)
        /\ UNCHANGED <<phase, fallbackChecked, task>>
    BY <1>3 DEF ResolveFragments, Urls
  <2> QED
    BY <1>0, <2>1, FragmentItemsFresh, QueuesClaims
<1>4. CASE Fallback
  <2> DEFINE targets == {[origin |-> base.origin, dir |-> <<>>, file |-> m] : m \in Manifests}
             dynamic == \E e \in entries : e.by # "HTMLScriptPlugin"
             tried == IF dynamic THEN {} ELSE targets \ seen
             fresh == {Rebase(t) : t \in tried} \ (seen \cup tried)
             items == [url : fresh, by : {"FallbackEmp"}]
  <2>1. /\ queue' = queue \cup items /\ seen' = seen \cup tried \cup fresh
        /\ fallbackChecked' /\ task' = task /\ phase' \in {"complete", "crawl"}
    BY <1>4 DEF Fallback, Enqueue
  <2>2. \A u \in tried : u.dir = <<>> /\ u.file \in Manifests
    OBVIOUS
  <2>3. fresh \cap seen = {}
    OBVIOUS
  <2>4. Urls(items) = fresh /\ \A i, j \in items : i.url = j.url => i = j
    <3> HIDE DEF fresh
    <3>1. \A u \in fresh : [url |-> u, by |-> "FallbackEmp"] \in items
      OBVIOUS
    <3>2. \A i \in items : i.url \in fresh /\ i = [url |-> i.url, by |-> "FallbackEmp"]
      OBVIOUS
    <3> HIDE DEF items
    <3> QED
      BY <3>1, <3>2 DEF Urls
  <2> HIDE DEF tried, fresh, items
  <2>5. tried \subseteq FallbackClaims'
    BY <2>1, <2>2 DEF FallbackClaims
  <2> QED
    BY <1>0, <2>1, <2>3, <2>4, <2>5, QueuesClaims
<1>5. CASE Finish
  BY <1>0, <1>5, KeepsClaims DEF Finish, claimVars
<1> QED
  BY <1>1, <1>2, <1>3, <1>4, <1>5 DEF Loop

LEMMA StepIInv == TypeOK /\ IInv /\ [Next]_vars => IInv'
<1> SUFFICES ASSUME TypeOK, IInv, [Next]_vars PROVE IInv'
  OBVIOUS
<1>1. CASE Abort
  BY <1>1, EntriesKept, KeepsClaims DEF Abort, claimVars, knowVars
<1>2. CASE UNCHANGED vars
  BY <1>2, EntriesKept, KeepsClaims DEF vars, claimVars, loopVars, knowVars
<1> QED
  BY <1>1, <1>2, PrimeKeeps, LoopKeeps, ProcessKeeps DEF Next, TypeOK

THEOREM Inductive == Spec => []IInv
  BY TypeCorrect, InitIInv, StepIInv, PTL DEF Spec

(* One item per URL, queued, in process or finished: no URL is fetched twice *)
(* by the loop, whatever order tasks, fragments and prefixes find it in.     *)
THEOREM EachClaimedOnce == Spec => []ClaimedOnce
  BY Inductive, PTL DEF IInv

(* Every URL marked as seen has its item, or is a sibling map or a manifest  *)
(* of the fallback: the only claims that can be lost are the fallback's.     *)
THEOREM ClaimsAreAccounted == Spec => []ClaimsAccounted
  BY Inductive, PTL DEF IInv
-----------------------------------------------------------------------------
(* What a step of a task does to the set of tasks and to the fragments.     *)
LEMMA ProcessShrinks ==
  ASSUME NEW i \in DOMAIN task, Process(i)
  PROVE  DOMAIN task' \subseteq DOMAIN task /\ phase' = phase
<1>1. ASSUME NEW t, NEW nxt, Continue(i, t, nxt) PROVE DOMAIN task' \subseteq DOMAIN task
  BY <1>1, ContinueDomain
<1>2. ASSUME Return(i) PROVE DOMAIN task' \subseteq DOMAIN task
  BY <1>2 DEF Return
<1> USE DEF TaskUnchanged, FoldUnchanged, loopVars
<1>3. CASE LoadCached(i) \/ DownloadOk(i)
  BY <1>1, <1>2, <1>3 DEF LoadCached, DownloadOk, Arrive
<1>4. CASE DownloadBusy(i) \/ DownloadFailed(i)
  BY <1>1, <1>2, <1>4 DEF DownloadBusy, DownloadFailed
<1>5. CASE Fold(i)
  BY <1>1, <1>5 DEF Fold, FoldPrefix, FoldPublic, FoldUrl, FoldClaimed, FoldAbsolute,
                    FoldBare, FoldPathNow, FoldPath, FoldPageSeen, FoldPage, FoldKeySeen,
                    FoldInline, FoldRequest
<1>6. CASE FlightOk(i) \/ FlightFailed(i)
  BY <1>1, <1>6 DEF FlightOk, FlightFailed
<1>7. CASE Folded(i) \/ Stored(i) \/ MapSettled(i)
  BY <1>1, <1>2, <1>7 DEF Folded, Stored, MapSettled
<1> QED
  BY <1>3, <1>4, <1>5, <1>6, <1>7 DEF Process

(* After an abort no further batch is taken.                                *)
THEOREM AbortedLoopStarts == Spec => AbortStartsNothing
<1>1. [Next]_vars => [aborted => DOMAIN task' \subseteq DOMAIN task]_vars
  <2> SUFFICES ASSUME Next, aborted PROVE DOMAIN task' \subseteq DOMAIN task
    BY DEF vars
  <2>1. CASE Prime
    BY <2>1 DEF Prime, PrimeSkip, PrimeOk, PrimeFailed, PrimeUnchanged
  <2>2. CASE Abort
    BY <2>2 DEF Abort
  <2>3. CASE Loop
    BY <2>3 DEF Loop, StopOnAbort, StartBatch, ResolveFragments, Fallback, Finish, Dry
  <2> QED
    BY <2>1, <2>2, <2>3, ProcessShrinks DEF Next
<1> QED
  BY <1>1, PTL DEF Spec, AbortStartsNothing

(* Fragments are matched when every URL claimed by then has been answered.  *)
THEOREM FragmentsWait == Spec => FragmentsWaitForQuiet
<1>1. IInv /\ [Next]_vars =>
        [fragments' = fragments \/ Len(fragments') > Len(fragments)
           \/ seen \subseteq Urls(done) \cup ProbedMaps \cup FallbackClaims]_vars
  <2> SUFFICES ASSUME IInv, Next,
                      ~(seen \subseteq Urls(done) \cup ProbedMaps \cup FallbackClaims)
               PROVE  fragments' = fragments \/ Len(fragments') > Len(fragments)
    BY DEF vars
  <2>1. CASE Prime
    BY <2>1 DEF Prime, PrimeSkip, PrimeOk, PrimeFailed, PrimeUnchanged, fragVars
  <2>2. CASE Abort
    BY <2>2 DEF Abort, fragVars
  <2>3. CASE StopOnAbort \/ StartBatch \/ Fallback \/ Finish
    BY <2>3 DEF StopOnAbort, StartBatch, Fallback, Finish
  <2>4. CASE ResolveFragments
    <3>1. queue = {} /\ DOMAIN task = {}
      BY <2>4 DEF ResolveFragments, AtTop
    <3>2. Jobs = done
      BY <3>1 DEF Jobs
    <3> QED
      BY <3>2 DEF IInv, ClaimsAccounted
  <2>5. ASSUME NEW i \in DOMAIN task, Process(i)
        PROVE  fragments' = fragments \/ Len(fragments') > Len(fragments)
    <3>1. CASE FoldPath(i)
      BY <3>1 DEF FoldPath
    <3> USE DEF fragVars, TaskUnchanged
    <3>2. CASE Fold(i) /\ ~FoldPath(i)
      BY <3>2 DEF Fold, FoldPrefix, FoldPublic, FoldUrl, FoldClaimed, FoldAbsolute,
                  FoldBare, FoldPathNow, FoldPageSeen, FoldPage, FoldKeySeen, FoldInline,
                  FoldRequest
    <3>3. CASE ~Fold(i)
      BY <2>5, <3>3 DEF Process, LoadCached, DownloadOk, DownloadBusy, DownloadFailed,
                        FlightOk, FlightFailed, Folded, Stored, MapSettled
    <3> QED
      BY <3>1, <3>2, <3>3
  <2> QED
    BY <2>1, <2>2, <2>3, <2>4, <2>5 DEF Next, Loop
<1> QED
  BY <1>1, Inductive, PTL DEF Spec, FragmentsWaitForQuiet
-----------------------------------------------------------------------------
Pending == Urls(queue \cup DOMAIN task)

(* Outcome, case by case. *)
LEMMA Outcomes ==
  /\ phase \in {"prime", "crawl"} => Outcome = "open"
  /\ phase = "complete" => Outcome = "complete"
  /\ phase \in {"stopped", "rejected"} => Outcome = "cut"
  BY DEF Outcome

(* New URLs are taken up when items are queued and nothing else happens.    *)
LEMMA QueuesTakesUp ==
  ASSUME IInv, IInv', queue \subseteq queue', DOMAIN task' = DOMAIN task, done' = done,
         Outcome = "open", Outcome' = "open"
  PROVE  List!TakeUp
<1>1. Pending \subseteq Pending' /\ Urls(done)' = Urls(done)
  BY DEF Pending, Urls
<1>2. Pending' \cap Urls(done) = {}
  BY DEF IInv, ClaimedOnce, Jobs, Pending, Urls
<1> QED
  BY <1>1, <1>2 DEF List!TakeUp, Pending

(* A task that returns finishes its URL. *)
LEMMA ReturnFinishes ==
  ASSUME IInv, NEW i \in DOMAIN task, Return(i), queue' = queue,
         Outcome = "open", Outcome' = "open"
  PROVE  List!FinishJob(i.url) /\ i.url \in Pending
<1>1. DOMAIN task' = DOMAIN task \ {i} /\ done' = done \cup {i}
  BY DEF Return
<1>2. Urls(done)' = Urls(done) \cup {i.url}
  BY <1>1 DEF Urls
<1>3. i \notin queue /\ \A j \in queue \cup DOMAIN task : j.url = i.url => j = i
  BY DEF IInv, ClaimedOnce, Jobs
<1>4. Pending' = Pending \ {i.url}
  BY <1>1, <1>3 DEF Pending, Urls
<1>5. i.url \in Pending
  BY DEF Pending, Urls
<1> QED
  BY <1>2, <1>4, <1>5 DEF List!FinishJob, Pending

(* A step of a task takes up URLs, finishes its own, or shows nothing.      *)
LEMMA ProcessLists ==
  ASSUME IInv, IInv', NEW i \in DOMAIN task, Process(i)
  PROVE  List!ListNext \/ UNCHANGED List!listVars
<1>0. phase = "crawl" /\ phase' = "crawl" /\ Outcome = "open" /\ Outcome' = "open"
  BY ProcessShrinks, Outcomes DEF IInv, AtWork, Outcome
<1>1. ASSUME queue \subseteq queue', NEW t, NEW nxt, Continue(i, t, nxt)
      PROVE  List!ListNext
  BY <1>0, <1>1, ContinueDomain, QueuesTakesUp DEF List!ListNext
<1>2. ASSUME queue' = queue, Return(i) PROVE List!ListNext
  BY <1>0, <1>2, ReturnFinishes DEF List!ListNext, Pending
<1> USE DEF TaskUnchanged, FoldUnchanged, claimVars
<1>3. CASE LoadCached(i) \/ DownloadOk(i)
  BY <1>1, <1>2, <1>3 DEF LoadCached, DownloadOk, Arrive
<1>4. CASE DownloadBusy(i) \/ DownloadFailed(i)
  BY <1>1, <1>2, <1>4 DEF DownloadBusy, DownloadFailed
<1>5. CASE Fold(i)
  <2>1. ASSUME NEW T, NEW by, Enqueue(seen, T, by) PROVE queue \subseteq queue'
    BY <2>1 DEF Enqueue
  <2>2. queue \subseteq queue' /\ \E t, nxt : Continue(i, t, nxt)
    BY <1>5, <2>1 DEF Fold, FoldPrefix, FoldPublic, FoldUrl, FoldClaimed, FoldAbsolute,
                      FoldBare, FoldPathNow, FoldPath, FoldPageSeen, FoldPage, FoldKeySeen,
                      FoldInline, FoldRequest
  <2> QED
    BY <1>1, <2>2
<1>6. CASE FlightOk(i) \/ FlightFailed(i)
  BY <1>1, <1>6 DEF FlightOk, FlightFailed
<1>7. CASE Folded(i) \/ Stored(i) \/ MapSettled(i)
  BY <1>1, <1>2, <1>7 DEF Folded, Stored, MapSettled
<1> QED
  BY <1>3, <1>4, <1>5, <1>6, <1>7 DEF Process

LEMMA LoopLists ==
  ASSUME IInv, IInv', Loop
  PROVE  List!ListNext \/ UNCHANGED List!listVars
<1>0. /\ phase = "crawl" /\ Outcome = "open" /\ DOMAIN task = {} /\ done' = done
      /\ Urls(done)' = Urls(done)
  BY Outcomes DEF Loop, StopOnAbort, StartBatch, ResolveFragments, Fallback, Finish, Dry,
                  AtTop, LoopUnchanged, Urls
<1>1. CASE StopOnAbort
  <2>1. Outcome' = "cut" /\ Pending' = Pending
    BY <1>1 DEF StopOnAbort, Outcome, Pending, Urls, claimVars
  <2> QED
    BY <1>0, <2>1 DEF List!ListNext, List!CutShort, Pending
<1>2. CASE StartBatch
  <2>1. Pending' = Pending /\ Outcome' = Outcome
    BY <1>0, <1>2 DEF StartBatch, Pending, Urls, Outcome
  <2> QED
    BY <1>0, <2>1 DEF List!listVars, Pending
<1>3. CASE ResolveFragments
  <2>1. queue \subseteq queue' /\ DOMAIN task' = DOMAIN task /\ Outcome' = "open"
    BY <1>0, <1>3 DEF ResolveFragments, Outcome
  <2> QED
    BY <1>0, <2>1, QueuesTakesUp DEF List!ListNext
<1>4. CASE Fallback
  <2>1. queue \subseteq queue' /\ task' = task
    BY <1>4 DEF Fallback, Enqueue
  <2>2. CASE phase' = "crawl"
    <3>1. Outcome' = "open"
      BY <2>2 DEF Outcome
    <3> QED
      BY <1>0, <2>1, <3>1, QueuesTakesUp DEF List!ListNext
  <2>3. CASE phase' = "complete"
    <3>1. queue = {} /\ Outcome' = "complete"
      BY <1>4, <2>3 DEF Fallback, Dry, Outcome
    <3>2. queue' = {}
      <4> DEFINE targets ==
                   {[origin |-> base.origin, dir |-> <<>>, file |-> m] : m \in Manifests}
                 dynamic == \E e \in entries : e.by # "HTMLScriptPlugin"
                 tried == IF dynamic THEN {} ELSE targets \ seen
      <4>1. /\ phase' = IF tried = {} THEN "complete" ELSE "crawl"
            /\ Enqueue(seen \cup tried, tried, "FallbackEmp")
        BY <1>4 DEF Fallback
      <4> HIDE DEF tried
      <4>2. tried = {}
        BY <2>3, <4>1
      <4> QED
        BY <3>1, <4>1, <4>2 DEF Enqueue
    <3>3. Pending = {} /\ Pending' = Pending
      BY <1>0, <2>1, <3>1, <3>2 DEF Pending, Urls
    <3> QED
      BY <1>0, <3>1, <3>3 DEF List!ListNext, List!Complete, Pending
  <2> QED
    BY <1>4, <2>2, <2>3 DEF Fallback
<1>5. CASE Finish
  <2>1. Outcome' = "complete" /\ Pending = {} /\ Pending' = Pending
    BY <1>0, <1>5 DEF Finish, Dry, Outcome, Pending, Urls, claimVars
  <2> QED
    BY <1>0, <2>1 DEF List!ListNext, List!Complete, Pending
<1> QED
  BY <1>1, <1>2, <1>3, <1>4, <1>5 DEF Loop

LEMMA StepLists == IInv /\ IInv' /\ [Next]_vars => [List!ListNext]_(List!listVars)
<1> SUFFICES ASSUME IInv, IInv', [Next]_vars
             PROVE  List!ListNext \/ UNCHANGED List!listVars
  OBVIOUS
<1>1. CASE Prime
  <2>0. /\ phase = "prime" /\ Outcome = "open" /\ queue = {} /\ task' = task /\ done' = done
        /\ Urls(done)' = Urls(done)
    BY <1>1, Outcomes DEF Prime, PrimeSkip, PrimeOk, PrimeFailed, PrimeUnchanged, IInv,
                          AtWork, Urls
  <2>1. CASE phase' = "crawl"
    BY <2>0, <2>1, QueuesTakesUp DEF List!ListNext, Outcome
  <2>2. CASE PrimeFailed
    <3>1. Outcome' = "cut" /\ Pending' = Pending
      BY <2>0, <2>2 DEF PrimeFailed, Outcome, Pending, Urls, claimVars
    <3> QED
      BY <2>0, <3>1 DEF List!ListNext, List!CutShort, Pending
  <2> QED
    BY <1>1, <2>1, <2>2 DEF Prime, PrimeSkip, PrimeOk
<1>2. CASE Abort
  BY <1>2 DEF Abort, List!listVars, Urls, Outcome, claimVars
<1>3. CASE UNCHANGED vars
  BY <1>3 DEF vars, List!listVars, Urls, Outcome, claimVars, loopVars
<1> QED
  BY <1>1, <1>2, <1>3, ProcessLists, LoopLists DEF Next

(* The loop is a worklist: every URL is taken up once and finished once, a  *)
(* complete scan leaves none, and only an abort or an entry page that cannot *)
(* be had cuts it short.                                                    *)
THEOREM IsWorklist == Spec => ImplementsWorklist
<1>1. Init => List!ListInit
  BY DEF Init, List!ListInit, Urls, Outcome
<1> QED
  BY <1>1, StepLists, Inductive, PTL DEF Spec, ImplementsWorklist, List!ListSpec
-----------------------------------------------------------------------------
\* No plugin names a page by the address it has on a developer's machine.
NoDevPages == \A f \in Finding : f.tag = "page" => f.url.origin \notin Loopback

SlotsInv ==
  /\ Len(htmlEntries) <= MaxPivots
  /\ \A n \in DOMAIN htmlEntries :
       htmlEntries[n].origin \notin Loopback /\ htmlEntries[n] \in Urls(Jobs)
  /\ \A m, n \in DOMAIN htmlEntries : htmlEntries[m] = htmlEntries[n] => m = n

(* An item never disappears. *)
LEMMA JobsGrow == ASSUME IInv, [Next]_vars PROVE Urls(Jobs) \subseteq Urls(Jobs)'
<1>1. CASE Prime
  BY <1>1 DEF Prime, PrimeSkip, PrimeOk, PrimeFailed, PrimeUnchanged, IInv, AtWork, Jobs, Urls
<1>2. CASE Abort \/ UNCHANGED vars
  BY <1>2 DEF Abort, vars, claimVars, Jobs, Urls
<1>3. CASE Loop
  BY <1>3 DEF Loop, StopOnAbort, StartBatch, ResolveFragments, Fallback, Enqueue, Finish, Dry,
              AtTop, LoopUnchanged, claimVars, Jobs, Urls
<1>4. ASSUME NEW i \in DOMAIN task, Process(i) PROVE Urls(Jobs) \subseteq Urls(Jobs)'
  <2> USE DEF TaskUnchanged, FoldUnchanged, claimVars
  <2>1. ASSUME queue \subseteq queue', NEW t, NEW nxt, Continue(i, t, nxt)
        PROVE  Urls(Jobs) \subseteq Urls(Jobs)'
    BY <2>1, ContinueDomain DEF Jobs, Urls
  <2>2. ASSUME queue' = queue, Return(i) PROVE Urls(Jobs) \subseteq Urls(Jobs)'
    BY <2>2 DEF Return, Jobs, Urls
  <2>3. CASE LoadCached(i) \/ DownloadOk(i)
    BY <2>1, <2>2, <2>3 DEF LoadCached, DownloadOk, Arrive
  <2>4. CASE DownloadBusy(i) \/ DownloadFailed(i)
    BY <2>1, <2>2, <2>4 DEF DownloadBusy, DownloadFailed
  <2>5. CASE Fold(i)
    <3>1. ASSUME NEW T, NEW by, Enqueue(seen, T, by) PROVE queue \subseteq queue'
      BY <3>1 DEF Enqueue
    <3>2. queue \subseteq queue' /\ \E t, nxt : Continue(i, t, nxt)
      BY <2>5, <3>1 DEF Fold, FoldPrefix, FoldPublic, FoldUrl, FoldClaimed, FoldAbsolute,
                        FoldBare, FoldPathNow, FoldPath, FoldPageSeen, FoldPage, FoldKeySeen,
                        FoldInline, FoldRequest
    <3> QED
      BY <2>1, <3>2
  <2>6. CASE FlightOk(i) \/ FlightFailed(i)
    BY <2>1, <2>6 DEF FlightOk, FlightFailed
  <2>7. CASE Folded(i) \/ Stored(i) \/ MapSettled(i)
    BY <2>1, <2>2, <2>7 DEF Folded, Stored, MapSettled
  <2> QED
    BY <1>4, <2>3, <2>4, <2>5, <2>6, <2>7 DEF Process
<1> QED
  BY <1>1, <1>2, <1>3, <1>4 DEF Next

(* Only a page that was not seen takes a slot. *)
LEMMA EntriesStep ==
  ASSUME [Next]_vars
  PROVE  htmlEntries' = htmlEntries \/ \E i \in DOMAIN task : FoldPage(i)
<1>1. CASE Prime \/ Abort \/ Loop \/ UNCHANGED vars
  BY <1>1 DEF Prime, PrimeSkip, PrimeOk, PrimeFailed, PrimeUnchanged, Abort, Loop, StopOnAbort,
              StartBatch, ResolveFragments, Fallback, Finish, LoopUnchanged, vars, knowVars
<1>2. ASSUME NEW i \in DOMAIN task, Process(i), ~FoldPage(i) PROVE htmlEntries' = htmlEntries
  <2>1. CASE Fold(i)
    BY <1>2, <2>1 DEF Fold, FoldPrefix, FoldPublic, FoldUrl, FoldClaimed, FoldAbsolute,
                      FoldBare, FoldPathNow, FoldPath, FoldPageSeen, FoldKeySeen, FoldInline,
                      FoldRequest
  <2>2. CASE ~Fold(i)
    BY <1>2, <2>2 DEF Process, LoadCached, DownloadOk, DownloadBusy, DownloadFailed,
                      FlightOk, FlightFailed, Folded, Stored, MapSettled, TaskUnchanged
  <2> QED
    BY <2>1, <2>2
<1> QED
  BY <1>1, <1>2 DEF Next

LEMMA SlotsStep ==
  ASSUME NoDevPages, TypeOK, IInv, SlotsInv, [Next]_vars
  PROVE  SlotsInv'
<1>1. CASE htmlEntries' = htmlEntries
  BY <1>1, JobsGrow DEF SlotsInv
<1>2. ASSUME NEW i \in DOMAIN task, FoldPage(i), htmlEntries' # htmlEntries PROVE SlotsInv'
  <2> DEFINE f == Finding1(i)
  <2>1. /\ f.tag = "page" /\ f.url \notin seen /\ task[i].todo # <<>>
        /\ Len(htmlEntries) < MaxPivots /\ htmlEntries' = Append(htmlEntries, f.url)
        /\ Enqueue(seen, {f.url}, f.by)
    BY <1>2 DEF FoldPage, Folding
  <2>2. f \in Finding /\ f.url \in Url /\ f.url.origin \notin Loopback
    <3>1. f \in Finding
      BY <2>1, FindingTypes DEF TypeOK
    <3> QED
      BY <2>1, <3>1, FindingAssumption DEF FindingAssumption, NoDevPages
  <2>3. f.url \in Urls(Jobs)' /\ f.url \notin Urls(Jobs)
    <3>1. Rebase(f.url) = f.url
      BY <2>2 DEF Rebase, RebaseTo
    <3>2. queue' = queue \cup [url : {f.url}, by : {f.by}]
      <4>1. {Rebase(t) : t \in {f.url}} \ seen = {f.url}
        BY <2>1, <3>1
      <4> QED
        BY <2>1, <4>1 DEF Enqueue
    <3>3. [url |-> f.url, by |-> f.by] \in queue'
      BY <3>2
    <3>4. f.url \in Urls(queue')
      BY <3>3 DEF Urls
    <3> QED
      BY <2>1, <3>4 DEF Jobs, Urls, IInv
  <2> HIDE DEF f
  <2>4. htmlEntries \in Seq(Url) /\ MaxPivots \in Nat
    BY DiscoveryAssumption DEF TypeOK, KnowTypes, DiscoveryAssumption
  <2>5. /\ Len(htmlEntries') = Len(htmlEntries) + 1
        /\ DOMAIN htmlEntries' = 1..(Len(htmlEntries) + 1)
        /\ htmlEntries'[Len(htmlEntries) + 1] = f.url
        /\ \A n \in DOMAIN htmlEntries : htmlEntries'[n] = htmlEntries[n]
        /\ DOMAIN htmlEntries = 1..Len(htmlEntries)
    BY <2>1, <2>2, <2>4
  <2>6. \A n \in DOMAIN htmlEntries' :
          htmlEntries'[n].origin \notin Loopback /\ htmlEntries'[n] \in Urls(Jobs)'
    BY <2>2, <2>3, <2>4, <2>5, JobsGrow DEF SlotsInv
  <2>7. \A n \in DOMAIN htmlEntries : htmlEntries[n] # f.url
    BY <2>3 DEF SlotsInv
  <2>8. \A m, n \in DOMAIN htmlEntries' : htmlEntries'[m] = htmlEntries'[n] => m = n
    BY <2>4, <2>5, <2>7 DEF SlotsInv
  <2>9. Len(htmlEntries') <= MaxPivots
    BY <2>1, <2>4, <2>5
  <2> QED
    BY <2>6, <2>8, <2>9 DEF SlotsInv
<1> QED
  BY <1>1, <1>2, EntriesStep

(* The page budget pays for distinct pages that are entered, as long as no   *)
(* plugin names one by a development address: it is looked up before it is   *)
(* rebased, and two sightings of one page then take two slots.               *)
THEOREM SlotsAreDistinct == ASSUME NoDevPages PROVE Spec => []PivotSlotsDistinct
<1>1. Init => SlotsInv
  BY DiscoveryAssumption DEF Init, SlotsInv, DiscoveryAssumption
<1>2. TypeOK /\ IInv /\ SlotsInv /\ [Next]_vars => SlotsInv'
  BY SlotsStep
<1>3. SlotsInv => PivotSlotsDistinct
  BY DEF SlotsInv, PivotSlotsDistinct, Rebase, RebaseTo
<1> QED
  BY <1>1, <1>2, <1>3, TypeCorrect, Inductive, PTL DEF Spec

-----------------------------------------------------------------------------
(* What is listed as a script was served as one.                           *)

ServedAt(u, r) == u \in {r, site[r].final}
Script(r) == site[r].kind = "js"
EmptyPage(r) == site[r].kind = "html" /\ site[r].empty

\* A script in process was served as one where it counts as being, and the
\* redirect that moved the anchor is one the site makes.
ServedInv ==
  /\ \A r \in redirected : r.from \in DOMAIN site /\ site[r.from].final = r.to /\ r.to # r.from
  /\ \A i \in DOMAIN task : task[i].js => \E r \in DOMAIN site : ServedAt(task[i].eff, r) /\ Script(r)
  /\ \A i \in DOMAIN task : task[i].pc = "store" => task[i].js
  /\ OnlyScriptsReported

(* A request for u counts as one for u or for where u leads. *)
LEMMA EffectiveServed ==
  ASSUME ServedInv, NEW u \in DOMAIN site
  PROVE  ServedAt(EffectiveUrl(u, site[u].final), u)
<1>1. CASE site[u].final # u
  BY <1>1 DEF EffectiveUrl, ServedAt
<1>2. CASE site[u].final = u
  <2>1. ~ \E r \in redirected : r.from = u
    BY <1>2 DEF ServedInv
  <2> QED
    BY <1>2, <2>1 DEF EffectiveUrl, ServedAt
<1> QED
  BY <1>1, <1>2

LEMMA RecordJsKnown ==
  ASSUME NEW u, NEW by, RecordJs(u, by)
  PROVE  Known' \subseteq Known \cup {u}
<1>1. [url |-> u, by |-> by].url = u
  OBVIOUS
<1> QED
  BY <1>1 DEF RecordJs, Known

LEMMA ReportedStay ==
  ASSUME OnlyScriptsReported, site' = site, NEW u, Known' \subseteq Known \cup {u},
         u \in Known' => \E r \in DOMAIN site : ServedAt(u, r) /\ (Script(r) \/ EmptyPage(r))
  PROVE  OnlyScriptsReported'
  BY DEF OnlyScriptsReported, ServedAt, Script, EmptyPage

(* A task goes on with what it knew of its answer, or ends. *)
LEMMA ServedContinue ==
  ASSUME ServedInv, NEW i \in DOMAIN task, NEW t, NEW nxt, Continue(i, t, nxt),
         UNCHANGED <<site, redirected, entries>>,
         t.js => \E r \in DOMAIN site : ServedAt(t.eff, r) /\ Script(r),
         t.pc = "store" => t.js
  PROVE  ServedInv'
<1>1. task' = [task EXCEPT ![i] = t]
  BY DEF Continue
<1>2. OnlyScriptsReported'
  BY DEF ServedInv, OnlyScriptsReported, Known
<1> QED
  BY <1>1, <1>2 DEF ServedInv, ServedAt, Script

LEMMA ServedReturn ==
  ASSUME ServedInv, NEW i \in DOMAIN task, Return(i), UNCHANGED <<site, redirected>>,
         OnlyScriptsReported'
  PROVE  ServedInv'
<1>1. DOMAIN task' = DOMAIN task \ {i} /\ \A j \in DOMAIN task' : task'[j] = task[j]
  BY DEF Return
<1> QED
  BY <1>1 DEF ServedInv, ServedAt, Script

(* The body served at u arrives and counts as eff. *)
LEMMA ServedArrive ==
  ASSUME TypeOK, ServedInv, NEW i \in DOMAIN task, NEW u \in DOMAIN site, NEW eff,
         ServedAt(eff, u), NEW kind, kind # site[u].kind => kind = "html" /\ ~site[u].empty,
         Arrive(i, u, kind, eff), UNCHANGED site,
         \A r \in redirected' : r.from \in DOMAIN site /\ site[r.from].final = r.to /\ r.to # r.from,
         task[i].pc # "store"
  PROVE  ServedInv'
<1> DEFINE t == [task[i] EXCEPT !.eff = eff, !.js = (kind = "js")]
           filled == [t EXCEPT !.pc = "fold", !.todo = site[u].finds,
                               !.announced = site[u].announcesMap]
           map == [t EXCEPT !.pc = "map"]
<1>1. task[i] \in Task
  BY DEF TypeOK, TaskTypes
<1>2. /\ t.eff = eff /\ t.js = (kind = "js")
      /\ filled.eff = eff /\ filled.js = (kind = "js") /\ filled.pc = "fold"
      /\ map.eff = eff /\ map.js = (kind = "js") /\ map.pc = "map"
  BY <1>1 DEF Task
<1>3. kind = "js" => Script(u)
  BY DEF Script
<1>4. ASSUME NEW s, s.eff = eff, s.js = (kind = "js"), s.pc # "store", Continue(i, s, Nobody),
             UNCHANGED entries
      PROVE  ServedInv'
  <2>1. task' = [task EXCEPT ![i] = s]
    BY <1>4 DEF Continue
  <2>2. OnlyScriptsReported'
    BY <1>4 DEF ServedInv, OnlyScriptsReported, Known
  <2>3. ASSUME NEW j \in DOMAIN task', task'[j].js
        PROVE  \E r \in DOMAIN site : ServedAt(task'[j].eff, r) /\ Script(r)
    BY <1>3, <1>4, <2>1, <2>3 DEF ServedInv
  <2> QED
    BY <1>4, <2>1, <2>2, <2>3 DEF ServedInv, ServedAt, Script
<1>5. CASE Continue(i, filled, Nobody) /\ UNCHANGED entries
  BY <1>2, <1>4, <1>5
<1>6. CASE Continue(i, map, Nobody) /\ UNCHANGED entries
  BY <1>2, <1>4, <1>6
<1>7. CASE /\ kind = "html"
           /\ IF site[u].empty THEN RecordJs(eff, t.by) ELSE UNCHANGED entries
           /\ Return(i)
  <2>1. Known' \subseteq Known \/ (Known' \subseteq Known \cup {eff} /\ EmptyPage(u))
    BY <1>7, RecordJsKnown, EntriesKept DEF EmptyPage
  <2>2. OnlyScriptsReported'
    BY <2>1, ReportedStay DEF ServedInv, OnlyScriptsReported
  <2>3. DOMAIN task' = DOMAIN task \ {i} /\ \A j \in DOMAIN task' : task'[j] = task[j]
    BY <1>7 DEF Return
  <2> QED
    BY <2>2, <2>3 DEF ServedInv, ServedAt, Script
<1> HIDE DEF t, filled, map
<1>8. QED
  BY <1>5, <1>6, <1>7 DEF Arrive, t, filled, map

(* Folding findings concerns no answer. *)
LEMMA FoldServed ==
  ASSUME TypeOK, ServedInv, NEW i \in DOMAIN task, Fold(i)
  PROVE  ServedInv'
<1>1. /\ FoldUnchanged
      /\ \/ Continue(i, Rest(i), TurnAfter(i))
         \/ Continue(i, [task[i] EXCEPT !.todo = Finding1(i).finds \o Tail(@)], Nobody)
         \/ Continue(i, [task[i] EXCEPT !.pc = "flight"], Nobody)
  BY DEF Fold, FoldPrefix, FoldPublic, FoldUrl, FoldClaimed, FoldAbsolute, FoldBare,
         FoldPathNow, FoldPath, FoldPageSeen, FoldPage, FoldKeySeen, FoldInline, FoldRequest
<1>2. UNCHANGED <<site, redirected, entries>>
  BY <1>1 DEF FoldUnchanged, scanVars, baseVars
<1>3. task[i] \in Task
  BY DEF TypeOK, TaskTypes
<1>4. ASSUME NEW t, NEW nxt, Continue(i, t, nxt), t.js = task[i].js, t.eff = task[i].eff,
             t.pc = task[i].pc \/ t.pc # "store"
      PROVE  ServedInv'
  BY <1>2, <1>4, ServedContinue DEF ServedInv
<1>5. \A s : /\ [task[i] EXCEPT !.todo = s].js = task[i].js
             /\ [task[i] EXCEPT !.todo = s].eff = task[i].eff
             /\ [task[i] EXCEPT !.todo = s].pc = task[i].pc
  BY <1>3 DEF Task
<1>6. /\ [task[i] EXCEPT !.pc = "flight"].js = task[i].js
      /\ [task[i] EXCEPT !.pc = "flight"].eff = task[i].eff
      /\ [task[i] EXCEPT !.pc = "flight"].pc = "flight"
  BY <1>3 DEF Task
<1> QED
  BY <1>1, <1>4, <1>5, <1>6 DEF Rest

LEMMA ProcessServed ==
  ASSUME TypeOK, Awaited, ServedInv, NEW i \in DOMAIN task, Process(i)
  PROVE  ServedInv'
<1>0. task[i] \in Task
  BY DEF TypeOK, TaskTypes
<1>1. ASSUME NEW t, NEW nxt, Continue(i, t, nxt), t.js = task[i].js, t.eff = task[i].eff,
             t.pc = "store" => task[i].js, UNCHANGED <<site, redirected, entries>>
      PROVE  ServedInv'
  BY <1>1, ServedContinue DEF ServedInv
<1>2. \A pc : /\ [task[i] EXCEPT !.pc = pc].js = task[i].js
              /\ [task[i] EXCEPT !.pc = pc].eff = task[i].eff
              /\ [task[i] EXCEPT !.pc = pc].pc = pc
  BY <1>0 DEF Task
<1>3. ASSUME Return(i), UNCHANGED <<site, redirected, entries>> PROVE ServedInv'
  BY <1>3, ServedReturn DEF ServedInv, OnlyScriptsReported, Known
<1> USE DEF TaskUnchanged, scanVars, baseVars
<1>4. CASE LoadCached(i)
  <2>1. /\ Start \in DOMAIN site /\ ~site[Start].empty /\ UNCHANGED <<site, redirected>>
        /\ Arrive(i, Start, "html", EffectiveUrl(task[i].url, task[i].url))
        /\ task[i].pc = "load"
    BY <1>4 DEF LoadCached, CacheHit
  <2> DEFINE eff == EffectiveUrl(task[i].url, task[i].url)
             t == [task[i] EXCEPT !.eff = eff, !.js = ("html" = "js")]
             filled == [t EXCEPT !.pc = "fold", !.todo = site[Start].finds,
                                 !.announced = site[Start].announcesMap]
  <2>2. /\ filled.js = FALSE /\ filled.pc = "fold"
        /\ [t EXCEPT !.pc = "map"].js = FALSE /\ [t EXCEPT !.pc = "map"].pc = "map"
    BY <1>0 DEF Task
  <2>3. \/ Return(i) /\ UNCHANGED entries
        \/ Continue(i, filled, Nobody) /\ UNCHANGED entries
        \/ Continue(i, [t EXCEPT !.pc = "map"], Nobody) /\ UNCHANGED entries
    BY <2>1 DEF Arrive
  <2> HIDE DEF t, filled
  <2>4. ASSUME NEW s, s.js = FALSE, s.pc # "store", Continue(i, s, Nobody), UNCHANGED entries
        PROVE  ServedInv'
    BY <2>1, <2>4, ServedContinue
  <2> QED
    BY <1>3, <2>1, <2>2, <2>3, <2>4
<1>5. CASE DownloadOk(i)
  <2> DEFINE u == task[i].url
  <2>1. /\ u \in DOMAIN site /\ HandleRedirect(u, site[u].final) /\ site' = site
        /\ Arrive(i, u, site[u].kind, EffectiveUrl(u, site[u].final)) /\ task[i].pc # "store"
    BY <1>5, AnsweredPage DEF DownloadOk, Requesting
  <2>2. \A r \in redirected' : r.from \in DOMAIN site /\ site[r.from].final = r.to /\ r.to # r.from
    BY <2>1 DEF HandleRedirect, ServedInv
  <2> QED
    BY <2>1, <2>2, EffectiveServed, ServedArrive
<1>6. CASE DownloadBusy(i) \/ DownloadFailed(i)
  BY <1>1, <1>2, <1>3, <1>6 DEF DownloadBusy, DownloadFailed
<1>7. CASE Fold(i)
  BY <1>7, FoldServed
<1>8. CASE FlightOk(i)
  <2>1. \A s : /\ [task[i] EXCEPT !.pc = "fold", !.todo = s].js = task[i].js
               /\ [task[i] EXCEPT !.pc = "fold", !.todo = s].eff = task[i].eff
               /\ [task[i] EXCEPT !.pc = "fold", !.todo = s].pc = "fold"
    BY <1>0 DEF Task
  <2> QED
    BY <1>1, <1>8, <2>1 DEF FlightOk
<1>9. CASE FlightFailed(i)
  <2>1. /\ [Rest(i) EXCEPT !.pc = "fold"].js = task[i].js
        /\ [Rest(i) EXCEPT !.pc = "fold"].eff = task[i].eff
        /\ [Rest(i) EXCEPT !.pc = "fold"].pc = "fold"
    BY <1>0 DEF Task, Rest
  <2> QED
    BY <1>1, <1>9, <2>1 DEF FlightFailed, FoldUnchanged
<1>10. CASE Folded(i)
  BY <1>1, <1>2, <1>3, <1>10 DEF Folded
<1>11. CASE Stored(i)
  <2> DEFINE eff == task[i].eff
  <2>1. /\ task[i].pc = "store" /\ RecordJs(eff, task[i].by) /\ UNCHANGED <<site, redirected>>
        /\ Return(i) \/ Continue(i, [task[i] EXCEPT !.pc = "map"], Nobody)
    BY <1>11 DEF Stored
  <2>2. PICK r \in DOMAIN site : ServedAt(eff, r) /\ Script(r)
    BY <2>1 DEF ServedInv
  <2>3. OnlyScriptsReported'
    BY <2>1, <2>2, RecordJsKnown, ReportedStay DEF ServedInv
  <2>4. CASE Return(i)
    BY <2>1, <2>3, <2>4, ServedReturn
  <2>5. CASE Continue(i, [task[i] EXCEPT !.pc = "map"], Nobody)
    <3>1. task' = [task EXCEPT ![i] = [task[i] EXCEPT !.pc = "map"]]
      BY <2>5 DEF Continue
    <3> QED
      BY <1>2, <2>1, <2>3, <3>1 DEF ServedInv, ServedAt, Script
  <2> QED
    BY <2>1, <2>4, <2>5
<1>12. CASE MapSettled(i)
  BY <1>3, <1>12 DEF MapSettled
<1> QED
  BY <1>4, <1>5, <1>6, <1>7, <1>8, <1>9, <1>10, <1>11, <1>12 DEF Process

LEMMA ServedStep == TypeOK /\ Awaited /\ IInv /\ ServedInv /\ [Next]_vars => ServedInv'
<1> SUFFICES ASSUME TypeOK, Awaited, IInv, ServedInv, [Next]_vars PROVE ServedInv'
  OBVIOUS
<1> USE DEF scanVars, baseVars, knowVars
<1>1. ASSUME UNCHANGED <<site, redirected, task, entries>> PROVE ServedInv'
  BY <1>1 DEF ServedInv, ServedAt, Script, OnlyScriptsReported, Known
<1>2. CASE PrimeSkip \/ PrimeFailed
  BY <1>1, <1>2 DEF PrimeSkip, PrimeFailed, PrimeUnchanged
<1>3. CASE PrimeOk
  <2>1. /\ Start \in DOMAIN site /\ HandleRedirect(Start, site[Start].final)
        /\ UNCHANGED <<site, task, entries>>
    BY <1>3, AnsweredPage DEF PrimeOk, PrimeUnchanged
  <2> QED
    BY <2>1 DEF HandleRedirect, ServedInv, ServedAt, Script, OnlyScriptsReported, Known
<1>4. CASE Abort \/ UNCHANGED vars
  BY <1>1, <1>4 DEF Abort, vars
<1>5. CASE StartBatch
  <2>1. task' = [i \in queue |-> NewTask(i)] /\ UNCHANGED <<site, redirected, entries>>
    BY <1>5 DEF StartBatch, LoopUnchanged
  <2>2. \A i \in DOMAIN task' : task'[i].js = FALSE /\ task'[i].pc = "load"
    BY <2>1 DEF NewTask
  <2> QED
    BY <2>1, <2>2 DEF ServedInv, ServedAt, Script, OnlyScriptsReported, Known
<1>6. CASE StopOnAbort \/ ResolveFragments \/ Fallback \/ Finish
  BY <1>1, <1>6 DEF StopOnAbort, ResolveFragments, Fallback, Finish, LoopUnchanged
<1> QED
  BY <1>2, <1>3, <1>4, <1>5, <1>6, ProcessServed DEF Next, Prime, Loop

(* What the scan lists as a script was served as one, or with an empty body, *)
(* there or at an address that leads there: no block page answered for a .js *)
(* address is ever listed, whatever redirects, retries and a moved anchor do *)
(* to the address it counts under.                                           *)
THEOREM OnlyScriptsListed == Spec => []OnlyScriptsReported
<1>1. Init => ServedInv
  BY DEF Init, ServedInv, OnlyScriptsReported, Known
<1>2. Spec => [](TypeOK /\ Awaited)
  BY InitTypes, StepTypes, PTL DEF Spec
<1>3. ServedInv => OnlyScriptsReported
  BY DEF ServedInv
<1> QED
  BY <1>1, <1>2, <1>3, ServedStep, Inductive, PTL DEF Spec

-----------------------------------------------------------------------------
(* The anchor moves before the first finding is folded, and never again.   *)

\* No request for the base is redirected any more.
Settled == base \in DOMAIN site => site[base].final = base

\* Nothing but the start URL has been asked for.
Untouched ==
  /\ base = Start /\ analysed = {} /\ keys = {} /\ fragments = <<>>
  /\ phase \in {"prime", "rejected"} \/ storing # "full"
  /\ \A i \in queue : i.url = Start
  /\ \A i \in DOMAIN task : task[i].url = Start /\ task[i].pc \in {"load", "retry"}

Anchored == Settled \/ Untouched

LEMMA RedirectEnds ==
  ASSUME ScanTypes, NEW u \in DOMAIN site, site[u].final \in DOMAIN site
  PROVE  site[site[u].final].final = site[u].final
  BY RedirectAssumption DEF ScanTypes, RedirectAssumption

(* Only a redirect of the base moves it, and to where no further one leads. *)
LEMMA BaseSteps ==
  ASSUME TypeOK, [Next]_vars
  PROVE  /\ site' = site
         /\ base' = base \/ (base \in DOMAIN site /\ base' = site[base].final /\ Settled')
<1> USE DEF scanVars, baseVars, TaskUnchanged, FoldUnchanged
<1>1. ASSUME NEW u, "ok" \in Answers(u), HandleRedirect(u, site[u].final), UNCHANGED site
      PROVE  base' = base \/ (base \in DOMAIN site /\ base' = site[base].final /\ Settled')
  <2>1. u \in DOMAIN site
    BY <1>1, AnsweredPage
  <2> QED
    BY <1>1, <2>1, RedirectEnds DEF HandleRedirect, Settled, TypeOK
<1>2. CASE Prime
  BY <1>1, <1>2 DEF Prime, PrimeSkip, PrimeOk, PrimeFailed, PrimeUnchanged
<1>3. CASE Abort \/ Loop \/ UNCHANGED vars
  BY <1>3 DEF Abort, Loop, StopOnAbort, StartBatch, ResolveFragments, Fallback, Finish,
              LoopUnchanged, vars
<1>4. ASSUME NEW i \in DOMAIN task, Process(i)
      PROVE  /\ site' = site
             /\ base' = base \/ (base \in DOMAIN site /\ base' = site[base].final /\ Settled')
  <2>1. CASE DownloadOk(i)
    BY <1>1, <2>1 DEF DownloadOk
  <2>2. CASE Fold(i)
    BY <2>2 DEF Fold, FoldPrefix, FoldPublic, FoldUrl, FoldClaimed, FoldAbsolute, FoldBare,
                FoldPathNow, FoldPath, FoldPageSeen, FoldPage, FoldKeySeen, FoldInline,
                FoldRequest
  <2> QED
    BY <1>4, <2>1, <2>2 DEF Process, LoadCached, DownloadBusy, DownloadFailed, FlightOk,
                            FlightFailed, Folded, Stored, MapSettled
<1> QED
  BY <1>2, <1>3, <1>4 DEF Next

LEMMA SettledStays ==
  ASSUME TypeOK, Settled, [Next]_vars
  PROVE  base' = base /\ Settled' /\ site' = site
  BY BaseSteps DEF Settled

(* The fallback queues nothing: what it claims cannot be claimed again.     *)
LEMMA FallbackIdle ==
  ASSUME TypeOK, Fallback
  PROVE  UNCHANGED <<queue, fragments, task>>
<1> DEFINE targets == {[origin |-> base.origin, dir |-> <<>>, file |-> m] : m \in Manifests}
           dynamic == \E e \in entries : e.by # "HTMLScriptPlugin"
           tried == IF dynamic THEN {} ELSE targets \ seen
<1>1. Enqueue(seen \cup tried, tried, "FallbackEmp") /\ UNCHANGED <<fragments, task>>
  BY DEF Fallback
<1>2. \A u \in targets : Rebase(u) = u
  BY DEF Rebase, RebaseTo
<1>3. tried \subseteq targets
  OBVIOUS
<1> HIDE DEF tried, targets
<1>4. {Rebase(t) : t \in tried} \ (seen \cup tried) = {}
  BY <1>2, <1>3
<1> QED
  BY <1>1, <1>4 DEF Enqueue

LEMMA AnchoredStep ==
  ASSUME TypeOK, IInv, Anchored, [Next]_vars
  PROVE  Anchored'
<1> USE DEF scanVars, loopVars, baseVars, claimVars, fragVars, TaskUnchanged
<1>1. SUFFICES ASSUME Untouched, ~Settled, ~Settled' PROVE Untouched'
  BY SettledStays DEF Anchored
<1>2. base' = base
  BY <1>1, BaseSteps
<1>3. CASE Prime
  <2>1. phase = "prime" /\ DOMAIN task = {} /\ seen = {} /\ queue = {}
    BY <1>3 DEF Prime, PrimeSkip, PrimeOk, PrimeFailed, IInv, AtWork
  <2>2. CASE PrimeSkip
    <3>1. Rebase(Start) = Start
      BY <1>1, StartType DEF Rebase, RebaseTo, Untouched, Url
    <3>2. \A i \in queue' : i.url = Start
      BY <2>1, <2>2, <3>1 DEF PrimeSkip, Enqueue
    <3> QED
      BY <1>1, <1>2, <2>1, <2>2, <3>2 DEF PrimeSkip, PrimeUnchanged, Untouched
  <2>3. CASE PrimeOk
    <3>1. HandleRedirect(Start, site[Start].final) /\ site' = site /\ Start \in DOMAIN site
      BY <2>3, AnsweredPage DEF PrimeOk, PrimeUnchanged
    <3> QED
      BY <1>1, <1>2, <3>1 DEF HandleRedirect, Untouched, Settled
  <2>4. CASE PrimeFailed
    BY <1>1, <1>2, <2>1, <2>4 DEF PrimeFailed, PrimeUnchanged, Untouched
  <2> QED
    BY <1>3, <2>2, <2>3, <2>4 DEF Prime
<1>4. CASE Abort \/ UNCHANGED vars
  BY <1>1, <1>4 DEF Abort, vars, Untouched
<1>5. CASE StopOnAbort \/ Finish
  BY <1>1, <1>2, <1>5 DEF StopOnAbort, Finish, Dry, AtTop, LoopUnchanged, Untouched
<1>6. CASE StartBatch
  <2>1. task' = [i \in queue |-> NewTask(i)] /\ queue' = {}
    BY <1>6 DEF StartBatch
  <2>2. \A i \in queue : Rebase(i.url) = Start
    BY <1>1, StartType DEF Rebase, RebaseTo, Untouched, Url
  <2>3. \A i \in DOMAIN task' : task'[i].url = Start /\ task'[i].pc \in {"load", "retry"}
    BY <2>1, <2>2 DEF NewTask
  <2> QED
    BY <1>1, <1>2, <1>6, <2>1, <2>3 DEF StartBatch, AtTop, LoopUnchanged, Untouched
<1>7. CASE ResolveFragments
  BY <1>1, <1>7 DEF ResolveFragments, Untouched
<1>8. CASE Fallback
  <2>1. phase = "crawl" /\ storing' = storing
    BY <1>8 DEF Fallback, Dry, AtTop, LoopUnchanged
  <2> QED
    BY <1>1, <1>2, <1>8, <2>1, FallbackIdle DEF Fallback, LoopUnchanged, Untouched
<1>9. ASSUME NEW i \in DOMAIN task, Process(i) PROVE Untouched'
  <2>0. /\ task[i].url = Start /\ task[i].pc \in {"load", "retry"} /\ storing # "full"
        /\ base = Start /\ phase = "crawl"
    BY <1>1 DEF Untouched, IInv, AtWork
  <2>1. CASE LoadCached(i)
    BY <2>0, <2>1 DEF LoadCached, CacheHit
  <2>2. CASE DownloadOk(i)
    <3>1. HandleRedirect(Start, site[Start].final) /\ site' = site /\ Start \in DOMAIN site
      BY <2>0, <2>2, AnsweredPage DEF DownloadOk
    <3> QED
      BY <1>1, <1>2, <2>0, <3>1 DEF HandleRedirect, Settled
  <2>3. CASE DownloadBusy(i)
    <3>1. [task[i] EXCEPT !.pc = "retry"].url = Start /\ [task[i] EXCEPT !.pc = "retry"].pc = "retry"
      BY <2>0 DEF TypeOK, TaskTypes, Task
    <3> QED
      BY <1>1, <1>2, <2>3, <3>1 DEF DownloadBusy, Continue, Untouched
  <2>4. CASE DownloadFailed(i)
    BY <1>1, <1>2, <2>4 DEF DownloadFailed, Return, Untouched
  <2>5. CASE Fold(i)
    BY <2>0, <2>5 DEF Fold, Folding, FoldPrefix, FoldPublic, FoldUrl, FoldClaimed,
                      FoldAbsolute, FoldBare, FoldPathNow, FoldPath, FoldPageSeen, FoldPage,
                      FoldKeySeen, FoldInline, FoldRequest
  <2> QED
    BY <1>9, <2>0, <2>1, <2>2, <2>3, <2>4, <2>5 DEF Process, FlightOk, FlightFailed, Folded,
                                                    Stored, MapSettled
<1> QED
  BY <1>3, <1>4, <1>5, <1>6, <1>7, <1>8, <1>9 DEF Next, Loop

-----------------------------------------------------------------------------
(* Nothing reported in a page is dropped.                                  *)

\* What CrawlClosed asks of a finding; a key stands for what is below it.
Handled(f) ==
  /\ f.tag = "url" => Rebase(f.url) \in seen
  /\ f.tag \in {"absolute", "bare", "path"} => Text(f) \in fragSeen
  /\ f.tag = "page" => Rebase(f.url) \in seen \/ (f.html /\ Len(htmlEntries) = MaxPivots)
  /\ f.tag = "inline" => f.key \in keys

\* Some task still has f to fold.
Owed(f) == \E i \in DOMAIN task : f \in ToSet(task[i].todo)

TodoInv ==
  /\ \A i \in DOMAIN task :
       /\ task[i].pc \notin {"fold", "flight"} => task[i].todo = <<>>
       /\ task[i].pc = "flight" => Finding1(i).tag = "request"
  /\ Len(htmlEntries) <= MaxPivots

PagesFolded ==
  /\ analysed \subseteq DOMAIN site
  /\ \A u \in analysed : \A f \in ToSet(site[u].finds) : Handled(f) \/ Owed(f)
InlinesFolded ==
  \A f \in Finding : f.tag = "inline" /\ f.key \in keys =>
    \A g \in ToSet(f.finds) : Handled(g) \/ Owed(g)

EndInv == phase = "complete" => DOMAIN task = {} /\ queue = {} /\ fragments = <<>>

(* The findings of a sequence. *)
LEMMA ToSetParts ==
  ASSUME NEW s \in Seq(Finding), NEW t \in Seq(Finding)
  PROVE  /\ ToSet(s \o t) = ToSet(s) \cup ToSet(t)
         /\ ToSet(s) \subseteq Finding
         /\ s # <<>> => ToSet(s) \subseteq {Head(s)} \cup ToSet(Tail(s))
         /\ s = <<>> => ToSet(s) = {}
<1>1. /\ Len(s) \in Nat /\ Len(t) \in Nat
      /\ DOMAIN s = 1..Len(s) /\ DOMAIN t = 1..Len(t) /\ DOMAIN (s \o t) = 1..(Len(s) + Len(t))
      /\ \A n \in 1..Len(s) : (s \o t)[n] = s[n]
      /\ \A n \in 1..Len(t) : (s \o t)[Len(s) + n] = t[n]
      /\ \A n \in (Len(s) + 1)..(Len(s) + Len(t)) : (s \o t)[n] = t[n - Len(s)]
  OBVIOUS
<1>2. ToSet(s \o t) \subseteq ToSet(s) \cup ToSet(t)
  <2> SUFFICES ASSUME NEW n \in 1..(Len(s) + Len(t)) PROVE (s \o t)[n] \in ToSet(s) \cup ToSet(t)
    BY <1>1 DEF ToSet
  <2>1. CASE n \in 1..Len(s)
    BY <1>1, <2>1 DEF ToSet
  <2>2. CASE n \in (Len(s) + 1)..(Len(s) + Len(t))
    <3>1. n - Len(s) \in 1..Len(t)
      BY <1>1, <2>2
    <3> QED
      BY <1>1, <2>2, <3>1 DEF ToSet
  <2> QED
    BY <1>1, <2>1, <2>2
<1>3. ToSet(s) \cup ToSet(t) \subseteq ToSet(s \o t)
  <2>1. \A n \in 1..Len(s) : s[n] \in ToSet(s \o t)
    <3>1. \A n \in 1..Len(s) : n \in 1..(Len(s) + Len(t))
      BY <1>1
    <3> QED
      BY <1>1, <3>1 DEF ToSet
  <2>2. \A n \in 1..Len(t) : t[n] \in ToSet(s \o t)
    <3>1. \A n \in 1..Len(t) : Len(s) + n \in 1..(Len(s) + Len(t))
      BY <1>1
    <3> QED
      BY <1>1, <3>1 DEF ToSet
  <2> QED
    BY <1>1, <2>1, <2>2 DEF ToSet
<1>4. ToSet(s) \subseteq Finding
  BY <1>1 DEF ToSet
<1>5. ASSUME s # <<>> PROVE ToSet(s) \subseteq {Head(s)} \cup ToSet(Tail(s))
  <2>1. /\ Head(s) = s[1] /\ DOMAIN Tail(s) = 1..(Len(s) - 1)
        /\ \A n \in 1..(Len(s) - 1) : Tail(s)[n] = s[n + 1]
    BY <1>5
  <2>2. ASSUME NEW n \in 1..Len(s), n # 1 PROVE s[n] \in ToSet(Tail(s))
    <3>1. n - 1 \in 1..(Len(s) - 1) /\ (n - 1) + 1 = n
      BY <1>1, <2>2
    <3>2. Tail(s)[n - 1] = s[n]
      BY <2>1, <3>1
    <3> QED
      BY <2>1, <3>1, <3>2 DEF ToSet
  <2> QED
    BY <1>1, <2>1, <2>2 DEF ToSet
<1>6. s = <<>> => ToSet(s) = {}
  BY DEF ToSet
<1> QED
  BY <1>2, <1>3, <1>4, <1>5, <1>6

LEMMA ToSetConcat ==
  ASSUME NEW s \in Seq(Finding), NEW t \in Seq(Finding), NEW f \in ToSet(s) \cup ToSet(t)
  PROVE  f \in ToSet(s \o t)
  BY ToSetParts

\* Neither the start URL nor a page of the site is at a development address.
Deployed ==
  /\ Start.origin \notin Loopback
  /\ \A s \in Sites : \A u \in DOMAIN s : s[u].final.origin \notin Loopback

SeenInv ==
  /\ base.origin \notin Loopback
  /\ \A r \in redirected : r.to.origin \notin Loopback
  /\ \A u \in seen : u.origin \notin Loopback
  /\ \A i \in DOMAIN task : /\ task[i].url.origin \notin Loopback
                            /\ task[i].eff.origin \notin Loopback

LEMMA RebasedOrigin ==
  ASSUME NEW u \in Url, NEW b \in Url, b.origin \notin Loopback
  PROVE  RebaseTo(u, b).origin \notin Loopback
  BY DEF RebaseTo, Url

LEMMA EnqueueDeployed ==
  ASSUME TypeOK, NEW targets \in SUBSET Url, NEW claimed, NEW by, Enqueue(claimed, targets, by),
         base.origin \notin Loopback, \A u \in claimed : u.origin \notin Loopback
  PROVE  \A u \in seen' : u.origin \notin Loopback
<1>1. \A t \in targets : Rebase(t).origin \notin Loopback
  BY RebasedOrigin DEF TypeOK, BaseTypes, Rebase
<1> QED
  BY <1>1 DEF Enqueue

LEMMA FoldDeployed ==
  ASSUME TypeOK, SeenInv, NEW i \in DOMAIN task, Fold(i)
  PROVE  SeenInv'
<1> DEFINE f == Finding1(i)
<1>0. task[i].todo # <<>> /\ task[i] \in Task
  BY DEF Fold, Folding, FoldPrefix, FoldPublic, FoldUrl, FoldClaimed, FoldAbsolute, FoldBare,
         FoldPathNow, FoldPath, FoldPageSeen, FoldPage, FoldKeySeen, FoldInline, FoldRequest,
         TypeOK, TaskTypes
<1>1. f \in Finding
  BY <1>0, FindingTypes DEF TypeOK
<1>2. /\ f.tag \in {"url", "absolute", "page", "request"} => f.url \in Url
      /\ f.tag \in {"bare", "path"} => f.frag \in Fragment /\ f.from \in Url
  BY <1>1, FindingAssumption DEF FindingAssumption
<1>3. ASSUME NEW targets \in SUBSET Url, NEW by, Enqueue(seen, targets, by)
      PROVE  \A u \in seen' : u.origin \notin Loopback
  BY <1>3, EnqueueDeployed DEF SeenInv
<1>4. \A u \in seen' : u.origin \notin Loopback
  <2> HIDE DEF f
  <2>1. CASE seen' = seen
    BY <2>1 DEF SeenInv
  <2>2. CASE FoldUrl(i) \/ FoldAbsolute(i) \/ FoldPage(i)
    <3>1. {f.url} \in SUBSET Url /\ Enqueue(seen, {f.url}, f.by)
      BY <1>2, <2>2 DEF FoldUrl, FoldAbsolute, FoldPage, Folding, f
    <3> QED
      BY <1>3, <3>1
  <2>3. CASE FoldBare(i)
    <3>1. BareTargets(f) \in SUBSET Url /\ Enqueue(seen, BareTargets(f), f.by)
      BY <1>2, <2>3, BareTargetsType DEF FoldBare, Folding, TypeOK, f
    <3> QED
      BY <1>3, <3>1
  <2>4. CASE FoldPathNow(i)
    <3>1. /\ Candidates(f.frag, f.from) \in SUBSET Url
          /\ Enqueue(seen, Candidates(f.frag, f.from), f.by)
      BY <1>2, <2>4, CandidatesType DEF FoldPathNow, Folding, TypeOK, f
    <3> QED
      BY <1>3, <3>1
  <2> QED
    BY <2>1, <2>2, <2>3, <2>4 DEF Fold, FoldPrefix, FoldPublic, FoldClaimed, FoldPath,
                                  FoldPageSeen, FoldKeySeen, FoldInline, FoldRequest, claimVars
<1>5. /\ FoldUnchanged
      /\ \/ Continue(i, Rest(i), TurnAfter(i))
         \/ Continue(i, [task[i] EXCEPT !.todo = Finding1(i).finds \o Tail(@)], Nobody)
         \/ Continue(i, [task[i] EXCEPT !.pc = "flight"], Nobody)
  BY DEF Fold, FoldPrefix, FoldPublic, FoldUrl, FoldClaimed, FoldAbsolute, FoldBare,
         FoldPathNow, FoldPath, FoldPageSeen, FoldPage, FoldKeySeen, FoldInline, FoldRequest
<1>6. PICK t, nxt : Continue(i, t, nxt) /\ t.url = task[i].url /\ t.eff = task[i].eff
  <2>1. \A s : /\ [task[i] EXCEPT !.todo = s].url = task[i].url
               /\ [task[i] EXCEPT !.todo = s].eff = task[i].eff
    BY <1>0 DEF Task
  <2>2. \A pc : /\ [task[i] EXCEPT !.pc = pc].url = task[i].url
                /\ [task[i] EXCEPT !.pc = pc].eff = task[i].eff
    BY <1>0 DEF Task
  <2> QED
    BY <1>5, <2>1, <2>2 DEF Rest
<1> QED
  BY <1>4, <1>5, <1>6 DEF SeenInv, Continue, FoldUnchanged, baseVars

LEMMA ArriveDeployed ==
  ASSUME TypeOK, SeenInv, NEW i \in DOMAIN task, NEW u, NEW kind, NEW eff,
         Arrive(i, u, kind, eff), eff.origin \notin Loopback
  PROVE  \A j \in DOMAIN task' : /\ task'[j].url.origin \notin Loopback
                                 /\ task'[j].eff.origin \notin Loopback
<1> DEFINE t == [task[i] EXCEPT !.eff = eff, !.js = (kind = "js")]
           filled == [t EXCEPT !.pc = "fold", !.todo = site[u].finds,
                               !.announced = site[u].announcesMap]
           map == [t EXCEPT !.pc = "map"]
<1>1. /\ map.url = task[i].url /\ filled.url = task[i].url
      /\ map.eff = eff /\ filled.eff = eff
  BY DEF TypeOK, TaskTypes, Task
<1>2. Return(i) \/ Continue(i, filled, Nobody) \/ Continue(i, map, Nobody)
  BY DEF Arrive
<1> HIDE DEF filled, map
<1> QED
  BY <1>1, <1>2 DEF SeenInv, Continue, Return

LEMMA RedirectDeployed ==
  ASSUME Deployed, TypeOK, SeenInv, NEW u \in DOMAIN site, HandleRedirect(u, site[u].final)
  PROVE  /\ site[u].final.origin \notin Loopback /\ base'.origin \notin Loopback
         /\ \A r \in redirected' : r.to.origin \notin Loopback
  BY DEF Deployed, SeenInv, HandleRedirect, TypeOK, ScanTypes

LEMMA EffectiveDeployed ==
  ASSUME SeenInv, NEW u, u.origin \notin Loopback, NEW final, final.origin \notin Loopback
  PROVE  EffectiveUrl(u, final).origin \notin Loopback
<1>1. (\E r \in redirected : r.from = u) => (CHOOSE r \in redirected : r.from = u) \in redirected
  OBVIOUS
<1> QED
  BY <1>1 DEF EffectiveUrl, SeenInv

LEMMA ProcessDeployed ==
  ASSUME Deployed, TypeOK, Awaited, SeenInv, NEW i \in DOMAIN task, Process(i)
  PROVE  SeenInv'
<1>0. task[i] \in Task
  BY DEF TypeOK, TaskTypes
<1> USE DEF TaskUnchanged, baseVars, claimVars
<1>1. ASSUME NEW t, NEW nxt, Continue(i, t, nxt), t.url = task[i].url, t.eff = task[i].eff,
             UNCHANGED <<seen, base, redirected>>
      PROVE  SeenInv'
  BY <1>1 DEF SeenInv, Continue
<1>2. ASSUME Return(i), UNCHANGED <<seen, base, redirected>> PROVE SeenInv'
  BY <1>2 DEF SeenInv, Return
<1>3. \A pc : /\ [task[i] EXCEPT !.pc = pc].url = task[i].url
              /\ [task[i] EXCEPT !.pc = pc].eff = task[i].eff
  BY <1>0 DEF Task
<1>4. CASE LoadCached(i)
  BY <1>4, EffectiveDeployed, ArriveDeployed DEF LoadCached, SeenInv
<1>5. CASE DownloadOk(i)
  <2> DEFINE u == task[i].url
  <2>1. /\ u \in DOMAIN site /\ HandleRedirect(u, site[u].final) /\ seen' = seen
        /\ Arrive(i, u, site[u].kind, EffectiveUrl(u, site[u].final))
    BY <1>5, AnsweredPage DEF DownloadOk
  <2>2. EffectiveUrl(u, site[u].final).origin \notin Loopback
    BY <2>1, RedirectDeployed, EffectiveDeployed DEF SeenInv
  <2> QED
    BY <2>1, <2>2, RedirectDeployed, ArriveDeployed DEF SeenInv
<1>6. CASE DownloadBusy(i) \/ DownloadFailed(i)
  BY <1>1, <1>2, <1>3, <1>6 DEF DownloadBusy, DownloadFailed
<1>7. CASE Fold(i)
  BY <1>7, FoldDeployed
<1>8. CASE FlightOk(i)
  <2>1. \A s : /\ [task[i] EXCEPT !.pc = "fold", !.todo = s].url = task[i].url
               /\ [task[i] EXCEPT !.pc = "fold", !.todo = s].eff = task[i].eff
    BY <1>0 DEF Task
  <2> QED
    BY <1>1, <1>8, <2>1 DEF FlightOk
<1>9. CASE FlightFailed(i)
  <2>1. /\ [Rest(i) EXCEPT !.pc = "fold"].url = task[i].url
        /\ [Rest(i) EXCEPT !.pc = "fold"].eff = task[i].eff
    BY <1>0 DEF Task, Rest
  <2> QED
    BY <1>1, <1>9, <2>1 DEF FlightFailed, FoldUnchanged
<1>10. CASE Folded(i)
  BY <1>1, <1>2, <1>3, <1>10 DEF Folded
<1>11. CASE Stored(i)
  <2>1. /\ UNCHANGED <<base, redirected>>
        /\ \/ Return(i) /\ UNCHANGED seen
           \/ /\ seen' = seen \cup {MapUrl(task[i].eff)}
              /\ Continue(i, [task[i] EXCEPT !.pc = "map"], Nobody)
    BY <1>11 DEF Stored
  <2>2. MapUrl(task[i].eff).origin \notin Loopback
    BY <1>0 DEF SeenInv, MapUrl, Task, Url
  <2>3. CASE /\ seen' = seen \cup {MapUrl(task[i].eff)}
             /\ Continue(i, [task[i] EXCEPT !.pc = "map"], Nobody)
    <3>1. \A u \in seen' : u.origin \notin Loopback
      BY <2>2, <2>3 DEF SeenInv
    <3> QED
      BY <1>3, <2>1, <2>3, <3>1 DEF SeenInv, Continue
  <2> QED
    BY <1>2, <2>1, <2>3
<1>12. CASE MapSettled(i)
  BY <1>2, <1>12 DEF MapSettled
<1> QED
  BY <1>4, <1>5, <1>6, <1>7, <1>8, <1>9, <1>10, <1>11, <1>12 DEF Process

LEMMA SeenStep ==
  ASSUME Deployed, TypeOK, Awaited, IInv, SeenInv, [Next]_vars
  PROVE  SeenInv'
<1> USE DEF baseVars, claimVars
<1>1. ASSUME UNCHANGED <<seen, base, redirected, task>> PROVE SeenInv'
  BY <1>1 DEF SeenInv
<1>2. CASE PrimeSkip
  <2>1. UNCHANGED <<base, redirected, task>> /\ Enqueue(seen, {Start}, "CLI")
    BY <1>2 DEF PrimeSkip, PrimeUnchanged
  <2>2. {Start} \in SUBSET Url
    BY StartType
  <2>3. \A u \in seen' : u.origin \notin Loopback
    BY <2>1, <2>2, EnqueueDeployed DEF SeenInv
  <2> QED
    BY <2>1, <2>3 DEF SeenInv
<1>3. CASE PrimeOk
  <2>1. /\ Start \in DOMAIN site /\ HandleRedirect(Start, site[Start].final)
        /\ seen' = {RebaseTo(Start, base')} /\ task' = task
    BY <1>3, AnsweredPage DEF PrimeOk, PrimeUnchanged
  <2>2. RebaseTo(Start, base') = Start
    BY DEF RebaseTo, Deployed
  <2> QED
    BY <2>1, <2>2, RedirectDeployed DEF SeenInv, Deployed
<1>4. CASE PrimeFailed \/ Abort \/ UNCHANGED vars
  BY <1>1, <1>4 DEF PrimeFailed, PrimeUnchanged, Abort, vars
<1>5. CASE StopOnAbort \/ Finish
  BY <1>1, <1>5 DEF StopOnAbort, Finish, LoopUnchanged
<1>6. CASE StartBatch
  <2>1. task' = [i \in queue |-> NewTask(i)] /\ UNCHANGED <<seen, base, redirected>>
    BY <1>6 DEF StartBatch, LoopUnchanged
  <2>2. \A i \in queue : i.url \in Url
    BY DEF TypeOK, ClaimTypes, Item
  <2>3. \A i \in queue : Rebase(i.url).origin \notin Loopback
    BY <2>2, RebasedOrigin DEF TypeOK, BaseTypes, Rebase, SeenInv
  <2> QED
    BY <2>1, <2>3 DEF SeenInv, NewTask
<1>7. CASE ResolveFragments
  <2>1. seen' = seen \cup {i.url : i \in FragmentItems} /\ UNCHANGED <<base, redirected, task>>
    BY <1>7 DEF ResolveFragments, LoopUnchanged
  <2>2. \A i \in FragmentItems : i.url.origin \notin Loopback
    <3> DEFINE cand(n) == {Rebase(c) : c \in Candidates(fragments[n].frag, fragments[n].from)}
               first(n) == cand(n) \ (seen \cup UNION {cand(m) : m \in 1..(n - 1)})
               Kept == [frag : Fragment, from : Url, by : Plugin]
    <3>1. FragmentItems = UNION {[url : first(n), by : {fragments[n].by}] : n \in DOMAIN fragments}
      BY DEF FragmentItems
    <3>2. ASSUME NEW n \in DOMAIN fragments PROVE \A u \in cand(n) : u.origin \notin Loopback
      <4>0. fragments \in Seq(Kept)
        BY DEF TypeOK, FragTypes
      <4> HIDE DEF Kept
      <4>1. fragments[n] \in Kept
        BY <4>0
      <4> USE DEF Kept
      <4>2. Candidates(fragments[n].frag, fragments[n].from) \subseteq Url
        BY <4>1, CandidatesType DEF TypeOK
      <4>3. base \in Url /\ base.origin \notin Loopback
        BY DEF TypeOK, BaseTypes, SeenInv
      <4> QED
        BY <4>2, <4>3, RebasedOrigin DEF Rebase
    <3> HIDE DEF cand
    <3> QED
      BY <3>1, <3>2
  <2> QED
    BY <2>1, <2>2 DEF SeenInv
<1>8. CASE Fallback
  <2> DEFINE targets == {[origin |-> base.origin, dir |-> <<>>, file |-> m] : m \in Manifests}
             dynamic == \E e \in entries : e.by # "HTMLScriptPlugin"
             tried == IF dynamic THEN {} ELSE targets \ seen
  <2>1. Enqueue(seen \cup tried, tried, "FallbackEmp") /\ UNCHANGED <<base, redirected, task>>
    BY <1>8 DEF Fallback, LoopUnchanged
  <2>2. tried \subseteq Url /\ \A u \in tried : u.origin \notin Loopback
    <3>1. \A m \in Manifests : [origin |-> base.origin, dir |-> <<>>, file |-> m] \in Url
      BY DiscoveryAssumption DEF DiscoveryAssumption, TypeOK, BaseTypes, Url
    <3> HIDE DEF dynamic
    <3> QED
      BY <3>1 DEF SeenInv
  <2> HIDE DEF tried
  <2>3. \A u \in seen' : u.origin \notin Loopback
    BY <2>1, <2>2, EnqueueDeployed DEF SeenInv
  <2> QED
    BY <2>1, <2>3 DEF SeenInv
<1> QED
  BY <1>2, <1>3, <1>4, <1>5, <1>6, <1>7, <1>8, ProcessDeployed DEF Next, Prime, Loop

LEMMA InitSeen == Deployed /\ Init => SeenInv
  BY DEF Deployed, Init, SeenInv

-----------------------------------------------------------------------------
\* No plugin names a page by the address it has on a developer's machine, or
\* the site is not on one: the lookup of a page is then that of its claim.
PagesLookedUp == NoDevPages \/ Deployed

LookupInv == Deployed => SeenInv

(* Claims of every kind are for good. *)
LEMMA ClaimsGrow ==
  ASSUME IInv, [Next]_vars
  PROVE  seen \subseteq seen' /\ fragSeen \subseteq fragSeen' /\ keys \subseteq keys'
<1> USE DEF claimVars, fragVars, TaskUnchanged, FoldUnchanged
<1>1. CASE Prime
  BY <1>1 DEF Prime, PrimeSkip, PrimeOk, PrimeFailed, PrimeUnchanged, IInv, AtWork
<1>2. CASE Abort \/ UNCHANGED vars
  BY <1>2 DEF Abort, vars
<1>3. CASE Loop
  BY <1>3 DEF Loop, StopOnAbort, StartBatch, ResolveFragments, Fallback, Finish, Enqueue,
              LoopUnchanged
<1>4. ASSUME NEW i \in DOMAIN task, Process(i)
      PROVE  seen \subseteq seen' /\ fragSeen \subseteq fragSeen' /\ keys \subseteq keys'
  <2>1. CASE Fold(i)
    <3>1. CASE FoldUrl(i) \/ FoldPage(i)
      BY <3>1 DEF FoldUrl, FoldPage, Enqueue
    <3>2. CASE FoldAbsolute(i) \/ FoldBare(i) \/ FoldPathNow(i) \/ FoldPath(i)
      BY <3>2 DEF FoldAbsolute, FoldBare, FoldPathNow, FoldPath, ClaimText, Enqueue
    <3>3. CASE FoldPrefix(i) \/ FoldPublic(i) \/ FoldClaimed(i) \/ FoldPageSeen(i)
               \/ FoldKeySeen(i) \/ FoldInline(i) \/ FoldRequest(i)
      BY <3>3 DEF FoldPrefix, FoldPublic, FoldClaimed, FoldPageSeen, FoldKeySeen, FoldInline,
                  FoldRequest
    <3> QED
      BY <2>1, <3>1, <3>2, <3>3 DEF Fold
  <2>2. CASE LoadCached(i) \/ DownloadOk(i) \/ DownloadBusy(i) \/ DownloadFailed(i)
    BY <2>2 DEF LoadCached, DownloadOk, DownloadBusy, DownloadFailed
  <2>3. CASE FlightOk(i) \/ FlightFailed(i) \/ Folded(i) \/ MapSettled(i)
    BY <2>3 DEF FlightOk, FlightFailed, Folded, MapSettled
  <2>4. CASE Stored(i)
    BY <2>4 DEF Stored
  <2> QED
    BY <1>4, <2>1, <2>2, <2>3, <2>4 DEF Process
<1> QED
  BY <1>1, <1>2, <1>3, <1>4 DEF Next

\* The budget is charged for an HTML page, and only while a slot is free.
LEMMA BudgetStep ==
  ASSUME TypeOK, Len(htmlEntries) <= MaxPivots, [Next]_vars
  PROVE  /\ Len(htmlEntries') <= MaxPivots
         /\ Len(htmlEntries) = MaxPivots => htmlEntries' = htmlEntries
<1>1. MaxPivots \in Nat /\ htmlEntries \in Seq(Url)
  BY DiscoveryAssumption DEF DiscoveryAssumption, TypeOK, KnowTypes
<1>2. ASSUME NEW i \in DOMAIN task, FoldPage(i), htmlEntries' # htmlEntries
      PROVE  Len(htmlEntries) < MaxPivots /\ Len(htmlEntries') = Len(htmlEntries) + 1
  BY <1>1, <1>2 DEF FoldPage
<1> QED
  BY <1>1, <1>2, EntriesStep

(* What is handled stays so. *)
LEMMA HandledStays ==
  ASSUME TypeOK, IInv, Settled, TodoInv, [Next]_vars, NEW f \in Finding, Handled(f)
  PROVE  Handled(f)'
<1>1. base' = base
  BY SettledStays
<1>2. seen \subseteq seen' /\ fragSeen \subseteq fragSeen' /\ keys \subseteq keys'
  BY ClaimsGrow
<1>3. Len(htmlEntries) = MaxPivots => Len(htmlEntries') = MaxPivots
  BY BudgetStep DEF TodoInv
<1>4. Rebase(f.url)' = Rebase(f.url) /\ Text(f)' = Text(f)
  BY <1>1 DEF Rebase, Text
<1> QED
  BY <1>2, <1>3, <1>4 DEF Handled

(* A finding that is folded is handled, or what it stands for is folded next. *)
LEMMA FoldHandles ==
  ASSUME PagesLookedUp, LookupInv, TypeOK, TodoInv, NEW i \in DOMAIN task, Fold(i),
         NEW f \in Finding, f = Finding1(i)
  PROVE  \/ Continue(i, Rest(i), TurnAfter(i)) /\ Handled(f)' /\ keys' = keys
         \/ FoldInline(i)
         \/ FoldRequest(i)
<1>0. UNCHANGED base
  BY DEF Fold, FoldPrefix, FoldPublic, FoldUrl, FoldClaimed, FoldAbsolute, FoldBare,
         FoldPathNow, FoldPath, FoldPageSeen, FoldPage, FoldKeySeen, FoldInline, FoldRequest,
         FoldUnchanged, baseVars
<1>1. Rebase(f.url)' = Rebase(f.url) /\ Text(f)' = Text(f)
  BY <1>0 DEF Rebase, Text
<1>2. ASSUME NEW by, Enqueue(seen, {f.url}, by) PROVE Rebase(f.url) \in seen'
  BY <1>2 DEF Enqueue
<1>3. CASE FoldPrefix(i) \/ FoldPublic(i)
  BY <1>3 DEF FoldPrefix, FoldPublic, Folding, Handled
<1>4. CASE FoldUrl(i)
  BY <1>1, <1>2, <1>4 DEF FoldUrl, Folding, Handled
<1>5. CASE FoldClaimed(i)
  BY <1>1, <1>5 DEF FoldClaimed, Folding, Handled, fragVars
<1>6. CASE FoldAbsolute(i) \/ FoldBare(i) \/ FoldPathNow(i) \/ FoldPath(i)
  BY <1>1, <1>6 DEF FoldAbsolute, FoldBare, FoldPathNow, FoldPath, ClaimText, Folding, Handled
<1>7. CASE FoldPageSeen(i)
  <2>1. /\ f.tag = "page"
        /\ f.url \in seen \/ (f.html /\ Len(htmlEntries) >= MaxPivots)
        /\ seen' = seen /\ htmlEntries' = htmlEntries /\ keys' = keys
        /\ Continue(i, Rest(i), TurnAfter(i))
    BY <1>7 DEF FoldPageSeen, Folding, claimVars
  <2>2. f.url \in Url /\ (NoDevPages => f.url.origin \notin Loopback)
    BY <2>1, FindingAssumption DEF FindingAssumption, NoDevPages
  <2>3. f.url \in seen => f.url.origin \notin Loopback
    BY <2>2 DEF PagesLookedUp, LookupInv, SeenInv
  <2>4. f.url \in seen => Rebase(f.url) \in seen
    BY <2>3 DEF Rebase, RebaseTo
  <2>5. Len(htmlEntries) >= MaxPivots => Len(htmlEntries) = MaxPivots
    BY DiscoveryAssumption DEF TodoInv, DiscoveryAssumption, TypeOK, KnowTypes
  <2> QED
    BY <1>1, <2>1, <2>4, <2>5 DEF Handled
<1>8. CASE FoldPage(i)
  BY <1>1, <1>2, <1>8 DEF FoldPage, Folding, Handled
<1>9. CASE FoldKeySeen(i)
  BY <1>9 DEF FoldKeySeen, Folding, Handled
<1> QED
  BY <1>3, <1>4, <1>5, <1>6, <1>7, <1>8, <1>9 DEF Fold

(* What is owed stays owed while its task keeps it. *)
LEMMA OwedContinue ==
  ASSUME NEW i \in DOMAIN task, NEW t, NEW nxt, Continue(i, t, nxt), NEW f \in Finding, Owed(f),
         f \in ToSet(task[i].todo) => f \in ToSet(t.todo)
  PROVE  Owed(f)'
<1>1. DOMAIN task' = DOMAIN task /\ task'[i] = t /\ \A j \in DOMAIN task : j # i => task'[j] = task[j]
  BY DEF Continue
<1> QED
  BY <1>1 DEF Owed, ToSet

LEMMA OwedNow ==
  ASSUME NEW i \in DOMAIN task, NEW t, NEW nxt, Continue(i, t, nxt), NEW f \in ToSet(t.todo)
  PROVE  Owed(f)'
  BY DEF Continue, Owed, ToSet

LEMMA OwedReturn ==
  ASSUME NEW i \in DOMAIN task, Return(i), task[i].todo = <<>>, NEW f \in Finding, Owed(f)
  PROVE  Owed(f)'
<1>1. \A j \in DOMAIN task : j # i => j \in DOMAIN task' /\ task'[j] = task[j]
  BY DEF Return
<1>2. f \notin ToSet(task[i].todo)
  BY DEF ToSet
<1> QED
  BY <1>1, <1>2 DEF Owed, ToSet

Due(f) == Handled(f) \/ Owed(f)

\* A task with nothing to fold goes on or ends.
LEMMA NothingOwed ==
  ASSUME NEW i \in DOMAIN task, task[i].todo = <<>>,
         Return(i) \/ \E t, nxt : Continue(i, t, nxt), NEW f \in Finding, Owed(f)
  PROVE  Owed(f)'
<1>1. f \notin ToSet(task[i].todo)
  BY DEF ToSet
<1> QED
  BY <1>1, OwedReturn, OwedContinue

LEMMA FoldDue ==
  ASSUME PagesLookedUp, LookupInv, TypeOK, TodoInv, NEW i \in DOMAIN task, Fold(i),
         NEW f \in Finding, Owed(f)
  PROVE  Due(f)'
<1>1. task[i].todo # <<>> /\ task[i] \in Task /\ task[i].todo \in Seq(Finding)
  BY DEF Fold, Folding, FoldPrefix, FoldPublic, FoldUrl, FoldClaimed, FoldAbsolute, FoldBare,
         FoldPathNow, FoldPath, FoldPageSeen, FoldPage, FoldKeySeen, FoldInline, FoldRequest,
         TypeOK, TaskTypes, Task
<1>2. PICK g \in Finding : g = Finding1(i)
  BY <1>1, FindingTypes DEF TypeOK
<1>3. f \in ToSet(task[i].todo) => f = g \/ f \in ToSet(Tail(task[i].todo))
  BY <1>1, <1>2, ToSetParts DEF Finding1
<1>4. CASE Continue(i, Rest(i), TurnAfter(i)) /\ Handled(g)'
  <2>1. Rest(i).todo = Tail(task[i].todo)
    BY <1>1 DEF Rest, Task
  <2> QED
    BY <1>3, <1>4, <2>1, OwedContinue DEF Due
<1>5. CASE FoldInline(i)
  <2>1. /\ g.tag = "inline" /\ g.key \in keys'
        /\ Continue(i, [task[i] EXCEPT !.todo = g.finds \o Tail(@)], Nobody)
    BY <1>2, <1>5 DEF FoldInline, Folding
  <2>2. g.finds \in Seq(Finding) /\ Tail(task[i].todo) \in Seq(Finding)
    BY <1>1, <1>2, <2>1, FindingAssumption DEF FindingAssumption
  <2>3. [task[i] EXCEPT !.todo = g.finds \o Tail(@)].todo = g.finds \o Tail(task[i].todo)
    BY <1>1 DEF Task
  <2>4. Handled(g)'
    BY <2>1 DEF Handled
  <2>5. f \in ToSet(Tail(task[i].todo)) => f \in ToSet(g.finds \o Tail(task[i].todo))
    BY <2>2, ToSetConcat
  <2> QED
    BY <1>3, <2>1, <2>3, <2>4, <2>5, OwedContinue DEF Due
<1>6. CASE FoldRequest(i)
  <2>1. [task[i] EXCEPT !.pc = "flight"].todo = task[i].todo
    BY <1>1 DEF Task
  <2> QED
    BY <1>6, <2>1, OwedContinue DEF FoldRequest, Due
<1> QED
  BY <1>2, <1>4, <1>5, <1>6, FoldHandles

LEMMA ProcessDue ==
  ASSUME PagesLookedUp, LookupInv, TypeOK, Awaited, TodoInv, NEW i \in DOMAIN task, Process(i),
         NEW f \in Finding, Owed(f)
  PROVE  Due(f)'
<1>0. task[i] \in Task /\ task[i].todo \in Seq(Finding)
  BY DEF TypeOK, TaskTypes, Task
<1>1. CASE LoadCached(i) \/ DownloadOk(i)
  <2>1. task[i].todo = <<>>
    BY <1>1 DEF LoadCached, DownloadOk, Requesting, TodoInv
  <2> QED
    BY <1>1, <2>1, NothingOwed DEF LoadCached, DownloadOk, Arrive, Due
<1>2. CASE DownloadBusy(i) \/ DownloadFailed(i)
  <2>1. task[i].todo = <<>>
    BY <1>2 DEF DownloadBusy, DownloadFailed, Requesting, TodoInv
  <2> QED
    BY <1>2, <2>1, NothingOwed DEF DownloadBusy, DownloadFailed, Due
<1>3. CASE Fold(i)
  BY <1>3, FoldDue
<1>4. CASE FlightOk(i) \/ FlightFailed(i)
  <2>1. task[i].pc = "flight" /\ task[i].todo # <<>> /\ Finding1(i).tag = "request"
    BY <1>4 DEF FlightOk, FlightFailed, Awaited, TodoInv
  <2>2. PICK g \in Finding : g = Finding1(i)
    BY <2>1, FindingTypes DEF TypeOK
  <2>3. f \in ToSet(task[i].todo) => f = g \/ f \in ToSet(Tail(task[i].todo))
    BY <1>0, <2>1, <2>2, ToSetParts DEF Finding1
  <2>4. Handled(g)'
    BY <2>1, <2>2 DEF Handled
  <2>5. Tail(task[i].todo) \in Seq(Finding)
    BY <1>0, <2>1
  <2>6. CASE FlightOk(i)
    <3> DEFINE finds == site[Finding1(i).url].finds
    <3>1. finds \in Seq(Finding)
      BY <2>6, AnsweredPage, PageType DEF FlightOk, TypeOK, Page
    <3> DEFINE t == [task[i] EXCEPT !.pc = "fold", !.todo = finds \o Tail(@)]
    <3>2. t.todo = finds \o Tail(task[i].todo) /\ Continue(i, t, Nobody)
      BY <1>0, <2>6 DEF Task, FlightOk
    <3> HIDE DEF t, finds
    <3>3. f \in ToSet(Tail(task[i].todo)) => f \in ToSet(t.todo)
      BY <2>5, <3>1, <3>2, ToSetConcat
    <3> QED
      BY <2>3, <2>4, <3>2, <3>3, OwedContinue DEF Due
  <2>7. CASE FlightFailed(i)
    <3>1. [Rest(i) EXCEPT !.pc = "fold"].todo = Tail(task[i].todo)
      BY <1>0 DEF Rest, Task
    <3> QED
      BY <2>3, <2>4, <2>7, <3>1, OwedContinue DEF FlightFailed, Due
  <2> QED
    BY <1>4, <2>6, <2>7
<1>5. CASE Folded(i)
  BY <1>5, NothingOwed DEF Folded, Due
<1>6. CASE Stored(i) \/ MapSettled(i)
  <2>1. task[i].todo = <<>>
    BY <1>6 DEF Stored, MapSettled, TodoInv
  <2> QED
    BY <1>6, <2>1, NothingOwed DEF Stored, MapSettled, Due
<1> QED
  BY <1>1, <1>2, <1>3, <1>4, <1>5, <1>6 DEF Process

(* What is handled or owed stays so, whatever happens.                     *)
LEMMA DueStays ==
  ASSUME PagesLookedUp, LookupInv, TypeOK, Awaited, IInv, TodoInv, Settled, [Next]_vars,
         NEW f \in Finding, Due(f)
  PROVE  Due(f)'
<1>1. CASE Handled(f)
  BY <1>1, HandledStays DEF Due
<1>2. CASE Owed(f)
  <2>1. CASE Prime \/ Abort \/ UNCHANGED vars
    <3>1. task' = task
      BY <2>1 DEF Prime, PrimeSkip, PrimeOk, PrimeFailed, PrimeUnchanged, Abort, vars
    <3> QED
      BY <1>2, <3>1 DEF Owed, Due
  <2>2. CASE Loop
    <3>1. DOMAIN task = {}
      BY <2>2 DEF Loop, StopOnAbort, StartBatch, ResolveFragments, Fallback, Finish, Dry, AtTop
    <3> QED
      BY <1>2, <3>1 DEF Owed
  <2> QED
    BY <1>2, <2>1, <2>2, ProcessDue DEF Next
<1> QED
  BY <1>1, <1>2 DEF Due

(* What is read adds its findings to what a task owes. *)
LEMMA ReadIsOwed ==
  ASSUME TypeOK, Awaited, TodoInv, [Next]_vars, NEW u \in analysed', u \notin analysed,
         NEW f \in ToSet(site[u].finds)
  PROVE  Owed(f)'
<1>1. CASE Prime \/ Abort \/ Loop \/ UNCHANGED vars
  BY <1>1 DEF Prime, PrimeSkip, PrimeOk, PrimeFailed, PrimeUnchanged, Abort, Loop, StopOnAbort,
              StartBatch, ResolveFragments, Fallback, Finish, LoopUnchanged, vars
<1>2. ASSUME NEW i \in DOMAIN task, Process(i) PROVE Owed(f)'
  <2>0. task[i] \in Task
    BY DEF TypeOK, TaskTypes
  <2>1. CASE LoadCached(i) \/ DownloadOk(i)
    <3>1. PICK v, kind, eff : Arrive(i, v, kind, eff)
      BY <2>1 DEF LoadCached, DownloadOk
    <3> DEFINE t == [task[i] EXCEPT !.eff = eff, !.js = (kind = "js")]
               filled == [t EXCEPT !.pc = "fold", !.todo = site[v].finds,
                                   !.announced = site[v].announcesMap]
    <3>2. Continue(i, filled, Nobody) /\ analysed' = analysed \cup {v}
      BY <1>2, <3>1 DEF Arrive
    <3>3. filled.todo = site[v].finds
      BY <2>0 DEF Task
    <3> HIDE DEF filled
    <3>4. u = v
      BY <3>2
    <3> QED
      BY <3>2, <3>3, <3>4, OwedNow
  <2>2. CASE FlightOk(i)
    <3> DEFINE v == Finding1(i).url
               t == [task[i] EXCEPT !.pc = "fold", !.todo = site[v].finds \o Tail(@)]
    <3>1. Continue(i, t, Nobody) /\ u = v /\ v \in DOMAIN site /\ task[i].todo # <<>>
      BY <2>2, AnsweredPage DEF FlightOk, Awaited
    <3>2. site[v].finds \in Seq(Finding) /\ Tail(task[i].todo) \in Seq(Finding)
      BY <3>1, PageType, FindingTypes DEF TypeOK, Page
    <3>3. t.todo = site[v].finds \o Tail(task[i].todo)
      BY <2>0 DEF Task
    <3> HIDE DEF t, v
    <3>4. f \in ToSet(t.todo)
      BY <3>1, <3>2, <3>3, ToSetConcat
    <3> QED
      BY <3>1, <3>4, OwedNow
  <2>3. CASE ~(LoadCached(i) \/ DownloadOk(i) \/ FlightOk(i))
    BY <1>2, <2>3 DEF Process, DownloadBusy, DownloadFailed, FlightFailed, Folded, Stored,
                      MapSettled, Fold, FoldPrefix, FoldPublic, FoldUrl, FoldClaimed,
                      FoldAbsolute, FoldBare, FoldPathNow, FoldPath, FoldPageSeen, FoldPage,
                      FoldKeySeen, FoldInline, FoldRequest, FoldUnchanged
  <2> QED
    BY <2>1, <2>2, <2>3
<1> QED
  BY <1>1, <1>2 DEF Next

(* A key that is claimed is that of the inline script whose findings are now *)
(* owed, or of a request.                                                   *)
LEMMA KeyIsOwed ==
  ASSUME TypeOK, [Next]_vars, NEW f \in Finding, f.tag = "inline", f.key \in keys',
         f.key \notin keys, NEW g \in ToSet(f.finds)
  PROVE  Owed(g)'
<1> USE DEF TaskUnchanged
<1>1. CASE Prime \/ Abort \/ Loop \/ UNCHANGED vars
  BY <1>1 DEF Prime, PrimeSkip, PrimeOk, PrimeFailed, PrimeUnchanged, Abort, Loop, StopOnAbort,
              StartBatch, ResolveFragments, Fallback, Finish, LoopUnchanged, vars
<1>2. ASSUME NEW i \in DOMAIN task, Process(i) PROVE Owed(g)'
  <2>1. CASE FoldInline(i) \/ FoldRequest(i)
    <3>1. task[i].todo # <<>> /\ task[i] \in Task /\ keys' = keys \cup {Finding1(i).key}
      BY <2>1 DEF FoldInline, FoldRequest, Folding, TypeOK, TaskTypes
    <3>2. PICK h \in Finding : h = Finding1(i)
      BY <3>1, FindingTypes DEF TypeOK
    <3>3. h.key = f.key /\ h.tag \in {"inline", "request"}
      BY <2>1, <3>1, <3>2 DEF FoldInline, FoldRequest, Folding
    <3>4. h.tag = "inline" /\ h.finds = f.finds
      BY <3>3, KeyAssumption DEF KeyAssumption
    <3>5. FoldInline(i) /\ Continue(i, [task[i] EXCEPT !.todo = h.finds \o Tail(@)], Nobody)
      BY <2>1, <3>2, <3>4 DEF FoldInline, FoldRequest, Folding
    <3>6. h.finds \in Seq(Finding) /\ Tail(task[i].todo) \in Seq(Finding)
      BY <3>1, <3>4, FindingTypes, FindingAssumption DEF FindingAssumption, TypeOK
    <3>7. [task[i] EXCEPT !.todo = h.finds \o Tail(@)].todo = h.finds \o Tail(task[i].todo)
      BY <3>1 DEF Task
    <3>8. g \in ToSet(h.finds \o Tail(task[i].todo))
      BY <3>4, <3>6, ToSetConcat
    <3> QED
      BY <3>5, <3>7, <3>8, OwedNow
  <2>2. CASE ~(FoldInline(i) \/ FoldRequest(i))
    BY <1>2, <2>2 DEF Process, LoadCached, DownloadOk, DownloadBusy, DownloadFailed, FlightOk,
                      FlightFailed, Folded, Stored, MapSettled, Fold, FoldPrefix, FoldPublic,
                      FoldUrl, FoldClaimed, FoldAbsolute, FoldBare, FoldPathNow, FoldPath,
                      FoldPageSeen, FoldPage, FoldKeySeen
  <2> QED
    BY <2>1, <2>2
<1> QED
  BY <1>1, <1>2 DEF Next

LEMMA ReadIsServed ==
  ASSUME TypeOK, [Next]_vars, NEW u \in analysed', u \notin analysed
  PROVE  u \in DOMAIN site
<1>1. CASE Prime \/ Abort \/ Loop \/ UNCHANGED vars
  BY <1>1 DEF Prime, PrimeSkip, PrimeOk, PrimeFailed, PrimeUnchanged, Abort, Loop, StopOnAbort,
              StartBatch, ResolveFragments, Fallback, Finish, LoopUnchanged, vars
<1>2. ASSUME NEW i \in DOMAIN task, Process(i) PROVE u \in DOMAIN site
  <2>1. CASE LoadCached(i) \/ DownloadOk(i) \/ FlightOk(i)
    BY <2>1, AnsweredPage DEF LoadCached, CacheHit, DownloadOk, Arrive, FlightOk
  <2>2. CASE ~(LoadCached(i) \/ DownloadOk(i) \/ FlightOk(i))
    BY <1>2, <2>2 DEF Process, DownloadBusy, DownloadFailed, FlightFailed, Folded, Stored,
                      MapSettled, Fold, FoldPrefix, FoldPublic, FoldUrl, FoldClaimed,
                      FoldAbsolute, FoldBare, FoldPathNow, FoldPath, FoldPageSeen, FoldPage,
                      FoldKeySeen, FoldInline, FoldRequest, FoldUnchanged
  <2> QED
    BY <2>1, <2>2
<1> QED
  BY <1>1, <1>2 DEF Next

LEMMA FoldedStep ==
  ASSUME PagesLookedUp, LookupInv, TypeOK, Awaited, IInv, TodoInv, Anchored, PagesFolded,
         InlinesFolded, [Next]_vars
  PROVE  PagesFolded' /\ InlinesFolded'
<1>1. site' = site
  BY BaseSteps
<1>2. analysed' \subseteq DOMAIN site
  BY ReadIsServed DEF PagesFolded
<1>3. ASSUME NEW u \in analysed', NEW f \in ToSet(site[u].finds) PROVE Due(f)'
  <2>1. CASE u \notin analysed
    BY <2>1, ReadIsOwed DEF Due
  <2>2. CASE u \in analysed
    <3>1. Settled
      BY <2>2 DEF Anchored, Untouched
    <3>2. f \in Finding
      <4>1. site[u].finds \in Seq(Finding)
        BY <1>2, PageType DEF TypeOK, Page
      <4> QED
        BY <4>1, ToSetParts
    <3>3. Due(f)
      BY <2>2 DEF PagesFolded, Due
    <3> QED
      BY <3>1, <3>2, <3>3, DueStays
  <2> QED
    BY <2>1, <2>2
<1>4. ASSUME NEW f \in Finding, f.tag = "inline", f.key \in keys', NEW g \in ToSet(f.finds)
      PROVE  Due(g)'
  <2>1. CASE f.key \notin keys
    BY <1>4, <2>1, KeyIsOwed DEF Due
  <2>2. CASE f.key \in keys
    <3>1. Settled
      BY <2>2 DEF Anchored, Untouched
    <3>2. g \in Finding
      BY <1>4, FindingAssumption, ToSetParts DEF FindingAssumption
    <3>3. Due(g)
      BY <1>4, <2>2 DEF InlinesFolded, Due
    <3> QED
      BY <3>1, <3>2, <3>3, DueStays
  <2> QED
    BY <2>1, <2>2
<1>5. PagesFolded'
  BY <1>1, <1>2, <1>3 DEF PagesFolded, Due
<1>6. InlinesFolded'
  BY <1>4 DEF InlinesFolded, Due
<1> QED
  BY <1>5, <1>6

\* What a task has left to fold, step by step.
LEMMA TodoContinue ==
  ASSUME TodoInv, NEW i \in DOMAIN task, NEW t, NEW nxt, Continue(i, t, nxt),
         t.pc \notin {"fold", "flight"} => t.todo = <<>>,
         t.pc = "flight" => Head(t.todo).tag = "request",
         Len(htmlEntries') <= MaxPivots
  PROVE  TodoInv'
  BY DEF TodoInv, Continue, Finding1

LEMMA TodoReturn ==
  ASSUME TodoInv, NEW i \in DOMAIN task, Return(i), Len(htmlEntries') <= MaxPivots
  PROVE  TodoInv'
  BY DEF TodoInv, Return, Finding1

LEMMA TodoStep ==
  ASSUME TypeOK, Awaited, TodoInv, [Next]_vars
  PROVE  TodoInv'
<1>0. Len(htmlEntries') <= MaxPivots
  BY BudgetStep DEF TodoInv
<1>1. CASE Prime \/ Abort \/ UNCHANGED vars
  <2>1. task' = task
    BY <1>1 DEF Prime, PrimeSkip, PrimeOk, PrimeFailed, PrimeUnchanged, Abort, vars
  <2> QED
    BY <1>0, <2>1 DEF TodoInv, Finding1
<1>2. CASE Loop
  <2>1. task' = task \/ task' = [i \in queue |-> NewTask(i)]
    BY <1>2, FallbackIdle DEF Loop, StopOnAbort, StartBatch, ResolveFragments, Fallback, Finish
  <2> QED
    BY <1>0, <2>1 DEF TodoInv, Finding1, NewTask
<1>3. ASSUME NEW i \in DOMAIN task, Process(i) PROVE TodoInv'
  <2>0. task[i] \in Task
    BY DEF TypeOK, TaskTypes
  <2>1. CASE LoadCached(i) \/ DownloadOk(i)
    <3>0. task[i].todo = <<>>
      BY <2>1 DEF LoadCached, DownloadOk, Requesting, TodoInv
    <3>1. PICK v, kind, eff : Arrive(i, v, kind, eff)
      BY <2>1 DEF LoadCached, DownloadOk
    <3> DEFINE t == [task[i] EXCEPT !.eff = eff, !.js = (kind = "js")]
               filled == [t EXCEPT !.pc = "fold", !.todo = site[v].finds,
                                   !.announced = site[v].announcesMap]
               map == [t EXCEPT !.pc = "map"]
    <3>2. map.pc = "map" /\ map.todo = <<>> /\ filled.pc = "fold"
      BY <2>0, <3>0 DEF Task
    <3>3. Return(i) \/ Continue(i, filled, Nobody) \/ Continue(i, map, Nobody)
      BY <3>1 DEF Arrive
    <3> HIDE DEF filled, map
    <3> QED
      BY <1>0, <3>2, <3>3, TodoContinue, TodoReturn
  <2>2. CASE DownloadBusy(i) \/ DownloadFailed(i)
    <3>1. task[i].todo = <<>>
      BY <2>2 DEF DownloadBusy, DownloadFailed, Requesting, TodoInv
    <3>2. [task[i] EXCEPT !.pc = "retry"].pc = "retry" /\ [task[i] EXCEPT !.pc = "retry"].todo = <<>>
      BY <2>0, <3>1 DEF Task
    <3> QED
      BY <1>0, <2>2, <3>2, TodoContinue, TodoReturn DEF DownloadBusy, DownloadFailed
  <2>3. CASE Fold(i)
    <3>1. /\ task[i].pc = "fold" /\ task[i].todo # <<>>
          /\ \/ Continue(i, Rest(i), TurnAfter(i))
             \/ Continue(i, [task[i] EXCEPT !.todo = Finding1(i).finds \o Tail(@)], Nobody)
             \/ /\ Continue(i, [task[i] EXCEPT !.pc = "flight"], Nobody)
                /\ Finding1(i).tag = "request"
      BY <2>3 DEF Fold, Folding, FoldPrefix, FoldPublic, FoldUrl, FoldClaimed, FoldAbsolute,
                  FoldBare, FoldPathNow, FoldPath, FoldPageSeen, FoldPage, FoldKeySeen,
                  FoldInline, FoldRequest
    <3>2. \A s : [task[i] EXCEPT !.todo = s].pc = "fold"
      BY <2>0, <3>1 DEF Task
    <3>3. /\ [task[i] EXCEPT !.pc = "flight"].pc = "flight"
          /\ Head([task[i] EXCEPT !.pc = "flight"].todo) = Finding1(i)
      BY <2>0 DEF Task, Finding1
    <3> QED
      BY <1>0, <3>1, <3>2, <3>3, TodoContinue DEF Rest
  <2>4. CASE FlightOk(i) \/ FlightFailed(i)
    <3>1. /\ \A s : [task[i] EXCEPT !.pc = "fold", !.todo = s].pc = "fold"
          /\ [Rest(i) EXCEPT !.pc = "fold"].pc = "fold"
      BY <2>0 DEF Task, Rest
    <3> QED
      BY <1>0, <2>4, <3>1, TodoContinue DEF FlightOk, FlightFailed
  <2>5. CASE Folded(i) \/ Stored(i) \/ MapSettled(i)
    <3>1. task[i].todo = <<>>
      BY <2>5 DEF Folded, Stored, MapSettled, TodoInv
    <3>2. \A pc : [task[i] EXCEPT !.pc = pc].pc = pc /\ [task[i] EXCEPT !.pc = pc].todo = <<>>
      BY <2>0, <3>1 DEF Task
    <3> QED
      BY <1>0, <2>5, <3>2, TodoContinue, TodoReturn DEF Folded, Stored, MapSettled
  <2> QED
    BY <1>3, <2>1, <2>2, <2>3, <2>4, <2>5 DEF Process
<1> QED
  BY <1>1, <1>2, <1>3 DEF Next

(* A crawl that is complete has nothing pending, and nothing happens in it.  *)
LEMMA EndStep ==
  ASSUME TypeOK, IInv, EndInv, [Next]_vars
  PROVE  EndInv'
<1> USE DEF claimVars, fragVars, loopVars
<1>1. CASE Prime
  BY <1>1 DEF Prime, PrimeSkip, PrimeOk, PrimeFailed, EndInv
<1>2. CASE Abort \/ UNCHANGED vars
  BY <1>2 DEF Abort, vars, EndInv
<1>3. CASE StopOnAbort \/ StartBatch \/ ResolveFragments
  BY <1>3 DEF StopOnAbort, StartBatch, ResolveFragments, AtTop, EndInv
<1>4. CASE Fallback
  BY <1>4, FallbackIdle DEF Fallback, Dry, AtTop, EndInv
<1>5. CASE Finish
  BY <1>5 DEF Finish, Dry, AtTop, EndInv
<1>6. ASSUME NEW i \in DOMAIN task, Process(i) PROVE EndInv'
  BY <1>6, ProcessShrinks DEF IInv, AtWork, EndInv
<1> QED
  BY <1>1, <1>2, <1>3, <1>4, <1>5, <1>6 DEF Next, Loop

ClosedInv == LookupInv /\ Anchored /\ TodoInv /\ PagesFolded /\ InlinesFolded /\ EndInv

LEMMA ClosedStep ==
  ASSUME PagesLookedUp
  PROVE  TypeOK /\ Awaited /\ IInv /\ ClosedInv /\ [Next]_vars => ClosedInv'
<1> SUFFICES ASSUME TypeOK, Awaited, IInv, ClosedInv, [Next]_vars PROVE ClosedInv'
  OBVIOUS
<1>1. LookupInv'
  BY SeenStep DEF ClosedInv, LookupInv
<1> QED
  BY <1>1, AnchoredStep, TodoStep, FoldedStep, EndStep DEF ClosedInv

LEMMA ClosedCrawl == TypeOK /\ ClosedInv => CrawlClosed
<1> SUFFICES ASSUME TypeOK, ClosedInv, phase = "complete"
             PROVE  /\ queue = {} /\ DOMAIN task = {} /\ fragments = <<>>
                    /\ \A u \in analysed : \A f \in Reported(u) : Handled(f)
  BY DEF CrawlClosed, Handled
<1>1. queue = {} /\ DOMAIN task = {} /\ fragments = <<>> /\ \A f : ~Owed(f)
  BY DEF ClosedInv, EndInv, Owed
<1>2. ASSUME NEW u \in analysed, NEW f \in ToSet(site[u].finds) PROVE Handled(f) /\ f \in Finding
  <2>1. site[u].finds \in Seq(Finding)
    BY PageType DEF TypeOK, Page, ClosedInv, PagesFolded
  <2> QED
    BY <1>1, <2>1, ToSetParts DEF ClosedInv, PagesFolded
<1>3. ASSUME NEW u \in analysed, NEW g \in ToSet(site[u].finds), g.tag = "inline",
             NEW f \in ToSet(g.finds)
      PROVE  Handled(f)
  BY <1>1, <1>2, <1>3 DEF ClosedInv, InlinesFolded, Handled
<1> QED
  BY <1>1, <1>2, <1>3 DEF Reported

(* A crawl that calls itself complete has left nothing out: every URL, probe *)
(* target and page reported in a body it read, in an inline script of it or  *)
(* in the answer to a request, was claimed, resolved or entered, unless the  *)
(* page budget is spent; whatever the order of the answers, the redirects,   *)
(* and the kind of storage.  A page named by a development address is looked *)
(* up under it: on a site that is at one, the claim of another page could be *)
(* taken for its own.                                                        *)
THEOREM CompleteIsClosed == ASSUME PagesLookedUp PROVE Spec => []CrawlClosed
<1>1. Init => ClosedInv
  <2> SUFFICES ASSUME Init PROVE ClosedInv
    OBVIOUS
  <2>1. LookupInv
    BY InitSeen DEF LookupInv
  <2>2. Anchored
    BY DEF Init, Anchored, Untouched
  <2>3. TodoInv
    BY DiscoveryAssumption DEF DiscoveryAssumption, Init, TodoInv
  <2> QED
    BY <2>1, <2>2, <2>3 DEF Init, ClosedInv, PagesFolded, InlinesFolded, EndInv
<1>2. Spec => [](TypeOK /\ Awaited)
  BY InitTypes, StepTypes, PTL DEF Spec
<1>3. TypeOK /\ Awaited /\ IInv /\ ClosedInv /\ [Next]_vars => ClosedInv'
  BY ClosedStep
<1> QED
  BY <1>1, <1>2, <1>3, ClosedCrawl, Inductive, PTL DEF Spec
=============================================================================
