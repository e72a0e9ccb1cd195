------------------------------ MODULE Exchange ------------------------------
(***************************************************************************)
(* What passes between the fetcher and a site: the headers and cookies of  *)
(* a request, and what becomes of the answer's cookies and body, for the   *)
(* three clients a Fetcher may sit on.  src/src/fetcher: fetcher.ts,       *)
(* node-client.ts, browser-client.ts, cookies.ts, headers.ts, body.ts,     *)
(* decompress.ts.  Requests run side by side and are answered in any       *)
(* order; slots, retries and aborts are in Fetch.tla.                      *)
(*                                                                         *)
(* Hosts are sequences of labels, root first; paths sequences of segments, *)
(* the last one empty after a closing slash.  Sizes count a unit of bytes. *)
(***************************************************************************)
EXTENDS Integers, Sequences, FiniteSets, SequencesExt

CONSTANTS
  Request,      \* the requests of a scan
  HostOf, PathOf,
  OneOff,       \* OneOff[r]: headers of this request alone
  Extras,       \* setExtraHeaders
  Injected,     \* cookies handed in for the first request's URL
  Answer,       \* answers a site may give
  MaxCookies,   \* MAX_COOKIES
  MaxBody,      \* maxBodySize
  MaxTime,      \* bound: the clock
  None

\* The cookies handed in or sent by the site; they last for a time, until a
\* date, or as long as the jar.
Offered == {Injected[n] : n \in DOMAIN Injected}
             \cup UNION {{a.cookies[n] : n \in DOMAIN a.cookies} : a \in Answer}

ASSUME ExchangeAssumption ==
  /\ MaxCookies \in Nat \ {0} /\ MaxBody \in Nat \ {0} /\ MaxTime \in Nat
  /\ Injected \in Seq(Offered)
  /\ \A a \in Answer : a.cookies \in Seq(Offered) /\ a.chunks \in Seq(Nat)
  /\ \A c \in Offered : {c.maxAge, c.expires} \subseteq Int \cup {None}

VARIABLES
  kind,    \* the client: "node", "browser" or "injected"
  jar,     \* the cookies, oldest first; of the client or of the fetcher
  now,
  phase,   \* of a request: "new", "sent", "answered"
  sent,    \* headers of a request, and when it was sent
  got,     \* FetchResult
  given    \* history: every cookie the jar took in, in order

exchangeVars == <<kind, jar, now, phase, sent, got, given>>

Root == <<"">>
Least(m, n) == IF m < n THEN m ELSE n
Under(host, domain) == IsPrefix(domain, host)

\* pathMatches: a cookie's path covers whole segments.
Covers(cp, p) ==
  \/ cp = Root \/ cp = p
  \/ IF Last(cp) = "" THEN IsPrefix(Front(cp), p) /\ Len(p) >= Len(cp)
     ELSE IsStrictPrefix(cp, p)

\* What identifies a cookie: the host that set it is part of it.
Same(a, b) ==
  a.name = b.name /\ a.domain = b.domain /\ a.path = b.path /\ a.host = b.host

Expiry(c, t) ==
  IF c.maxAge # None THEN IF c.maxAge <= 0 THEN 0 ELSE t + c.maxAge ELSE c.expires

\* A Set-Cookie line or an injected cookie as the jar stores it.
Stored(c, host, t) ==
  [name |-> c.name, value |-> c.value, host |-> host,
   domain |-> IF c.domain = None THEN host ELSE c.domain,
   path |-> IF c.path = None THEN Root ELSE c.path, expires |-> Expiry(c, t)]

Live(c, t) == c.expires = None \/ c.expires > t

\* The members of s that are in S, in their order.
Sift(s, S) ==
  LET upTo[n \in 0..Len(s)] ==
        IF n = 0 THEN <<>>
        ELSE IF s[n] \in S THEN Append(upTo[n - 1], s[n]) ELSE upTo[n - 1]
  IN upTo[Len(s)]

Others(cookies, c) == {cookies[n] : n \in {m \in DOMAIN cookies : ~Same(c, cookies[m])}}
LiveOf(cookies, t) == {cookies[n] : n \in {m \in DOMAIN cookies : Live(cookies[m], t)}}

\* Bug: a cookie is added beside the one it replaces, and the old one is found first.
PutBeside(cookies, c, t) == IF Live(c, t) THEN Append(cookies, c) ELSE cookies

\* One round of setFromUrl's loop: an expired cookie is skipped, and leaves the
\* one it would replace where it is.
Put(cookies, c, t) ==
  IF Live(c, t) THEN Append(Sift(cookies, Others(cookies, c)), c) ELSE cookies

\* The oldest are evicted.
Evict(cookies) ==
  IF Len(cookies) > MaxCookies
  THEN SubSeq(cookies, Len(cookies) - MaxCookies + 1, Len(cookies)) ELSE cookies

\* setFromUrl and setFromResponseHeaders.
SetAll(cookies, cs, t) ==
  LET upTo[n \in 0..Len(cs)] == IF n = 0 THEN cookies ELSE Put(upTo[n - 1], cs[n], t)
  IN Evict(upTo[Len(cs)])

Fresh(cookies, t) == Sift(cookies, LiveOf(cookies, t))

\* getCookieHeader.  The order within the header is left out.
Matching(r, t) ==
  {c \in {jar[n] : n \in DOMAIN jar} :
     Live(c, t) /\ Under(HostOf[r], c.domain) /\ Covers(c.path, PathOf[r])}
-----------------------------------------------------------------------------
\* Header names with the layer their value comes from; later layers win.
BrowserHeaders == {"User-Agent", "Accept", "Accept-Encoding"}

\* A browser sets headers of its own, and nothing is added to them.
Defaults == IF kind = "browser" THEN {} ELSE BrowserHeaders

\* performRequest and buildHeaders: the built-in Node client and the fetcher
\* over an injected client merge alike; the browser client takes none of it.
Layered(r) ==
  LET names == Defaults \cup IF kind = "browser" THEN {} ELSE Extras \cup OneOff[r]
  IN [n \in names |-> IF n \in OneOff[r] THEN "one-off"
                      ELSE IF n \in Extras THEN "extra" ELSE "default"]

Cookies(r) ==
  IF kind = "browser" \/ "Cookie" \in DOMAIN Layered(r) THEN {} ELSE Matching(r, now)

\* The cookies of a list as the jar stores them.
Handed(cs, host) == [n \in DOMAIN cs |-> Stored(cs[n], host, now)]

\* A fetcher is made for a client, and cookies are injected for the start URL;
\* a browser client has no use for them.
ExchangeInit ==
  /\ kind \in {"node", "browser", "injected"}
  /\ now = 1
  /\ \E r \in Request :
       LET cs == IF kind = "browser" THEN <<>> ELSE Handed(Injected, HostOf[r])
       IN jar = SetAll(<<>>, cs, now) /\ given = Fresh(cs, now)
  /\ phase = [r \in Request |-> "new"]
  /\ sent = [r \in Request |-> None] /\ got = [r \in Request |-> None]

\* Expired cookies are dropped when the jar is read; a caller's own Cookie
\* header keeps the fetcher from reading it, but not the Node client.
Send(r) ==
  /\ phase[r] = "new"
  /\ phase' = [phase EXCEPT ![r] = "sent"]
  /\ sent' = [sent EXCEPT ![r] = [headers |-> Layered(r), cookies |-> Cookies(r),
                                  at |-> now, after |-> Len(given)]]
  /\ jar' = IF kind = "node" \/ "Cookie" \notin DOMAIN Layered(r) THEN Fresh(jar, now) ELSE jar
  /\ UNCHANGED <<kind, now, got, given>>

\* Bug: a chunk is taken whole before the limit is looked at.
ReadPastLimit(chunks) ==
  LET upTo[n \in 0..Len(chunks)] ==
        IF n = 0 THEN [size |-> 0, truncated |-> FALSE]
        ELSE IF upTo[n - 1].truncated THEN upTo[n - 1]
        ELSE [size |-> upTo[n - 1].size + chunks[n],
              truncated |-> upTo[n - 1].size + chunks[n] > MaxBody + 1]
  IN upTo[Len(chunks)]

\* readBodyWithLimit: a body that just fits counts as truncated.
Read(chunks) ==
  LET upTo[n \in 0..Len(chunks)] ==
        IF n = 0 THEN [size |-> 0, truncated |-> FALSE]
        ELSE IF upTo[n - 1].truncated THEN upTo[n - 1]
        ELSE IF chunks[n] >= MaxBody - upTo[n - 1].size
        THEN [size |-> MaxBody, truncated |-> TRUE]
        ELSE [size |-> upTo[n - 1].size + chunks[n], truncated |-> FALSE]
  IN upTo[Len(chunks)]

\* decompressBody: what a body of some form, whole, becomes under a label.
\* Every name zlibDecompress does not know is tried as deflate.
Unpacks(label, form) ==
  \/ label \in {"gzip", "x-gzip"} /\ form = "gzip"
  \/ label = "br" /\ form = "br"
  \/ label \in {"deflate", "x-deflate"} /\ form \in {"deflate", "deflate-raw"}
  \/ label \notin {"", "identity", "gzip", "x-gzip", "br", "deflate", "x-deflate"}
     /\ form = "deflate"

Total(chunks) ==
  LET upTo[n \in 0..Len(chunks)] == IF n = 0 THEN 0 ELSE upTo[n - 1] + chunks[n]
  IN upTo[Len(chunks)]

\* The body as each client hands it on: an injected one has no limit and unpacks
\* nothing, a browser unpacks by itself, on Node the limit comes first.
InjectedBody(a) == [size |-> Total(a.chunks), plain |-> a.form = "plain", truncated |-> FALSE]
BrowserBody(a) == [size |-> Read(a.chunks).size, plain |-> TRUE, truncated |-> Read(a.chunks).truncated]

NodeBody(a) ==
  LET read == Read(a.chunks)
      opens == ~read.truncated /\ Unpacks(a.label, a.form)
  IN [size |-> IF opens THEN read.size * a.ratio ELSE read.size,
      plain |-> opens \/ a.form = "plain", truncated |-> read.truncated]

Body(a) ==
  CASE kind = "node" -> NodeBody(a)
    [] kind = "browser" -> BrowserBody(a)
    [] OTHER -> InjectedBody(a)

\* toFetchResult cuts once more, and leaves the flag as it is.
ToFetchResult(a) ==
  [size |-> Least(MaxBody, Body(a).size), plain |-> Body(a).plain,
   truncated |-> Body(a).truncated, answer |-> a]

\* The answer: the body first, then the cookies, which the Node client alone
\* takes in.
Receive(r, a) ==
  /\ phase[r] = "sent"
  /\ phase' = [phase EXCEPT ![r] = "answered"]
  /\ got' = [got EXCEPT ![r] = ToFetchResult(a)]
  /\ IF kind = "node"
     THEN LET cs == Handed(a.cookies, HostOf[r])
          IN jar' = SetAll(jar, cs, now) /\ given' = given \o Fresh(cs, now)
     ELSE UNCHANGED <<jar, given>>
  /\ UNCHANGED <<kind, now, sent>>

Tick == now <= MaxTime /\ now' = now + 1 /\ UNCHANGED <<kind, jar, phase, sent, got, given>>

ExchangeNext ==
  \/ \E r \in Request : Send(r) \/ \E a \in Answer : Receive(r, a)
  \/ Tick
-----------------------------------------------------------------------------
\* The last cookie of each identity among the first k the jar took in.
Newest(cs, k) == {n \in 1..k : \A m \in (n + 1)..k : ~Same(cs[m], cs[n])}
\* Those of them that a request to host and path carries at a time t.
Applying(cs, k, r, t) ==
  {n \in Newest(cs, k) :
     Live(cs[n], t) /\ Under(HostOf[r], cs[n].domain) /\ Covers(cs[n].path, PathOf[r])}

\* The last of its name, domain and path, which is what the doc of setFromUrl
\* says replaces; the code asks for the same host besides.
LastNamed(cs, k, n) ==
  \A m \in (n + 1)..k :
    ~(cs[m].name = cs[n].name /\ cs[m].domain = cs[n].domain /\ cs[m].path = cs[n].path)

\* The cookies no reading of the doc leaves out: not replaced, and to the host
\* that set them or under a wider domain they were set for.
Due(cs, k, r, t) ==
  {n \in Applying(cs, k, r, t) :
     LastNamed(cs, k, n) /\ (HostOf[r] = cs[n].host \/ cs[n].domain # cs[n].host)}

(* In whatever order answers come, a request carries no cookie whose value *)
(* the same host has set anew, none that is not live at that moment and    *)
(* none that does not cover host and path; and it carries every other one. *)
(* Left open is what cookies.ts and its comments tell apart: whether a     *)
(* cookie without a domain goes to subdomains, and whether one host's      *)
(* cookie replaces another's.  Cookies the limit pushed out may be missing *)
(* too, each for as many set later.  A Set-Cookie that has expired counts  *)
(* for nothing, as in the code.  A caller's own Cookie header goes alone.  *)
CookiesApply ==
  \A r \in Request : phase[r] # "new" /\ kind # "browser" =>
    LET s == sent[r]
    IN IF "Cookie" \in Extras \cup OneOff[r] THEN s.cookies = {}
       ELSE /\ s.cookies \subseteq {given[n] : n \in Applying(given, s.after, r, s.at)}
            /\ \A n \in Due(given, s.after, r, s.at) : given[n] \notin s.cookies =>
                 Cardinality({m \in Newest(given, s.after) : m > n}) >= MaxCookies

LabelsOf(form) ==
  CASE form = "gzip" -> {"gzip", "x-gzip"}
    [] form = "br" -> {"br"}
    [] form \in {"deflate", "deflate-raw"} -> {"deflate"}
    [] OTHER -> {}

(* A body is the first MaxBody bytes of what was sent, or of what the Node *)
(* client unpacked it to, however it was split into chunks; cut off by the *)
(* two built-in clients as it came, it is flagged, and a flagged one has   *)
(* that size.  One the Node client hands on unflagged is unpacked if its   *)
(* label is one HTTP has for its form.  Left open are the flag of a body   *)
(* that just fits, and of one cut after it was unpacked or handed over by  *)
(* an injected client, where the code is not what FetchResult says.        *)
BodyRead ==
  \A r \in Request : phase[r] = "answered" =>
    LET a == got[r].answer
        raw == Total(a.chunks)
        packed == kind = "node" /\ a.form # "plain"
    IN /\ got[r].size = Least(MaxBody, IF packed /\ got[r].plain THEN raw * a.ratio ELSE raw)
       /\ kind # "injected" /\ raw > MaxBody => got[r].truncated
       /\ got[r].truncated => got[r].size = MaxBody
       /\ packed /\ ~got[r].truncated /\ a.label \in LabelsOf(a.form) => got[r].plain
=============================================================================
