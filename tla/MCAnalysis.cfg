CONSTANTS
 None = None
 Request = {"r1","r2","r3"}
 HostOf <- MCHostOf
 PathOf <- MCPathOf
 OneOff <- MCOneOff
 Extras = {"Accept"}
 Injected <- MCInjected
 Answer <- MCAnswer
 MaxCookies = 2
 MaxBody = 4
 MaxTime = 2
 RawMap <- MCRawMap
 Script <- MCScript
 MAX_LEN = 8
 MAX_DEPTH = 2
 Absent = Absent
 Hex = {"ab12cd","ee99ff","abc"}
 Long = {"ab12cd","ee99ff"}
 Alnum = {"ab12cd","ee99ff","abc","home","main"}
 LikelyHash = {"chunk-2d0b2b28"}
 NoMatch = NoMatch
 MAX_MICRO_APP_ENTRIES = 3
 Doc <- MCDoc
 MaxDocs = 3
 Page <- MCPage
 Path = {"p1","p2"}
 NotYet = NotYet
 Served <- MCServed
 Mark = Mark
 Unread = Unread
SPECIFICATION Spec
CHECK_DEADLOCK FALSE
INVARIANTS CookiesApply BodyRead MappingsSummed SourcesWritten ChunksFollowFirstHash EntriesBounded EmbeddedWhole RoutesUnderBase
