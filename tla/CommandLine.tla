---------------------------- MODULE CommandLine -----------------------------
(***************************************************************************)
(* The command line, src/src/cli/args.ts and src/src/cli/index.ts: the     *)
(* loop of parseArgs, one action per kind of argument, then main up to the *)
(* exit code.                                                              *)
(*                                                                         *)
(* An argument is a pair <<name, inline>>: a flag under its long name (the *)
(* short and the legacy spellings are the same argument) with what follows *)
(* `=` or None, or a bare word.  What a word means to a flag is a matter   *)
(* of a few sets.                                                          *)
(***************************************************************************)
EXTENDS ScanCall

CONSTANTS
  Argvs,      \* the command lines, each a sequence of arguments
  None,
  Formats,    \* the words --format takes
  Seconds,    \* the words --timeout takes: positive numbers
  Counts,     \* the words --concurrency takes: 1..256
  YesWords, NoWords,  \* the boolean words of --cache
  HeaderLines,        \* the words parseHeaderList can split
  UrlWords,           \* the words isAbsoluteUrl accepts
  Listed              \* Listed[w]: splitList(w)

Value == {"--format", "--useragent", "--proxy", "--cookie", "--timeout",
          "--concurrency", "--output", "--cache-dir", "--only-plugins",
          "--exclude-plugins"}
Switch == {"--json", "--debug", "--no-random-tls", "--no-tls", "--list-plugins"}
Flag == Value \cup Switch \cup {"--help", "--version", "--header", "--no-cache",
                                "--cache", "--", "--unknown"}
Retired == {"serve", "mcp", "completion"}

\* A bare word has no inline value, and the words --cache takes are none of
\* the flags.
ASSUME CliAssumption ==
  /\ Argvs \subseteq Seq((DOMAIN Listed) \X ((DOMAIN Listed) \cup {None}))
  /\ \A line \in Argvs : \A n \in DOMAIN line : line[n][1] \notin Flag => line[n][2] = None
  /\ NoWords \cap (Flag \cup {"", None}) = {}
  /\ \A w \in DOMAIN Listed : Listed[w] \in Seq(STRING)

VARIABLES
  argv, index,
  parsed,    \* ParsedArgs, as far as it has been filled
  cli,       \* "parsing", "main", "scan" or "exited"
  exitCode

cliVars == <<argv, index, parsed, cli, exitCode>>

IsFlag(a) == a[1] \in Flag
Here == argv[index]
Next1 == argv[index + 1]

Empty ==
  [command |-> "scan", url |-> None, values |-> [f \in Value |-> None],
   switches |-> {}, headers |-> <<>>, cache |-> TRUE, writeCache |-> TRUE]

\* parseArgs up to its loop.
CliInit ==
  /\ argv \in Argvs
  /\ cli = "parsing" /\ exitCode = 0
  /\ index = IF argv # <<>> /\ argv[1] = <<"scan", None>> THEN 2 ELSE 1
  /\ parsed = IF argv = <<>> \/ argv[1] = <<"help", None>>
              THEN [Empty EXCEPT !.command = "help"]
              ELSE IF argv[1] = <<"version", None>>
              THEN [Empty EXCEPT !.command = "version"] ELSE Empty
-----------------------------------------------------------------------------
Goto(phase, i) == cli' = phase /\ index' = i
Fail == cli' = "exited" /\ exitCode' = 1 /\ UNCHANGED <<argv, index, parsed>>

Looping ==
  /\ cli = "parsing" /\ index <= Len(argv) /\ parsed.command = "scan"
  /\ ~(index = 1 /\ Here[1] \in Retired)

\* takeValue: the value after `=`, or the next argument whatever it looks like.
HasValue == Here[2] # None \/ index < Len(argv)
Taken == IF Here[2] # None THEN Here[2] ELSE Next1[1]
After == IF Here[2] # None THEN index + 1 ELSE index + 2

Accepts(flag, word) ==
  CASE flag = "--format" -> word \in Formats
    [] flag = "--timeout" -> word \in Seconds
    [] flag = "--concurrency" -> word \in Counts
    [] OTHER -> TRUE

ValueFlag ==
  /\ Looping /\ Here[1] \in Value /\ HasValue /\ Accepts(Here[1], Taken)
  /\ parsed' = [parsed EXCEPT !.values[Here[1]] = Taken]
  /\ Goto("parsing", After)
  /\ UNCHANGED <<argv, exitCode>>

Header ==
  /\ Looping /\ Here[1] = "--header" /\ HasValue
  /\ parsed' = [parsed EXCEPT !.headers = Append(@, Taken)]
  /\ Goto("parsing", After)
  /\ UNCHANGED <<argv, exitCode>>

\* A switch takes no value: what follows `=` is not looked at.
SwitchFlag ==
  /\ Looping /\ Here[1] \in Switch
  /\ parsed' = [parsed EXCEPT !.switches = @ \cup {Here[1]}]
  /\ Goto("parsing", index + 1)
  /\ UNCHANGED <<argv, exitCode>>

NoCache ==
  /\ Looping /\ Here[1] = "--no-cache"
  /\ parsed' = [parsed EXCEPT !.cache = FALSE]
  /\ Goto("parsing", index + 1)
  /\ UNCHANGED <<argv, exitCode>>

\* --cache and its optional word: inline, or the next argument that is no flag.
Lends == index < Len(argv) /\ ~IsFlag(Next1)
CacheWord == IF Here[2] # None THEN Here[2] ELSE IF Lends THEN Next1[1] ELSE ""
AfterCache == IF Here[2] = None /\ Lends THEN index + 2 ELSE index + 1

\* Bug: a yes is not taken for one after --no-cache.
CacheFlagSticky ==
  /\ Looping /\ Here[1] = "--cache" /\ CacheWord \in YesWords \cup NoWords \cup {""}
  /\ parsed' = [parsed EXCEPT !.cache = @ /\ CacheWord \notin NoWords, !.writeCache = TRUE]
  /\ Goto("parsing", AfterCache)
  /\ UNCHANGED <<argv, exitCode>>

\* applyCacheWord: reading follows the word, writing is switched on.
CacheFlag ==
  /\ Looping /\ Here[1] = "--cache" /\ CacheWord \in YesWords \cup NoWords \cup {""}
  /\ parsed' = [parsed EXCEPT !.cache = CacheWord \notin NoWords, !.writeCache = TRUE]
  /\ Goto("parsing", AfterCache)
  /\ UNCHANGED <<argv, exitCode>>

\* `--`: the first of the rest is the URL unless there is one; the others are
\* dropped without a word.
EndOfFlags ==
  /\ Looping /\ Here = <<"--", None>>
  /\ parsed' = [parsed EXCEPT !.url = IF @ = None /\ index < Len(argv) THEN Next1[1] ELSE @]
  /\ Goto("main", Len(argv) + 1)
  /\ UNCHANGED <<argv, exitCode>>

Positional ==
  /\ Looping /\ ~IsFlag(Here) /\ parsed.url = None
  /\ parsed' = [parsed EXCEPT !.url = Here[1]]
  /\ Goto("parsing", index + 1)
  /\ UNCHANGED <<argv, exitCode>>

\* -h and -v end the loop wherever they stand; ParsedArgs says so.
Inform ==
  /\ Looping /\ Here[1] \in {"--help", "--version"}
  /\ parsed' = [parsed EXCEPT !.command = IF Here[1] = "--help" THEN "help" ELSE "version"]
  /\ UNCHANGED <<argv, index, cli, exitCode>>

\* Every CliError of parseArgs: a retired subcommand, a flag that is unknown,
\* lacks its value or has a bad one, and a second URL.
Misused ==
  \/ index = 1 /\ Here[1] \in Retired
  \/ Here[1] = "--unknown"
  \/ Here[1] = "--" /\ Here[2] # None
  \/ Here[1] \in Value \cup {"--header"} /\ ~HasValue
  \/ Here[1] \in Value /\ HasValue /\ ~Accepts(Here[1], Taken)
  \/ Here[1] = "--cache" /\ CacheWord \notin YesWords \cup NoWords \cup {""}
  \/ ~IsFlag(Here) /\ parsed.url # None

ParseError ==
  /\ cli = "parsing" /\ index <= Len(argv) /\ parsed.command = "scan" /\ Misused
  /\ Fail

Parsed ==
  /\ cli = "parsing" /\ (index > Len(argv) \/ parsed.command # "scan")
  /\ Goto("main", index)
  /\ UNCHANGED <<argv, parsed, exitCode>>
-----------------------------------------------------------------------------
Informational == parsed.command # "scan" \/ "--list-plugins" \in parsed.switches
NoUrl == parsed.url \in {None, ""}
BadHeaders == \E n \in DOMAIN parsed.headers : parsed.headers[n] \notin HeaderLines

\* help, version and --list-plugins come before the URL is looked at.
MainInforms ==
  /\ cli = "main" /\ Informational
  /\ cli' = "exited" /\ UNCHANGED <<argv, index, parsed, exitCode, scanVars>>

MainRefuses ==
  /\ cli = "main" /\ ~Informational /\ (NoUrl \/ BadHeaders)
  /\ Fail /\ UNCHANGED scanVars

List(w) == IF w = None THEN <<>> ELSE Listed[w]

\* The options main hands to scan: there is no way to turn writing off.
MainScans ==
  /\ cli = "main" /\ ~Informational /\ ~NoUrl /\ ~BadHeaders
  /\ cli' = "scan" /\ call' = "asked"
  /\ options' = [DefaultOptions EXCEPT
       !.url = IF parsed.url \in UrlWords THEN "absolute" ELSE "bad",
       !.onlyPlugins = List(parsed.values["--only-plugins"]),
       !.excludePlugins = List(parsed.values["--exclude-plugins"]),
       !.cache = parsed.cache, !.writeCache = parsed.writeCache]
  /\ UNCHANGED <<argv, index, parsed, exitCode, mine, used, store, client>>

MainExits ==
  /\ cli = "scan" /\ call \in {"returned", "threw"}
  /\ cli' = "exited" /\ exitCode' = IF call = "threw" THEN 1 ELSE 0
  /\ UNCHANGED <<argv, index, parsed, scanVars>>

CliNext ==
  \/ /\ \/ ValueFlag \/ Header \/ SwitchFlag \/ NoCache \/ CacheFlag \/ EndOfFlags
        \/ Positional \/ Inform \/ ParseError \/ Parsed
     /\ UNCHANGED scanVars
  \/ MainInforms \/ MainRefuses \/ MainScans \/ MainExits
  \/ cli = "scan" /\ ScanNext /\ UNCHANGED cliVars
-----------------------------------------------------------------------------
(* Whether a scan may answer from the cache follows the last argument that *)
(* speaks of it, wherever it stands: the arguments are read as a person    *)
(* reads them, a word after --cache belonging to it, a word after a flag   *)
(* that wants a value being that value, whatever it looks like.  The scan  *)
(* always saves what it downloads.                                         *)
Wants(line, n) == line[n][1] \in Value \cup {"--header"} /\ line[n][2] = None
Starts(line) ==
  LET starts[n \in 1..Len(line)] == n = 1 \/ ~starts[n - 1] \/ ~Wants(line, n - 1)
  IN  starts
ReadAsFlag(line) ==
  {n \in 1..Len(line) : Starts(line)[n] /\ ~\E m \in 1..(n - 1) :
                          Starts(line)[m] /\ line[m] = <<"--", None>>}
SpeaksOfCache(line) == {n \in ReadAsFlag(line) : line[n][1] \in {"--cache", "--no-cache"}}
SaysNo(line, n) ==
  \/ line[n][1] = "--no-cache"
  \/ line[n][2] \in NoWords
  \/ line[n][2] = None /\ n < Len(line) /\ line[n + 1] \in {<<w, None>> : w \in NoWords}

\* What the last of the arguments at the places in said says.
Allows(line, said) ==
  said = {} \/ ~SaysNo(line, CHOOSE n \in said : \A m \in said : m <= n)

CacheFlagsHonoured ==
  (cli \in {"scan", "exited"} /\ call \notin {"idle", "asked", "threw"}) =>
    /\ store.readable = (HasFilesystem /\ Allows(argv, SpeaksOfCache(argv)))
    /\ store.writable = HasFilesystem
=============================================================================
