------------------------------ MODULE Findings ------------------------------
(***************************************************************************)
(* What plugins share: the ResultBuilder of src/src/plugins/helpers.ts,    *)
(* and the insertion-ordered Map of JavaScript they collect ids in.  Lists *)
(* keep the order of discovery, since that order decides which pages and   *)
(* scripts are queued first.                                               *)
(***************************************************************************)
EXTENDS Integers, Sequences, FiniteSets, SequencesExt

NewBuilder == [urls |-> <<>>, probeTargets |-> <<>>, publicPaths |-> <<>>, intermediates |-> <<>>]

Include(list, x) == IF x \in ToSet(list) THEN list ELSE Append(list, x)

AddAbsolute(b, url) == [b EXCEPT !.urls = Include(@, url)]
AddProbe(b, fragment) == [b EXCEPT !.probeTargets = Include(@, fragment)]
AddPublicPath(b, path) == [b EXCEPT !.publicPaths = Include(@, path)]
AddIntermediate(b, page) == [b EXCEPT !.intermediates = Include(@, page)]

AddProbes(b, fragments) == FoldLeft(AddProbe, b, fragments)
AddAbsolutes(b, urls) == FoldLeft(AddAbsolute, b, urls)

(* Maps: sequences of <<key, value>>, one per key, oldest first. *)

HasKey(map, key) == \E n \in DOMAIN map : map[n][1] = key
Get(map, key, default) ==
  IF HasKey(map, key) THEN map[CHOOSE n \in DOMAIN map : map[n][1] = key][2] ELSE default

\* set only where has is false: the first value of a key stays.
Keep(map, pair) == IF HasKey(map, pair[1]) THEN map ELSE Append(map, pair)

\* set: a later value replaces the earlier one, at its place.
SetKey(map, pair) ==
  IF HasKey(map, pair[1])
  THEN [n \in DOMAIN map |-> IF map[n][1] = pair[1] THEN pair ELSE map[n]]
  ELSE Append(map, pair)

FirstWins(map, pairs) == FoldLeft(Keep, map, pairs)
LastWins(map, pairs) == FoldLeft(SetKey, map, pairs)
=============================================================================
