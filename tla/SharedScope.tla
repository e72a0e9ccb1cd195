---------------------------- MODULE SharedScope -----------------------------
(***************************************************************************)
(* Two scans of one scope at the same time, in one process (the service    *)
(* runs several) or in two: each is a scan of SiteCache.tla with a memory  *)
(* of its own, and they share the files.  Nothing keeps them apart, so one *)
(* reads what the other is writing.                                        *)
(*                                                                         *)
(* SiteCache.tla takes a write to end with the whole file in place, which  *)
(* is so as long as nobody else writes it.  Two scans write the same bytes *)
(* to the files of a page, a map or a source, as the site does not change, *)
(* but their records differ: fs-storage.ts:145 empties meta.json and then  *)
(* writes from its start, so of two saves at once the shorter record may   *)
(* be left with the end of the longer one behind it.  That mixture cannot  *)
(* be parsed, and is CutMeta here.                                         *)
(*                                                                         *)
(* Of two scans that run the names do not matter: the second one begins    *)
(* while the first one runs.                                               *)
(***************************************************************************)
EXTENDS Integers, FiniteSets

CONSTANTS Script, Entry, Links, SlotOf, Maps, Foreign, PathOf,
          Modes, MaxScans, MaxMishaps, NoFile      \* as in SiteCache.tla

VARIABLES
  page, mapFile, source, meta,                     \* the files, shared
  damaged, lost, cutOff, scans, mishaps,           \* of the model, shared
  crashed,                                         \* history: some scan was cut off
  tangled,                                         \* history: the last saves overlapped
  phase1, mode1, aborted1, exact1, task1, body1,   \* the memory of the one scan
  listed1, mapped1, restored1, toReplay1, recorded1, result1,
  phase2, mode2, aborted2, exact2, task2, body2,   \* and of the other
  listed2, mapped2, restored2, toReplay2, recorded2, result2

first == <<phase1, mode1, aborted1, exact1, task1, body1,
           listed1, mapped1, restored1, toReplay1, recorded1, result1>>
second == <<phase2, mode2, aborted2, exact2, task2, body2,
            listed2, mapped2, restored2, toReplay2, recorded2, result2>>
scopeVars == <<page, mapFile, source, meta, damaged, lost, cutOff, scans, mishaps,
               crashed, tangled, first, second>>

One == INSTANCE SiteCache WITH
  phase <- phase1, mode <- mode1, aborted <- aborted1, exact <- exact1, task <- task1,
  body <- body1, listed <- listed1, mapped <- mapped1, recorded <- recorded1, restored <- restored1,
  toReplay <- toReplay1, result <- result1

Other == INSTANCE SiteCache WITH
  phase <- phase2, mode <- mode2, aborted <- aborted2, exact <- exact2, task <- task2,
  body <- body2, listed <- listed2, mapped <- mapped2, recorded <- recorded2, restored <- restored2,
  toReplay <- toReplay2, result <- result2

\* As CacheAssumption of SiteCache.tla.
ASSUME ScopeAssumption ==
  /\ Entry \notin Script
  /\ Links \in [One!Page -> SUBSET Script]
  /\ DOMAIN SlotOf = One!Page
  /\ \A s \in Script : SlotOf[s] # SlotOf[Entry]
  /\ Maps \subseteq Script /\ Foreign \subseteq Script
  /\ DOMAIN PathOf = Script
  /\ Modes \subseteq {"full", "writeonly", "readonly"}
  /\ MaxScans \in Nat /\ MaxMishaps \in Nat
  /\ NoFile \notin One!Content \cup One!Meta \cup One!Report

ScopeInit == One!Init /\ Other!Init /\ crashed = FALSE /\ tangled = FALSE

Quiet == phase1 = "off" /\ phase2 = "off"

\* Whether the bytes of meta.json may come from two saves, after a step of a scan
\* from one phase to another while the other scan is elsewhere.  A scan that opens
\* or changes the file while the other is not saving has it to itself.
Tangles(from, to, elsewhere) ==
  \/ to = "save" /\ elsewhere = "save"
  \/ tangled /\ (to = "save" => from = "save" /\ meta' = meta)

\* Both saves have emptied the file, and now both write.
Mix ==
  /\ tangled /\ "save" \in {phase1, phase2}
  /\ meta' = One!CutMeta
  /\ UNCHANGED <<page, mapFile, source, damaged, lost, cutOff, scans, mishaps,
                 crashed, tangled, first, second>>

\* A save ends, and what it wrote is mixed with, or has been replaced by, what a
\* save wrote that began before this one ended.
SavedOver(elsewhere) ==
  /\ tangled
  /\ meta = One!CutMeta \/ (elsewhere # "save" /\ meta \in One!Meta)
  /\ cutOff' = 0
  /\ UNCHANGED <<page, mapFile, source, meta, damaged, lost, scans, mishaps>>

\* Files are deleted while no scan runs.
ScopeNext ==
  \/ /\ \/ One!Next /\ (lost' # lost => Quiet)
        \/ phase1 = "save" /\ SavedOver(phase2) /\ One!Return(FALSE)
     /\ crashed' = (crashed \/ One!Crash) /\ tangled' = Tangles(phase1, phase1', phase2)
     /\ UNCHANGED second
  \/ /\ \/ Other!Next /\ (phase2 = "off" => phase1 # "off") /\ lost' = lost
        \/ phase2 = "save" /\ SavedOver(phase1) /\ Other!Return(FALSE)
     /\ crashed' = (crashed \/ Other!Crash) /\ tangled' = Tangles(phase2, phase2', phase1)
     /\ UNCHANGED first
  \/ Mix
-----------------------------------------------------------------------------
\* Two scripts with one path write different texts to it, at once or in turn.
Unshared(s) == \A t \in Script : PathOf[t] = PathOf[s] => t = s

(* Two scans at once may read half of what the other writes, but what they *)
(* leave when both are through, no write failed, nobody crashed and no     *)
(* file was lost, is what one of them would leave: metadata whose scripts  *)
(* and restored sources are on disk, source maps that are whole, and whole *)
(* sources, where no two scripts share a path.  The exception is metadata  *)
(* that cannot be parsed, and is left only if the last two saves of the    *)
(* scope overlapped: one that had the file to itself mends it.             *)
ScopeSound ==
  Quiet /\ ~damaged /\ ~lost /\ ~crashed =>
    /\ meta \in One!Meta \cup {NoFile} \/ (tangled /\ meta = One!CutMeta)
    /\ meta \in One!Meta => /\ \A s \in meta.listed : page[SlotOf[s]] # NoFile
                            /\ \A s \in meta.kept : source[PathOf[s]] # NoFile
    /\ \A s \in Script : mapFile[s] \in {NoFile, One!Whole(s)}
    /\ \A s \in Script : Unshared(s) => ~One!IsCut(source[PathOf[s]])
=============================================================================
