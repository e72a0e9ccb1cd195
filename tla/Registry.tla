------------------------------ MODULE Registry ------------------------------
(***************************************************************************)
(* The plugin registry, src/src/extractor/registry.ts: a list of plugins   *)
(* and an index of them by name, kept apart and changed together.  The     *)
(* operators give the registry a method returns or leaves behind.          *)
(***************************************************************************)
EXTENDS Integers, Sequences

\* plugins is the list, byName the index; a plugin has a name and says which
\* object it is, since two objects may have one name.
NewRegistry == [plugins |-> <<>>, byName |-> <<>>]

Names(r) == DOMAIN r.byName
IndexIn(r, p) == CHOOSE n \in DOMAIN r.plugins : r.plugins[n] = p

\* Bug: a duplicate is put into the index and left out of the list.
RegisterInIndexOnly(r, p) ==
  [plugins |-> IF p.name \in Names(r) THEN r.plugins ELSE Append(r.plugins, p),
   byName |-> [n \in Names(r) \cup {p.name} |-> IF n = p.name THEN p ELSE r.byName[n]]]

\* A duplicate name takes the place of the earlier entry.
Register(r, p) ==
  [plugins |-> IF p.name \in Names(r)
               THEN [r.plugins EXCEPT ![IndexIn(r, r.byName[p.name])] = p]
               ELSE Append(r.plugins, p),
   byName |-> [n \in Names(r) \cup {p.name} |-> IF n = p.name THEN p ELSE r.byName[n]]]

Remove(r, name) ==
  IF name \notin Names(r) THEN r
  ELSE LET at == IndexIn(r, r.byName[name])
       IN [plugins |-> SubSeq(r.plugins, 1, at - 1)
                         \o SubSeq(r.plugins, at + 1, Len(r.plugins)),
           byName |-> [n \in Names(r) \ {name} |-> r.byName[n]]]

\* A registry of the plugins ps in their order, but for those whose name is in
\* out: the loops of select and exclude, and registerAll on a new registry.
RegisteredBut(ps, out) ==
  LET upTo[n \in 0..Len(ps)] ==
        IF n = 0 THEN NewRegistry
        ELSE IF ps[n].name \in out THEN upTo[n - 1] ELSE Register(upTo[n - 1], ps[n])
  IN upTo[Len(ps)]

Registered(ps) == RegisteredBut(ps, {})

\* select throws on a name it does not know.
Unknown(r, names) == \E n \in DOMAIN names : names[n] \notin Names(r)
Select(r, names) == Registered([n \in DOMAIN names |-> r.byName[names[n]]])

Exclude(r, names) == RegisteredBut(r.plugins, {names[n] : n \in DOMAIN names})
=============================================================================
