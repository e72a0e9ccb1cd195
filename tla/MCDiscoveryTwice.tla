-------------------------- MODULE MCDiscoveryTwice --------------------------
(* Two pages that each lead to a third one with a script of its own, and a  *)
(* page budget of three: whichever is served first wins the last slot.      *)
EXTENDS DiscoveryTwice

MCOrigin == {"site"}
MCFile == {"index", "p1", "p2", "q1", "q2", "one.js", "two.js", "any.map"}
MCMapOf == [f \in MCFile |-> "any.map"]
MCPlugin == {"CLI", "FallbackEmp", "HTMLScriptPlugin", "Unknown", "HTMLPivotPlugin"}

Root(file) == [origin |-> "site", dir |-> <<>>, file |-> file]
MCStart == Root("index")

Entered(u) == [tag |-> "page", by |-> "HTMLPivotPlugin", awaits |-> FALSE,
               url |-> u, html |-> TRUE]
ScriptTag(u) == [tag |-> "url", by |-> "HTMLScriptPlugin", awaits |-> FALSE, url |-> u]

Serve(u, kind, finds) ==
  u :> [answers |-> {"ok"}, final |-> u, kind |-> kind, empty |-> FALSE,
        announcesMap |-> TRUE, finds |-> finds]

Fork ==
  Serve(MCStart, "html", <<Entered(Root("p1")), Entered(Root("p2"))>>)
  @@ Serve(Root("p1"), "html", <<Entered(Root("q1"))>>)
  @@ Serve(Root("p2"), "html", <<Entered(Root("q2"))>>)
  @@ Serve(Root("q1"), "html", <<ScriptTag(Root("one.js"))>>)
  @@ Serve(Root("q2"), "html", <<ScriptTag(Root("two.js"))>>)
  @@ Serve(Root("one.js"), "js", <<>>)
  @@ Serve(Root("two.js"), "js", <<>>)

MCSites == {Fork}
MCFinding == UNION {ToSet(Fork[u].finds) : u \in DOMAIN Fork}
=============================================================================
