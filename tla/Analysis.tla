------------------------------ MODULE Analysis ------------------------------
(***************************************************************************)
(* What a scan does with one answer after another: the exchange that       *)
(* brings it (Exchange.tla), the plugins that read it (Dispatch.tla), two  *)
(* of them alone (NextJs.tla, Embedded.tla), and the source map it comes   *)
(* with (SourceMaps.tla).  The five share no state, so a behaviour         *)
(* exercises one of them, chosen at the start.                             *)
(***************************************************************************)
EXTENDS Exchange, Dispatch, SourceMaps, Embedded, NextJs

VARIABLE part

vars == <<part, exchangeVars, dispatchVars, mapVars, embeddedVars, nextVars>>

\* The parts that are not exercised.
Idle ==
  /\ part # "exchange" => /\ kind = "browser" /\ jar = <<>> /\ now = 1 /\ given = <<>>
                          /\ phase = [r \in Request |-> "new"]
                          /\ sent = [r \in Request |-> None] /\ got = sent
  /\ part # "maps" => raw = Absent /\ script = <<0>> /\ sm = Absent /\ files = Absent
  /\ part # "embedded" => page = <<>> /\ cut = NotYet
  /\ part # "routes" => served = Unread /\ told = Unread

Init ==
  /\ part \in {"exchange", "plugins", "maps", "embedded", "routes"}
  /\ Idle /\ DispatchInit
  /\ part = "exchange" => ExchangeInit
  /\ part = "maps" => MapInit
  /\ part = "embedded" => EmbeddedInit
  /\ part = "routes" => NextInit

Next ==
  \/ /\ part = "exchange" /\ ExchangeNext
     /\ UNCHANGED <<part, dispatchVars, mapVars, embeddedVars, nextVars>>
  \/ /\ part = "plugins" /\ DispatchNext
     /\ UNCHANGED <<part, exchangeVars, mapVars, embeddedVars, nextVars>>
  \/ /\ part = "maps" /\ MapNext
     /\ UNCHANGED <<part, exchangeVars, dispatchVars, embeddedVars, nextVars>>
  \/ /\ part = "embedded" /\ Extract
     /\ UNCHANGED <<part, exchangeVars, dispatchVars, mapVars, nextVars>>
  \/ /\ part = "routes" /\ ReadServed
     /\ UNCHANGED <<part, exchangeVars, dispatchVars, mapVars, embeddedVars>>

Spec == Init /\ [][Next]_vars
=============================================================================
