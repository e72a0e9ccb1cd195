------------------------------ MODULE SlotPool ------------------------------
(***************************************************************************)
(* What a bound on concurrent requests promises, whatever its machinery:   *)
(* a call asks for a slot, at most Limit calls hold one, a call that asked *)
(* either obtains a slot or is turned away, and a slot that is given back  *)
(* may pass straight to another call.  Semaphore.tla is shown to implement *)
(* this specification.                                                     *)
(***************************************************************************)
EXTENDS Integers, FiniteSets

CONSTANTS Call,    \* the calls that may ask for a slot
          Limit    \* how many slots there are

VARIABLES asking,  \* calls waiting for an answer
          holding  \* calls that own a slot

poolVars == <<asking, holding>>

PoolInit == asking = {} /\ holding = {}

Ask(c) ==
  /\ c \notin asking \cup holding
  /\ asking' = asking \cup {c}
  /\ UNCHANGED holding

\* A free slot goes to a call, which may have been waiting or just arrived.
Grant(c) ==
  /\ c \notin holding
  /\ Cardinality(holding) < Limit
  /\ holding' = holding \cup {c}
  /\ asking' = asking \ {c}

GiveBack(c) ==
  /\ c \in holding
  /\ holding' = holding \ {c}
  /\ UNCHANGED asking

\* The slot changes hands without ever being free.
HandOver(c, d) ==
  /\ c \in holding
  /\ d \in asking
  /\ holding' = (holding \ {c}) \cup {d}
  /\ asking' = asking \ {d}

TurnAway(S) ==
  /\ S \subseteq asking
  /\ asking' = asking \ S
  /\ UNCHANGED holding

PoolNext ==
  \/ \E c \in Call : Ask(c) \/ Grant(c) \/ GiveBack(c)
  \/ \E c, d \in Call : HandOver(c, d)
  \/ \E S \in SUBSET Call : TurnAway(S)

\* Nobody who asks is left without an answer.
PoolAnswers == \A c \in Call : (c \in asking) ~> (c \notin asking)

PoolSafety == PoolInit /\ [][PoolNext]_poolVars
PoolSpec == PoolSafety /\ PoolAnswers
=============================================================================
