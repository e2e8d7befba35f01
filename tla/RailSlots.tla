------------------------------- MODULE RailSlots -------------------------------
(***************************************************************************)
(* What the rail worker promises its users' homes, with no database, no    *)
(* worker lifetimes and no clock: a home runs at most one rail at a time,  *)
(* at most MaxChildren homes are busy, and a rail runs only once it has    *)
(* been asked for.  rail_worker.RailWorker: "Schedule rail children        *)
(* globally while keeping each home single-flight."                        *)
(***************************************************************************)
EXTENDS Naturals, FiniteSets

CONSTANTS Homes, Rails, MaxChildren, Idle

VARIABLES
  asked,      \* [Homes -> SUBSET Rails]: the rails ever activated for a home
  slot        \* [Homes -> Rails \cup {Idle}]: the rail a home is running

vars == <<asked, slot>>

Busy == {h \in Homes : slot[h] # Idle}

Init ==
  /\ asked = [h \in Homes |-> {}]
  /\ slot = [h \in Homes |-> Idle]

Ask(h, r) ==
  /\ asked' = [asked EXCEPT ![h] = @ \cup {r}]
  /\ UNCHANGED slot

Start(h, r) ==
  /\ slot[h] = Idle
  /\ r \in asked[h]
  /\ Cardinality(Busy) < MaxChildren
  /\ slot' = [slot EXCEPT ![h] = r]
  /\ UNCHANGED asked

\* One pass ends, or a worker going down takes several with it.
Stop(S) ==
  /\ slot' = [h \in Homes |-> IF h \in S THEN Idle ELSE slot[h]]
  /\ UNCHANGED asked

Next ==
  \/ \E h \in Homes, r \in Rails : Ask(h, r) \/ Start(h, r)
  \/ \E S \in SUBSET Busy : Stop(S)

Spec == Init /\ [][Next]_vars
=============================================================================
