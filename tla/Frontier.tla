-------------------------------- MODULE Frontier --------------------------------
(***************************************************************************)
(* What is held and what is missing: parts of a topic are read (Sittings), *)
(* which leaves standing queries, and the watchlist runs these (Watchlist).*)
(* The two meet in a table that the first appends to and the second reads  *)
(* at the start of a pass; Watchlist has the reads of regions as its own   *)
(* steps.  The tables of both lie in one store, which every process brings *)
(* up to date as it opens it (StoreSchema), before it reads or writes one. *)
(* So a behaviour exercises one of the three.                              *)
(***************************************************************************)
EXTENDS Sittings, Watchlist, StoreSchema

VARIABLE side    \* the one this behaviour exercises

frontierVars == <<side, vars, watchVars, schemaVars>>

FrontierInit ==
  /\ side \in {"sittings", "watchlist", "store"}
  /\ Init /\ WatchInit /\ SchemaInit(side = "store")
  /\ side /= "watchlist" => watch = CHOOSE w \in Watches : w.queries = {1}
  /\ side /= "sittings" => cast = CHOOSE c \in Casts : c.may = {}

FrontierNext ==
  \/ side = "sittings" /\ Next /\ UNCHANGED <<side, watchVars, schemaVars>>
  \/ side = "watchlist" /\ WatchNext /\ UNCHANGED <<side, vars, schemaVars>>
  \/ side = "store" /\ SchemaNext /\ UNCHANGED <<side, vars, watchVars>>

\* What is at rest has nothing that fairness could ask of it.
FrontierSpec ==
  FrontierInit /\ [][FrontierNext]_frontierVars /\ Fairness /\ WatchFairness
  /\ SchemaFairness
=============================================================================
