------------------------------- MODULE FrontierMC -------------------------------
(* A small instance of Frontier for TLC. *)
EXTENDS Frontier, TLC

CONSTANTS r1, r2

MCCasts ==
  [parts : {3}, asks : {3}, may : {{"claims"}, {"lens", "forget"}}]
  \cup [parts : {4}, asks : {2}, may : {{}}]
MCWatches ==
  LET \* two queries at one source, with room for one
      room == [queries |-> {1, 2}, regions |-> {}, sources |-> {"arxiv"}, ttl |-> "arxiv" :> 1,
               floor |-> "arxiv" :> 0, followed |-> <<2, "arxiv">>, publishes |-> FALSE,
               mishaps |-> 1, wishes |-> 2, lag |-> 0]
      \* one query, and what is published
      news == [room EXCEPT !.queries = {1}, !.followed = <<1, "arxiv">>, !.publishes = TRUE, !.wishes = 3, !.lag = 1,
                 !.mishaps = 2]
      \* a region's query at a fast and at a slow source
      slow == [room EXCEPT !.queries = {1}, !.regions = {r1},
               !.sources = {"arxiv", "openalex"}, !.ttl = "arxiv" :> 1 @@ "openalex" :> 2,
               !.floor = "arxiv" :> 0 @@ "openalex" :> 3, !.followed = <<1, "openalex">>]
      \* a query that two regions and the user claim
      votes == [news EXCEPT !.regions = {r1, r2}, !.publishes = FALSE, !.mishaps = 0, !.wishes = 4, !.lag = 0]
  IN  {room, news, slow, votes}

MCTiers == 0 :> 1 @@ 1 :> 3

\* Stores of a build that knew none of today's columns, of one before the first drop, of
\* the last but one, and of today.
Store(c, k, o) == [columns |-> c, keys |-> [r \in Rows |-> k], owed |-> o]
MCStores ==
  {Store({"lam", "cost_usd", "read_status"}, "absent", Debts),
   Store({"region_key", "lam"}, "old", {}),
   Store({"region_key", "read_status"}, "new", {"arrival"}),
   Store({"region_key"}, "none", {})}
=============================================================================
