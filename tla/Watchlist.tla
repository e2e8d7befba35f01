------------------------------- MODULE Watchlist -------------------------------
(***************************************************************************)
(* The watchlist at work: the user's calls (mcp_server/sitting_tools.py),  *)
(* the reads of regions that ask new questions, the passes that search,    *)
(* and the days that go by.                                                *)
(***************************************************************************)
EXTENDS WatchPass

-----------------------------------------------------------------------------
(* The user's calls *)

\* _watchlist(add=...): the query is committed, then the rail gets its row, then the
\* thread of the first pull is started.  The process may die before the row.
Adds(q) ==
  /\ Wished /\ AddUserQuery(q)
  /\ Stands("first", "idle")
  /\ \/ /\ scheduled' = (scheduled \/ Active(q)')
        /\ passes' = IF Active(q)' THEN [passes EXCEPT !["first"] = [Resting EXCEPT !.step = "starting", !.of = <<q, "none">>]]
                   ELSE passes
        /\ NoMishap
     \/ Mishap /\ UNCHANGED <<scheduled, passes>>
  /\ fresh' = FALSE
  /\ UNCHANGED <<watch, reader, pulled, item, lapsed>>

\* The thread: run_frontier_execute(query_ids=...).
FirstBegins ==
  /\ Stands("first", "starting")
  /\ LET due == {p \in Pairs : QueryOf(p) = QueryOf(passes["first"].of) /\ Due(p)}
     IN  passes' = [passes EXCEPT !["first"] =
           IF due = {} THEN Resting
           ELSE [Resting EXCEPT !.step = "next", !.rows = [p \in due |-> pulled[p]]]]
  /\ NoMishap
  /\ UNCHANGED <<watch, queries, reader, pulled, item, scheduled, fresh, lapsed, wishes>>

Drops(q) ==
  /\ Wished /\ Retire(q)
  /\ NoMishap
  /\ UNCHANGED <<watch, reader, pulled, item, passes, scheduled, fresh, lapsed>>

BringsBack(q) ==
  /\ Wished /\ Unretire(q)
  /\ fresh' = FALSE /\ NoMishap
  /\ UNCHANGED <<watch, reader, pulled, item, passes, scheduled, lapsed>>

-----------------------------------------------------------------------------
(* Reads of regions: by the rail, between its passes, or by the tool *)

StartsRead(g, by) ==
  /\ Wished /\ ReadBegins(g, by)
  /\ by = "rail" => Stands("rail", "idle")
  /\ NoMishap
  /\ UNCHANGED <<pulled, item, passes, scheduled, fresh, lapsed>>

\* Only the rail's own read asks the worker for a pass over what is new.
EndsRead ==
  /\ reader /= NoRead
  /\ \E keep \in SUBSET reader.shown : \E drop \in SUBSET (reader.shown \ keep) : \E new \in SUBSET Queries :
       /\ Answered(keep, drop, new)
       /\ scheduled' = (scheduled \/ (reader.by = "rail" /\ Unseen(new) /= {}))
  /\ fresh' = FALSE /\ NoMishap
  /\ UNCHANGED <<pulled, item, passes, lapsed, wishes>>

LosesRead ==
  /\ ReadLost /\ Mishap
  /\ UNCHANGED <<pulled, item, passes, scheduled, fresh, lapsed, wishes>>

-----------------------------------------------------------------------------
(* Days *)

Running(d) == ~Stands(d, "idle") /\ ~Stands(d, "starting")

\* A day goes by with work for the rail, and no pass of it ends.
Off == ~fresh /\ scheduled /\ \E p \in Pairs : Due(p) /\ WindowOk(p, pulled[p])

\* A pair is overdue because its query is retired, or its window becomes too wide by its
\* own tier or because the machine is off.
LeftAlone(p) ==
  LET older == Older(pulled[p])
  IN  \/ ~Active(QueryOf(p)) /\ older > TtlOf(p)
      \/ (Slow(p) \/ Off) /\ WindowOk(p, pulled[p]) /\ ~WindowOk(p, older)

\* Hourly passes: at least one ends in a day with work for it, unless the machine is off.
Tick ==
  /\ item.at = "out" /\ ~item.indexed => item.age < Overlap
  /\ \A d \in Executors : Running(d) => passes[d].lag < watch.lag
  /\ IF Off THEN Mishap ELSE NoMishap
  /\ pulled' = [p \in Pairs |-> Older(pulled[p])]
  /\ item' = IF item.at \in {"out", "omitted"} THEN [item EXCEPT !.age = Older(@)] ELSE item
  /\ passes' = [d \in Executors |-> IF Running(d) THEN [passes[d] EXCEPT !.lag = @ + 1] ELSE passes[d]]
  /\ fresh' = FALSE
  /\ lapsed' = (lapsed \/ LeftAlone(watch.followed))
  /\ UNCHANGED <<watch, queries, reader, scheduled, wishes>>

\* The artifact is published at its source, while the pair is being pulled, ...
Publishes ==
  /\ watch.publishes /\ item.at = "none" /\ pulled[watch.followed] /= Never
  /\ item' = [at |-> "out", age |-> 0, indexed |-> FALSE]
  /\ NoMishap
  /\ UNCHANGED <<watch, queries, reader, pulled, passes, scheduled, fresh, lapsed, wishes>>

\* ... and the source's search finds it a little later.
Indexes ==
  /\ item.at = "out" /\ ~item.indexed
  /\ item' = [item EXCEPT !.indexed = TRUE]
  /\ NoMishap
  /\ UNCHANGED <<watch, queries, reader, pulled, passes, scheduled, fresh, lapsed, wishes>>

-----------------------------------------------------------------------------

WatchNext ==
  \/ \E q \in Queries : Adds(q) \/ Drops(q) \/ BringsBack(q)
  \/ \E g \in Voters, by \in {"rail", "tool"} : StartsRead(g, by)
  \/ EndsRead \/ LosesRead
  \/ RailBegins \/ FirstBegins
  \/ \E d \in Executors : Passes(d) \/ SearchFails(d) \/ PassDies(d)
  \/ Tick \/ Publishes \/ Indexes

\* The rail's worker, the thread and the model go on; days pass; sources index.
WatchFairness ==
  /\ WF_watchVars(RailBegins) /\ WF_watchVars(FirstBegins) /\ WF_watchVars(EndsRead)
  /\ \A d \in Executors : WF_watchVars(Passes(d))
  /\ WF_watchVars(Tick) /\ WF_watchVars(Indexes)

-----------------------------------------------------------------------------

\* "One generator's drop can't slow a query another generator just kept"
\* (frontier_queries.py:187), nor can the user's claim, which has no vote, hide what the
\* regions say: whatever verdicts and additions come, and however old the list the model
\* was shown, a query runs at the speed of the region that wants it most.
SpeedVoted ==
  \A q \in Queries : queries[q].speed = Fewest(Votes(queries[q].claims))

\* "Stamp ONLY on success" (frontier_execute.py): failures, deaths, two passes over one
\* pair and a pass that runs past midnight leave no gap between what a pair has been asked
\* for and what it will be: an artifact not yet stored is still in the next window, unless
\* an answer that had it within its window left it out and was stamped: one page is asked
\* for and its badly matching part is dropped for good (omitted).
NothingSkipped ==
  item.at = "out" => item.age <= Since(watch.followed, pulled[watch.followed])

\* A stamp is no older than the pass that wrote it.
JustPulled == pulled[watch.followed] \in 0..watch.lag

\* "Stalest first, so the request budget delays everyone in turn rather than starving ..."
\* (frontier_execute.py:270): a query that is on the list for good is searched again and
\* again, though there is room for fewer requests than pairs.  Not so where the pair was
\* left alone, or by its own tier, till its window was too wide (lapsed).
SearchedAgain ==
  <>[](scheduled /\ Active(QueryOf(watch.followed)) /\ ~lapsed) => []<>JustPulled
=============================================================================
