------------------------------- MODULE WatchPass -------------------------------
(***************************************************************************)
(* The watchlist as a table (pipeline/kb/frontier_queries.py): standing    *)
(* queries, who claims each of them, and how slowly each is run.  A region *)
(* that is read claims queries and votes on those it claims; the user      *)
(* claims without a vote, and alone may retire and bring back.  Texts, who *)
(* was first, the lane of a query and its quota are left out.              *)
(*                                                                         *)
(* And running it (pipeline/kb/frontier_execute.py): a pass asks           *)
(* the sources for what is new since each (query, source) pair was last    *)
(* pulled.  The hourly rail runs all of it; the thread that the watchlist  *)
(* tool starts for a query just added runs that one.  A tick is a day:     *)
(* stamps are kept as ages.  One artifact of one pair is followed.         *)
(***************************************************************************)
EXTENDS Integers, FiniteSets, FiniteSetsExt, Functions

CONSTANTS
  MaxMisses,    \* bound: drops in a row are counted up to here, one for each tier
  Watches,      \* records [queries, regions, sources, ttl, floor, followed, publishes,
                \* troubles, asks, lag]
  Tiers,        \* DECAY_TIERS: misses -> how many times slower
  MaxRequests,  \* MAX_REQUESTS_PER_RUN
  MaxWindow,    \* MAX_WINDOW_DAYS
  Overlap,      \* OVERLAP_HOURS, in ticks
  FirstPull     \* FIRST_PULL_DAYS

ASSUME WatchPassAssumption ==
  /\ MaxMisses \in Nat
  /\ Tiers \in [0..MaxMisses -> Nat \ {0}]
  /\ {MaxRequests, Overlap} \subseteq Nat \ {0}
  /\ {MaxWindow, FirstPull} \subseteq Nat
  /\ \A w \in Watches : /\ w.floor \in [w.sources -> Nat] /\ w.lag \in Nat
                       /\ w.followed \in w.queries \X w.sources

VARIABLES
  watch,        \* what this behaviour is about, one of Watches
  queries,      \* frontier_queries with the claims of frontier_query_generators
  reader,       \* a read of a region that waits for the model
  pulled,       \* frontier_query_sources.last_pulled_at, as an age
  item,         \* an artifact of the followed pair: where it is, and how old ("omitted":
                \* out, and left out of an answer whose pull was stamped)
  passes,       \* the passes that are going on
  scheduled,    \* rail_jobs has a row for frontier_execute
  fresh,        \* a pass of the rail has ended since the last tick
  lapsed,       \* history: the followed pair was left alone, and is still not pulled
  mishaps, wishes

watchVars == <<watch, queries, reader, pulled, item, passes, scheduled, fresh, lapsed, mishaps, wishes>>

-----------------------------------------------------------------------------
(* The table *)

Owner == "user"
Voters == watch.regions         \* the generators "sitting:...", which have a vote
Generators == Voters \cup {Owner}
Queries == watch.queries

None == -1
NoQuery(c) ==
  [status |-> "none", speed |-> 0, claims |-> [g \in c.regions \cup {Owner} |-> None]]
NoRead == [of |-> None, by |-> "nobody", shown |-> {}]

Active(q) == queries[q].status = "active"
ActiveOf(g) == {q \in Queries : Active(q) /\ queries[q].claims[g] /= None}

Fewest(S) == IF S = {} THEN 0 ELSE Min(S)

\* The votes on a query.
Votes(claims) == {claims[g] : g \in {g \in Voters : claims[g] /= None}}

\* A slip: the user's claim has a vote too.
Sync_User(r) == [r EXCEPT !.speed = Fewest({r.claims[g] : g \in Generators} \ {None})]

\* _sync_speed: a query is as slow as the region that dropped it least.
Sync(r) == [r EXCEPT !.speed = Fewest(Votes(r.claims))]

\* upsert_queries, one query: what was retired stays so.
Upserted(r, g) ==
  Sync([r EXCEPT !.status = IF @ = "none" THEN "active" ELSE @, !.claims[g] = 0])

\* apply_verdicts, one verdict: it counts for a region with a claim, on a retired query too.
Judged(r, g, drop) ==
  IF r.claims[g] = None THEN r
  ELSE Sync([r EXCEPT !.claims[g] = IF drop THEN Min({MaxMisses, @ + 1}) ELSE 0])

-----------------------------------------------------------------------------
(* A read of a region: what is shown to the model is read before the call. *)

ReadBegins(g, by) ==
  /\ reader = NoRead
  /\ reader' = [of |-> g, by |-> by, shown |-> ActiveOf(g)]
  /\ UNCHANGED <<watch, queries>>

\* Its answer: some of what was shown is kept, some dropped, and some queries are asked
\* for anew.  No answer at all is a failed read.
Answered(keep, drop, new) ==
  LET g == reader.of
  IN  /\ keep \cup drop \cup new /= {}
      /\ new \cap (keep \cup drop) = {}
      /\ queries' = [q \in Queries |->
           IF q \in new THEN Upserted(queries[q], g)
           ELSE IF q \in keep \cup drop THEN Judged(queries[q], g, q \in drop)
           ELSE queries[q]]
      /\ reader' = NoRead /\ UNCHANGED watch

ReadLost == reader /= NoRead /\ reader' = NoRead /\ UNCHANGED <<watch, queries>>

\* What upsert_queries counts as new.
Unseen(S) == {q \in S : queries[q].status = "none"}

-----------------------------------------------------------------------------
(* The user *)

AddUserQuery(q) == queries' = [queries EXCEPT ![q] = Upserted(@, Owner)]

Retire(q) == Active(q) /\ queries' = [queries EXCEPT ![q].status = "retired"]

Unretire(q) ==
  queries[q].status = "retired" /\ queries' = [queries EXCEPT ![q].status = "active"]

-----------------------------------------------------------------------------
(* The pairs of a query and a source *)

Executors == {"rail", "first"}
Pairs == Queries \X watch.sources
QueryOf(p) == p[1]
SourceOf(p) == p[2]

Never == None
NoPair == <<0, "none">>
Resting == [step |-> "idle", rows |-> <<>>, lag |-> 0, requests |-> 0,
         of |-> NoPair, found |-> "none"]
Stands(d, step) == passes[d].step = step

Older(age) == IF age = Never THEN Never ELSE Min({MaxWindow, age + 1})
\* Bounds: failures, deaths and days without a pass; what users and models ask for.
Mishap == mishaps < watch.mishaps /\ mishaps' = mishaps + 1
NoMishap == UNCHANGED mishaps
Wished == wishes < watch.wishes /\ wishes' = wishes + 1

WatchInit ==
  /\ watch \in Watches
  /\ queries = [q \in watch.queries |-> NoQuery(watch)]
  /\ reader = NoRead
  /\ pulled = [p \in Pairs |-> Never]
  /\ item = [at |-> "none", age |-> 0, indexed |-> FALSE]
  /\ passes = [d \in Executors |-> Resting]
  /\ scheduled = FALSE /\ fresh = FALSE /\ lapsed = FALSE /\ mishaps = 0 /\ wishes = 0

-----------------------------------------------------------------------------
(* When a pair is asked for, and how far back *)

TtlOf(p) == watch.ttl[SourceOf(p)] * Tiers[queries[QueryOf(p)].speed]

\* is_due
Due(p) == Active(QueryOf(p)) /\ (pulled[p] = Never \/ pulled[p] >= TtlOf(p))

\* since_for: how many ticks back from the last pull.
SinceFor(age) == IF age = Never THEN FirstPull ELSE age + Overlap

\* _lookback_floor: a source that indexes late is always asked for so many ticks.
Since(p, age) == Max({watch.floor[SourceOf(p)], SinceFor(age)})

\* window_ok
WindowOk(p, age) == Since(p, age) <= MaxWindow

\* Its own tier takes a pair past the widest window before it is due.
Slow(p) == TtlOf(p) + Overlap > MaxWindow

-----------------------------------------------------------------------------
(* A pass *)

\* _run begins: the due pairs of the queries in scope, with their rows and one clock.
Begins(d, scope) ==
  LET due == {p \in Pairs : QueryOf(p) \in scope /\ Due(p)}
  IN  /\ Stands(d, "idle") /\ due /= {}
      /\ passes' = [passes EXCEPT ![d] =
           [Resting EXCEPT !.step = "next", !.rows = [p \in due |-> pulled[p]]]]

\* One rail of a home at a time: not while the rail reads a region.
RailBegins ==
  /\ scheduled /\ reader.by /= "rail"
  /\ Begins("rail", Queries)
  /\ NoMishap
  /\ UNCHANGED <<watch, queries, reader, pulled, item, scheduled, fresh, lapsed, wishes>>

\* The pairs still to be pulled, with the stamps that were read.
Left(d) == DOMAIN passes[d].rows
Without(d, p) == Restrict(passes[d].rows, Left(d) \ {p})

Staleness(d, p) == IF passes[d].rows[p] = Never THEN MaxWindow + 1 ELSE passes[d].rows[p]

\* A slip: the pairs come in the order of the table.
Foremost_Fixed(d, p) == \A o \in Left(d) : QueryOf(p) <= QueryOf(o)

\* due.sort: the stalest first, one never pulled before all.
Foremost(d, p) == \A o \in Left(d) : Staleness(d, o) <= Staleness(d, p)

Moves(d, change) ==
  passes' = [passes EXCEPT ![d] =
    [f \in DOMAIN @ |-> IF f \in DOMAIN change THEN change[f] ELSE @[f]]]

\* The sources with a circuit breaker; GitHub has none.
Breakered == {"arxiv", "openalex"}

\* A pair whose window is refused, or whose source's breaker is open, costs nothing.
Skips(d) ==
  /\ Stands(d, "next") /\ passes[d].requests < MaxRequests
  /\ \E p \in Left(d) :
       /\ Foremost(d, p)
       /\ Moves(d, [rows |-> Without(d, p)])
       /\ IF WindowOk(p, passes[d].rows[p]) THEN SourceOf(p) \in Breakered /\ Mishap ELSE NoMishap
  /\ UNCHANGED <<watch, queries, reader, pulled, item, scheduled, fresh, lapsed, wishes>>

\* The artifact is indexed and within the window.
Found(d, p) ==
  /\ p = watch.followed /\ item.at \in {"out", "omitted"} /\ item.indexed
  /\ item.age <= Since(p, passes[d].rows[p]) + passes[d].lag

\* What the answer does with it: one page of PER_QUERY_LIMIT is asked for, and of that
\* _relevance_cut drops what matches badly, so others may take its place.
Answers(d, p) == IF Found(d, p) THEN {"item", "omitted"} ELSE {"none"}

\* A search that is answered.
Searches(d) ==
  /\ Stands(d, "next") /\ passes[d].requests < MaxRequests
  /\ \E p \in Left(d) :
       /\ Foremost(d, p) /\ WindowOk(p, passes[d].rows[p])
       /\ \E answer \in Answers(d, p) :
            Moves(d, [step |-> "found", of |-> p, rows |-> Without(d, p),
                      requests |-> passes[d].requests + 1, found |-> answer])
  /\ NoMishap
  /\ UNCHANGED <<watch, queries, reader, pulled, item, scheduled, fresh, lapsed, wishes>>

\* A slip: what failed is stamped like the rest.
AfterError_Stamps(d, p) == [pulled EXCEPT ![p] = passes[d].lag]

\* record_pull with stamp=False.
AfterError(d, p) == pulled

\* The source answers with an error, after the request is counted.
SearchFails(d) ==
  /\ Stands(d, "next") /\ passes[d].requests < MaxRequests
  /\ \E p \in Left(d) :
       /\ Foremost(d, p) /\ WindowOk(p, passes[d].rows[p])
       /\ Moves(d, [rows |-> Without(d, p), requests |-> passes[d].requests + 1])
       /\ pulled' = AfterError(d, p)
  /\ Mishap
  /\ UNCHANGED <<watch, queries, reader, item, scheduled, fresh, lapsed, wishes>>

\* upsert_candidate for all that was found, in one commit.
Stores(d) ==
  /\ Stands(d, "found")
  /\ Moves(d, [step |-> "stored"])
  /\ item' = IF passes[d].found = "item" THEN [at |-> "stored", age |-> 0, indexed |-> TRUE] ELSE item
  /\ NoMishap
  /\ UNCHANGED <<watch, queries, reader, pulled, scheduled, fresh, lapsed, wishes>>

\* record_pull, in a commit of its own: the stamp is the clock of the pass's start.  What
\* the answer left out is stamped with the rest.
Stamps(d) ==
  /\ Stands(d, "stored")
  /\ Moves(d, [step |-> "next", of |-> NoPair, found |-> "none"])
  /\ item' = IF passes[d].found = "omitted" /\ item.at = "out"
             THEN [item EXCEPT !.at = "omitted"] ELSE item
  /\ pulled' = [pulled EXCEPT ![passes[d].of] = passes[d].lag]
  /\ lapsed' = (lapsed /\ passes[d].of /= watch.followed)
  /\ NoMishap
  /\ UNCHANGED <<watch, queries, reader, scheduled, fresh, wishes>>

\* The rest is deferred.
Ends(d) ==
  /\ Stands(d, "next") /\ (Left(d) = {} \/ passes[d].requests = MaxRequests)
  /\ passes' = [passes EXCEPT ![d] = Resting]
  /\ fresh' = (fresh \/ d = "rail")
  /\ NoMishap
  /\ UNCHANGED <<watch, queries, reader, pulled, item, scheduled, lapsed, wishes>>

\* The process dies, or the store refuses a write.
PassDies(d) ==
  /\ ~Stands(d, "idle") /\ Mishap
  /\ passes' = [passes EXCEPT ![d] = Resting]
  /\ UNCHANGED <<watch, queries, reader, pulled, item, scheduled, fresh, lapsed, wishes>>

Passes(d) == Skips(d) \/ Searches(d) \/ Stores(d) \/ Stamps(d) \/ Ends(d)
=============================================================================
