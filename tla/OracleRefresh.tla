---------------------------- MODULE OracleRefresh ----------------------------
(***************************************************************************)
(* Keeping the sources of one confirmed Oracle current and deep:           *)
(*   rail   the scheduled pass (pipeline/kb/oracle_refresh.py): seed the   *)
(*          registry, refresh what is stale, then deepen what is shallow;  *)
(*   loop   the enrichment loop (pipeline/kb/footprint_enrichment.py),     *)
(*          which only deepens;                                            *)
(*   tool   the pull a person asked for (_ingest_oracle of oracles.py),    *)
(*          which takes no lease;                                          *)
(*   forget the end of the subscription (oracles.forget).                  *)
(*                                                                         *)
(* They meet in the registry oracle_sources (oracle_refresh_state.py), in  *)
(* the CatchupLock the first, second and last take, and in one breaker per *)
(* pair.  A pair is an X account or a GitHub login.  Time is counted in    *)
(* slots; what a source published during slot s is one thing per timeline, *)
(* seen by a walk that begins after s.  held is what walks have brought in,*)
(* so far as one can be sure of it: a walk that fails half way may store   *)
(* more.                                                                   *)
(***************************************************************************)
EXTENDS Lease, CircuitBreaker, FiniteSets

CONSTANTS
  Pairs,         \* registered (source_type, source_key)s
  Casts,         \* what is tried together: which pairs there are and whether on "x" or on
                 \* "github", which workers, of which pairs something posted in slot 0 was
                 \* saved before, when it begins, and how many walks, beats
                 \* and processes may go wrong (a bound)
  MaxNow,        \* bound: the slots time runs through
  OVERLAP,       \* slots asked for again behind the last pull
  PAIR_TTL,      \* slots after which a pair is stale
  BREADTH,       \* slots a first refresh of an X pair goes back
  DEEP,          \* slots a backfill goes back to
  CEILING,       \* slots the widest automatic X refresh goes back
  MaxPairs,      \* pulls per refresh
  None

Workers == {"rail", "loop", "tool"}
Heads == {"old", "new"}
Timelines == {"posts", "replies"}
Slots == 0 .. MaxNow

ASSUME RefreshAssumption ==
  /\ Services = Pairs /\ Holders = {"rail", "loop", "forget"}
  /\ {OVERLAP, PAIR_TTL, BREADTH, DEEP, CEILING} \subseteq Nat
  /\ \A c \in Casts : /\ c.kind \in [DOMAIN c.kind -> {"x", "github"}] /\ DOMAIN c.kind \subseteq Pairs
                      /\ c.active \subseteq Workers /\ c.saved \subseteq Pairs /\ c.start \in Slots /\ c.may \in Nat
  /\ MaxNow \in Nat /\ MaxPairs \in Nat /\ None \notin Slots

VARIABLES
  now, troubles, \* environment
  cast,          \* the one of Casts this behaviour is about
  confirmed,     \* the Oracle is in the oracles table
  head,          \* the id its cluster has now; a merge moves it once
  rows,          \* oracle_sources: NoRow, or last_pulled_at, covered_from, cursor_ts
  held,          \* what has been walked and stored
  skipped,       \* history: slots a pull stamped over or claimed without walking them
  overtaken,     \* history: forget ran while an unleased writer had its roster
  at, phase,     \* where each worker is
  todo, task,    \* the rows a pass has listed and not come to; the one under way
  asked,         \* the window of the walk under way, what the tool saw of it and what
                 \* (history) it left behind
  attempted, cut \* pulls a refresh has made; a backfill has been cut off from X

passVars == <<at, phase, todo, task, asked, attempted, cut>>
vars == <<leaseVars, breakerVars, now, troubles, cast, confirmed, head, rows, held,
          skipped, overtaken, passVars>>

NoRow == [last |-> None, from |-> None, cursor |-> None, in |-> FALSE]
NoTask == [head |-> "old", pair |-> None, row |-> NoRow]
NoWindow == [since |-> 0, upto |-> 0, reached |-> None, seen |-> FALSE, left |-> {}]

Present == DOMAIN cast.kind

Least(s) == CHOOSE x \in s : \A y \in s : x <= y
Greatest(s) == CHOOSE x \in s : \A y \in s : x >= y
Floored(slot) == IF slot < 0 THEN 0 ELSE slot
Latest(p) ==
  LET stored == (UNION {held[p][t] : t \in Timelines}) \cup (IF p \in cast.saved THEN {0} ELSE {})
  IN IF stored = {} THEN None ELSE Greatest(stored)

Init ==
  /\ LeaseInit /\ BreakerInit
  /\ cast \in Casts
  /\ now = cast.start /\ troubles = 0
  /\ confirmed = TRUE /\ head = "old"
  /\ rows = [h \in Heads |-> [p \in Pairs |-> NoRow]]
  /\ held = [p \in Pairs |-> [t \in Timelines |-> {}]]
  /\ skipped = [p \in Pairs |-> {}]
  /\ overtaken = FALSE
  /\ at = [w \in Workers |-> "off"]
  /\ phase = [w \in Workers |-> "backfill"]
  /\ todo = [w \in Workers |-> {}]
  /\ task = [w \in Workers |-> NoTask]
  /\ asked = [w \in Workers |-> NoWindow]
  /\ attempted = 0
  /\ cut = [w \in Workers |-> FALSE]

-----------------------------------------------------------------------------
(* The registry, oracle_refresh_state.py *)

\* upsert_source: a row that is there keeps what it knows.
Upserted(row, p) ==
  IF row.in THEN [row EXCEPT !.cursor = IF @ = None THEN Latest(p) ELSE @]
  ELSE [last |-> None, from |-> None, cursor |-> Latest(p), in |-> TRUE]

Later(a, b) == a /= None /\ (b = None \/ a > b)

\* Two rows of one pair: the one that was pulled later, as a whole.
Merged(orphan, here) ==
  IF ~here.in \/ Later(orphan.last, here.last) THEN orphan ELSE here

\* adopt_orphaned_sources: rows left under the id from before a merge.
Adopted(table) ==
  IF head = "old" THEN table
  ELSE [h \in Heads |-> [p \in Pairs |->
          IF h = "old" THEN NoRow
          ELSE IF table["old"][p].in THEN Merged(table["old"][p], table["new"][p])
          ELSE table["new"][p]]]

\* seed_from_entities, for an Oracle that was found on the roster: register
\* every pair under the current head, then take in the orphans.
Seeded ==
  Adopted([rows EXCEPT ![head] = [p \in Pairs |-> IF p \in Present THEN Upserted(rows[head][p], p) ELSE rows[head][p]]])

\* A slip: the lesser of no frontier and one is none.
Recorded_NullStays(table, h, p, reached) ==
  LET row == table[h][p]
      from == IF reached = None \/ row.from = None THEN row.from ELSE Least({row.from, reached})
  IN IF ~row.in THEN table
     ELSE [table EXCEPT ![h][p] = [row EXCEPT !.last = now, !.from = from]]

\* record_pull of something observed: a row that is gone is not made anew, the
\* frontier only widens.
Recorded(table, h, p, reached) ==
  LET row == table[h][p]
      from == IF reached = None THEN row.from
              ELSE IF row.from = None THEN reached ELSE Least({row.from, reached})
  IN IF ~row.in THEN table
     ELSE [table EXCEPT ![h][p] = [row EXCEPT !.last = now, !.from = from]]

Stale(row) == row.last = None \/ now - row.last >= PAIR_TTL
Lag(row) == IF row.last = None THEN MaxNow + 1 ELSE now - row.last

\* coverage_gap: the frontier of a pair pulled before is later than the target.
Target == Floored(now - DEEP)
Gap(row) == row.in /\ row.last /= None /\ row.from \notin 0 .. Target

\* owed(), which counts X alone.
Owed == \E h \in Heads, p \in Present : cast.kind[p] = "x" /\ Gap(rows[h][p])

-----------------------------------------------------------------------------
(* Walks: ingest_x_footprint.py and ingest_github.py *)

Window(w) == asked[w].since .. asked[w].upto - 1
Land(p, posts, replies) ==
  held' = [held EXCEPT ![p] = [t \in Timelines |->
             @[t] \cup (IF t = "posts" THEN posts ELSE replies)]]

\* A walk of everything that was asked for, with the frontier it reports.
WholeWalk(w, p, reached) ==
  /\ reached = asked[w].since
  /\ Land(p, Window(w), Window(w))

\* A slip: the frontier of a walk is where the walk ended, whichever half it was.
OneSided_Claims(w, p, reached) ==
  /\ cast.kind[p] = "x" /\ Window(w) /= {}
  /\ reached = asked[w].since
  /\ \E s \in Window(w) :
       \/ Land(p, Window(w), s + 1 .. asked[w].upto - 1)
       \/ Land(p, s + 1 .. asked[w].upto - 1, Window(w))

\* _pull_own_timeline with one timeline cut off by its rate limit: what landed
\* is kept, newest first, and _walk_frontier claims nothing.
OneSided(w, p, reached) ==
  /\ cast.kind[p] = "x" /\ Window(w) /= {}
  /\ reached = None
  /\ \E s \in Window(w) :
       \/ Land(p, Window(w), s + 1 .. asked[w].upto - 1)
       \/ Land(p, s + 1 .. asked[w].upto - 1, Window(w))

\* _pull_own_timeline cut short by a limit of its own: the pages fetch_user_tweets is
\* clamped to, or _FETCH_CAP tweets over both timelines, spent among the posts or
\* among the replies.  Neither is an error, so both timelines count as complete and
\* the walk claims all that was asked of it.
Truncated(w, p, reached) ==
  /\ cast.kind[p] = "x" /\ reached = asked[w].since
  /\ \E s \in asked[w].since + 1 .. asked[w].upto :
       \E from \in {<<s, s>>, <<s, asked[w].upto>>, <<asked[w].since, s>>} :
         Land(p, from[1] .. asked[w].upto - 1, from[2] .. asked[w].upto - 1)

\* What a walk claims and has left behind.
Left(w, p) == {s \in Window(w) : \E t \in Timelines : s \notin held'[p][t]}

\* sync_github out of its REPOS_PER_RUN: it reports the oldest it fetched.
Capped(w, p, reached) ==
  /\ cast.kind[p] = "github" /\ reached \in Window(w) /\ reached > asked[w].since
  /\ Land(p, reached .. asked[w].upto - 1, reached .. asked[w].upto - 1)

\* What the stamp of a pull puts behind it without any walk having seen it: what a
\* walk cut short left of its own window, and what lies below OVERLAP before the
\* stamp, where the next refresh begins, for there the registry claims all there is
\* down to the frontier.
Skips(w, p, row, stored, left) ==
  LET base == IF row.from = None THEN asked[w].upto
              ELSE Least({asked[w].upto, Floored(row.last - OVERLAP)})
  IN skipped' = [skipped EXCEPT ![p] = @ \cup
       IF row.in THEN left \cup
            {s \in base .. now - OVERLAP - 1 : \E t \in Timelines : s \notin stored[p][t]}
       ELSE {}]

-----------------------------------------------------------------------------
(* The passes under the lease *)

Env == <<now, troubles, cast, confirmed, head>>
Goto(w, label) == at' = [at EXCEPT ![w] = label]
Trouble == troubles < cast.may /\ troubles' = troubles + 1

\* run_oracle_refresh, once it has the lease: the roster is read ...
RailBegins ==
  /\ "rail" \in cast.active /\ at["rail"] = "off" /\ Acquire("rail")
  /\ Goto("rail", IF confirmed THEN "seeding" ELSE "listing")
  /\ phase' = [phase EXCEPT !["rail"] = "refresh"]
  /\ UNCHANGED <<breakerVars, Env, rows, held, skipped, overtaken, todo, task, asked, attempted, cut>>

\* ... and every pair of it registered.
RailSeeds ==
  /\ at["rail"] = "seeding" /\ Goto("rail", "listing")
  /\ rows' = Seeded
  /\ UNCHANGED <<leaseVars, breakerVars, Env, held, skipped, overtaken, phase, todo, task, asked,
                 attempted, cut>>

\* One pass of run_footprint_enrichment; start_background asks first whether
\* anything is owed.
LoopBegins ==
  /\ "loop" \in cast.active /\ at["loop"] = "off" /\ Owed /\ Acquire("loop") /\ Goto("loop", "listing")
  /\ UNCHANGED <<breakerVars, Env, rows, held, skipped, overtaken, phase, todo, task, asked, attempted, cut>>

\* refresh_all and backfill_pass list the rows they will work through as they
\* stand; neither looks at the roster.
List(w) ==
  /\ at[w] = "listing" /\ Goto(w, "passing")
  /\ todo' = [todo EXCEPT ![w] =
       {t \in {[head |-> h, pair |-> p, row |-> rows[h][p]] : h \in Heads, p \in Pairs} :
          t.row.in /\ IF phase[w] = "refresh" THEN Stale(t.row) ELSE Gap(t.row)}]
  /\ cut' = [cut EXCEPT ![w] = FALSE]
  /\ UNCHANGED <<leaseVars, breakerVars, Env, rows, held, skipped, overtaken, phase, task, asked, attempted>>

\* The order of a pass: a refresh takes the worst lag first, a backfill the
\* shallowest frontier.
Depth(row) == IF row.from = None THEN MaxNow + 1 ELSE row.from
Before(w, t, u) ==
  IF phase[w] = "refresh" THEN Lag(t.row) >= Lag(u.row) ELSE Depth(t.row) >= Depth(u.row)

\* since_for, and what refresh_pair asks of an X pair that has nothing to go on.
Since(p, row) ==
  LET base == IF row.last /= None THEN row.last ELSE row.cursor
  IN IF base /= None THEN Floored(base - OVERLAP)
     ELSE IF cast.kind[p] = "x" THEN Floored(now - BREADTH) ELSE 0

\* window_ok: the ceiling is for X, and for a refresh, only.
Refused(p, row) == cast.kind[p] = "x" /\ now - Since(p, row) > CEILING

\* The walk a pass asks of a pair; only a backfill of GitHub is bounded above.
Asks(w, t) ==
  [NoWindow EXCEPT
     !.since = IF phase[w] = "refresh" THEN Since(t.pair, t.row) ELSE Target,
     !.upto = IF phase[w] = "backfill" /\ cast.kind[t.pair] = "github" /\ t.row.from /= None
              THEN t.row.from ELSE now]

\* A row that costs no request is passed over: an X pair after the cut-off, a
\* refused window, a pair whose breaker is open.
CostsNothing(w, t) ==
  \/ phase[w] = "backfill" /\ cut[w] /\ cast.kind[t.pair] = "x"
  \/ phase[w] = "refresh" /\ Refused(t.pair, t.row)
  \/ ~Peek(t.pair)

\* One row of the listing, in order: passed over, or a walk begun and counted.
Take(w, t) ==
  /\ todo' = [todo EXCEPT ![w] = @ \ {t}]
  /\ IF CostsNothing(w, t) THEN UNCHANGED <<breakerVars, at, task, asked, attempted>>
     ELSE /\ Allow(t.pair) /\ Goto(w, "walking")
          /\ task' = [task EXCEPT ![w] = t]
          /\ asked' = [asked EXCEPT ![w] = Asks(w, t)]
          /\ attempted' = IF phase[w] = "refresh" THEN attempted + 1 ELSE attempted
  /\ UNCHANGED <<leaseVars, Env, rows, held, skipped, overtaken, phase, cut>>

Worst(w, t) == \A u \in todo[w] : Before(w, t, u)

\* refresh_pair and backfill_pair for the next row.
Pass(w) ==
  /\ at[w] = "passing" /\ ~lost[w]
  /\ phase[w] = "refresh" => attempted < MaxPairs
  /\ \E t \in todo[w] : Worst(w, t) /\ Take(w, t)

\* Ends of a walk.  A pass comes back to its rows, a worker forgets its task.
Back(w, rest) ==
  /\ Goto(w, "passing")
  /\ todo' = [todo EXCEPT ![w] = rest]
  /\ task' = [task EXCEPT ![w] = NoTask] /\ asked' = [asked EXCEPT ![w] = NoWindow]

\* _pull_pair with something observed: the atoms have landed, the pair is
\* stamped with the time it is now.
Observed(w) ==
  LET t == task[w]
      stamps(left) == Skips(w, t.pair, rows[t.head][t.pair], held', left)
  IN /\ w /= "tool" /\ at[w] = "walking"
     /\ \E reached \in Slots \cup {None} :
          /\ \/ (WholeWalk(w, t.pair, reached) \/ Capped(w, t.pair, reached)) /\ stamps({}) /\ UNCHANGED troubles
             \/ OneSided(w, t.pair, reached) /\ stamps({}) /\ Trouble
             \/ Truncated(w, t.pair, reached) /\ stamps(Left(w, t.pair)) /\ Trouble
          /\ rows' = Recorded(rows, t.head, t.pair, reached)
     /\ RecordSuccess(t.pair)
     /\ Back(w, todo[w])
     /\ UNCHANGED <<leaseVars, now, cast, confirmed, head, overtaken, phase, attempted, cut>>

\* An exception, or a source that answered with an error: counted against the
\* pair, which is not stamped.
Failed(w) ==
  /\ w /= "tool" /\ at[w] = "walking"
  /\ RecordFailure(task[w].pair) /\ Trouble /\ Back(w, todo[w])
  /\ UNCHANGED <<leaseVars, now, cast, confirmed, head, rows, held, skipped, overtaken, phase, attempted, cut>>

\* XRateLimited (both timelines cut off), SyncAuthError and CircuitOpenError
\* are no fault of the pair: nothing is recorded.  A refresh stops there; a
\* backfill goes on without X, stops, or goes on.
Interrupted(w) ==
  /\ w /= "tool" /\ at[w] = "walking"
  /\ Trouble
  /\ \/ /\ cast.kind[task[w].pair] = "x"
        /\ Back(w, IF phase[w] = "refresh" THEN {} ELSE todo[w])
        /\ cut' = [cut EXCEPT ![w] = phase[w] = "backfill"]
     \/ cast.kind[task[w].pair] = "x" /\ Back(w, {}) /\ UNCHANGED cut
     \/ Back(w, IF phase[w] = "refresh" THEN {} ELSE todo[w]) /\ UNCHANGED cut
  /\ UNCHANGED <<leaseVars, breakerVars, now, cast, confirmed, head, rows, held, skipped, overtaken,
                 phase, attempted>>

Off(w) ==
  /\ Goto(w, "off")
  /\ phase' = [phase EXCEPT ![w] = "backfill"]
  /\ todo' = [todo EXCEPT ![w] = {}]
  /\ task' = [task EXCEPT ![w] = NoTask] /\ asked' = [asked EXCEPT ![w] = NoWindow]
  /\ cut' = [cut EXCEPT ![w] = FALSE]
  /\ attempted' = IF w = "rail" THEN 0 ELSE attempted

\* A refresh is over (what it did not reach is deferred) and the backfill of
\* the same run begins; a backfill, or either once the lease is lost, ends it.
PassEnds(w) ==
  /\ w /= "tool" /\ at[w] = "passing"
  /\ todo[w] = {} \/ lost[w] \/ (phase[w] = "refresh" /\ attempted >= MaxPairs)
  /\ IF phase[w] = "refresh" /\ ~lost[w]
     THEN /\ Goto(w, "listing")
          /\ phase' = [phase EXCEPT ![w] = "backfill"]
          /\ todo' = [todo EXCEPT ![w] = {}]
          /\ UNCHANGED <<leaseVars, task, asked, attempted, cut>>
     ELSE Release(w) /\ Off(w)
  /\ UNCHANGED <<breakerVars, Env, rows, held, skipped, overtaken>>

-----------------------------------------------------------------------------
(* The pull a person asked for, and what else happens to an Oracle *)

\* _breadth_then_depth: a shallow pull of everything, then X alone, deep.
ToolBegins ==
  /\ "tool" \in cast.active /\ at["tool"] = "off" /\ confirmed /\ Goto("tool", "passing")
  /\ phase' = [phase EXCEPT !["tool"] = "breadth"]
  /\ todo' = [todo EXCEPT !["tool"] =
       {[head |-> head, pair |-> p, row |-> rows[head][p]] : p \in Present}]
  /\ UNCHANGED <<leaseVars, breakerVars, Env, rows, held, skipped, overtaken, task, asked, attempted, cut>>

\* _breadth_window: the shallower of the flat window and the last pull.
BreadthSince(p) ==
  LET last == rows[head][p].last
  IN Greatest({Floored(now - BREADTH)} \cup
              (IF last = None THEN {} ELSE {Floored(last - OVERLAP)}))

\* _ingest_oracle for one source: no breaker, no ceiling, and for GitHub no
\* window at all.
ToolWalks ==
  /\ at["tool"] = "passing" /\ Goto("tool", "walking")
  /\ \E t \in todo["tool"] :
       /\ todo' = [todo EXCEPT !["tool"] = @ \ {t}]
       /\ task' = [task EXCEPT !["tool"] = t]
       /\ asked' = [asked EXCEPT !["tool"] =
            [NoWindow EXCEPT !.upto = now,
               !.since = CASE cast.kind[t.pair] = "github" -> 0
                           [] phase["tool"] = "breadth" -> BreadthSince(t.pair)
                           [] OTHER -> Target]]
  /\ UNCHANGED <<leaseVars, breakerVars, Env, rows, held, skipped, overtaken, phase, attempted, cut>>

\* Whatever came of it is stamped at once (_stamp_source): the roster is read,
\* and only if the Oracle is still on it are its pairs registered.  A sweep of
\* GitHub carries no frontier here.
ToolWalked ==
  LET p == task["tool"].pair
      stamping(reached, seen, left) ==
        asked' = [asked EXCEPT !["tool"].reached = IF cast.kind[p] = "github" THEN None ELSE reached,
                               !["tool"].seen = seen, !["tool"].left = left]
  IN /\ at["tool"] = "walking" /\ Goto("tool", IF confirmed THEN "stamping" ELSE "recording")
     /\ \/ \E reached \in Slots \cup {None} :
             /\ WholeWalk("tool", p, reached) \/ Capped("tool", p, reached)
             /\ stamping(reached, TRUE, {}) /\ UNCHANGED troubles
        \/ OneSided("tool", p, None) /\ stamping(None, TRUE, {}) /\ Trouble
        \/ \E reached \in Slots :
             Truncated("tool", p, reached) /\ stamping(reached, TRUE, Left("tool", p)) /\ Trouble
        \/ stamping(None, FALSE, {}) /\ UNCHANGED held /\ Trouble
     /\ UNCHANGED <<leaseVars, breakerVars, now, cast, confirmed, head, rows, skipped, overtaken,
                    phase, todo, task, attempted, cut>>

\* seed_from_entities and _record_coverage, which writes only what was observed.
ToolStamps ==
  LET p == task["tool"].pair
      table == IF at["tool"] = "stamping" THEN Seeded ELSE rows
  IN /\ at["tool"] \in {"stamping", "recording"}
     /\ IF asked["tool"].seen
        THEN /\ rows' = Recorded(table, head, p, asked["tool"].reached)
             /\ Skips("tool", p, table[head][p], held, asked["tool"].left)
        ELSE rows' = table /\ UNCHANGED skipped
     /\ Back("tool", todo["tool"])
     /\ UNCHANGED <<leaseVars, breakerVars, Env, held, overtaken, phase, attempted, cut>>

ToolTurns ==
  /\ at["tool"] = "passing" /\ todo["tool"] = {}
  /\ IF phase["tool"] = "breadth"
     THEN /\ phase' = [phase EXCEPT !["tool"] = "depth"]
          /\ todo' = [todo EXCEPT !["tool"] =
               {[head |-> head, pair |-> p, row |-> rows[head][p]] :
                  p \in {q \in Present : cast.kind[q] = "x"}}]
          /\ UNCHANGED <<at, task, asked, attempted, cut>>
     ELSE Off("tool")
  /\ UNCHANGED <<leaseVars, breakerVars, Env, rows, held, skipped, overtaken>>

\* resolve_entities merges the Oracle's cluster into another head.
ClusterMerges ==
  /\ head = "old" /\ head' = "new"
  /\ UNCHANGED <<leaseVars, breakerVars, now, troubles, cast, confirmed, rows, held, skipped,
                 overtaken, passVars>>

\* forget(): busy while a pass has the lease ...
ForgetBegins ==
  /\ confirmed /\ Acquire("forget")
  /\ UNCHANGED <<breakerVars, Env, rows, held, skipped, overtaken, passVars>>

Evicted(p) == Holding(p) /\ ~Ours(p)

\* A writer that forget does not exclude is about to register a roster it read.
RosterInHand ==
  \/ at["tool"] = "stamping"
  \/ at["rail"] = "seeding" /\ (Evicted("rail") \/ Evicted("forget"))

\* A slip: only the rows of the current head go.
ForgetCommits_HeadOnly ==
  /\ Holding("forget") /\ Release("forget")
  /\ confirmed' = FALSE
  /\ rows' = [rows EXCEPT ![head] = [p \in Pairs |-> NoRow]]
  /\ overtaken' = RosterInHand
  /\ UNCHANGED <<breakerVars, now, troubles, cast, head, held, skipped, passVars>>

\* ... and one transaction: the subscription, and its rows under every head.
ForgetCommits ==
  /\ Holding("forget") /\ Release("forget")
  /\ confirmed' = FALSE
  /\ rows' = [h \in Heads |-> [p \in Pairs |-> NoRow]]
  /\ overtaken' = RosterInHand
  /\ UNCHANGED <<breakerVars, now, troubles, cast, head, held, skipped, passVars>>

\* Time passes; after MaxNow only breakers cool down.
Tick ==
  /\ BreakerAges
  /\ now' = IF now < MaxNow THEN now + 1 ELSE now
  /\ <<now, breakerVars>>' /= <<now, breakerVars>>
  /\ UNCHANGED <<leaseVars, troubles, cast, confirmed, head, rows, held, skipped, overtaken, passVars>>

Beats(p) ==
  /\ Beat(p) /\ leaseVars' /= leaseVars
  /\ UNCHANGED <<breakerVars, Env, rows, held, skipped, overtaken, passVars>>

\* A TTL goes by without a beat: of a process that is gone, or of one that was
\* paused or kept meeting a locked database.
Silence ==
  /\ lock.holder /= Nobody /\ lock.age <= TTL /\ LeaseTick
  /\ IF Ours(lock.holder) THEN Trouble ELSE UNCHANGED troubles
  /\ UNCHANGED <<breakerVars, now, cast, confirmed, head, rows, held, skipped, overtaken, passVars>>

Dies(w) ==
  /\ at[w] /= "off" /\ Trouble /\ Off(w)
  /\ IF w = "tool" THEN UNCHANGED leaseVars ELSE Abandon(w)
  /\ UNCHANGED <<breakerVars, now, cast, confirmed, head, rows, held, skipped, overtaken>>

PassStep(w) ==
  List(w) \/ Pass(w) \/ Observed(w) \/ Failed(w) \/ Interrupted(w) \/ PassEnds(w)
ToolStep == ToolWalks \/ ToolWalked \/ ToolStamps \/ ToolTurns

Next ==
  \/ RailBegins \/ RailSeeds \/ LoopBegins
  \/ \E w \in {"rail", "loop"} : PassStep(w)
  \/ ToolBegins \/ ToolStep
  \/ ClusterMerges \/ ForgetBegins \/ ForgetCommits
  \/ Tick \/ Silence
  \/ \E p \in Holders : Beats(p)
  \/ \E w \in Workers : Dies(w)

\* The rail is started over and over, whoever is under way goes on, beats land
\* and time passes.
Fairness ==
  /\ WF_vars(RailBegins) /\ WF_vars(RailSeeds) /\ WF_vars(ToolStep) /\ WF_vars(ForgetCommits)
  /\ \A w \in {"rail", "loop"} : WF_vars(PassStep(w))
  /\ \A p \in Holders : WF_vars(Beats(p))
  /\ WF_vars(Silence) /\ WF_vars(Tick)

Spec == Init /\ [][Next]_vars /\ Fairness

-----------------------------------------------------------------------------
\* What the registry says of a pair is true: whatever was published between the
\* frontier of a pair and where its next refresh begins is stored, both timelines of
\* it, except what a stamp is known to have skipped (Skips): below the overlap, and
\* behind a walk that met a limit of its own, for X the code claims that too.  Nothing
\* would ever go back for a stretch that is claimed and not held.
ClaimsHeld ==
  \A h \in Heads, p \in Pairs :
    LET row == rows[h][p]
    IN row.from /= None /\ row.last /= None =>
         \A t \in Timelines : row.from .. row.last - OVERLAP - 1 \subseteq held[p][t] \cup skipped[p]

\* Once forgotten, a person is not selected again: no registration is left or
\* comes back, unless a writer without the lease was about to register them.
Unsubscribed ==
  ~confirmed /\ ~overtaken => \A h \in Heads, p \in Pairs : ~rows[h][p].in

\* What is stale gets refreshed and what is shallow gets deepened, however many
\* walks, beats and processes go wrong on the way; the pairs whose window is
\* refused stay as they are and hold nobody up.
CaughtUp ==
  <>[](\A h \in Heads, p \in Pairs :
         LET row == rows[h][p]
         IN row.in => /\ Stale(row) => Refused(p, row)
                      /\ ~Gap(row))
=============================================================================
