# Verification of Opyt

TLA+ models of Opyt, a personal knowledge base that fills itself in the
background and answers an assistant over MCP. The models are written from the
source; every definition that stands for code is listed with its lines in
`PROJECT.json` ("map"), and so is every run, hazard, finding, mutant and
proved theorem.

Contents: [the system](#the-system) · [the modules](#the-modules) ·
[the runs](#the-runs) · [the proofs](#the-proofs) ·
[where code and text disagree](#where-code-and-text-disagree) ·
[not modelled](#not-modelled) · [plan](#plan) · [how to run](#how-to-run)

## The system

Three kinds of process run Opyt's Python code.

* **A home** is one person's `~/.opyt`: SQLite databases, snapshots of what was
  read, keys. It has an MCP server (`mcp_server/`), which an assistant calls, and
  short-lived *rails* (`pipeline/kb/*_catchup.py` and others), bounded passes
  that fetch, embed and publish.
* **The resident worker** (`pipeline/kb/rail_worker.py`) launches all rails, of
  one home on a laptop and of every home on a server.
* **Two services.** The *gateway* (`gateway/`) hosts homes: it signs users in,
  spawns an MCP server per user and proxies to it, lends a browser for sign-ins,
  and hands out a starter allowance. The *knowledge-base service* (`service/`)
  serves the exports that owners share with readers.

Everything durable is SQLite, written by several processes at once, plus a few
files that are replaced by rename. There are no transactions across two
databases or across a database and a file, and most work is *look, fetch for
minutes, write*: the order of steps carries most of the system's correctness,
and most hazards are a look that is stale, a death between two commits, or two
doors to the same thing that know nothing of each other.

### Components

State; what is hard; what makes it right.

**Rail schedule and worker** (`rail_jobs.py`, `rail_worker.py`). A row per (home,
rail) with due time and claim; a lifetime lock, children, slots. *Hard:* a death
between two steps, a lifetime that ends with children running, starvation.
*Right:* a home runs one rail at a time, no claim is stranded, what is asked for
runs.

**Child pool and proxy** (`gateway/children.py`, `gateway/app.py`). Routing table, a
lock per user, in-flight counts, watchers, an idle reaper, in one asyncio process.
*Hard:* two requests that both spawn; spawns that hang; clients that disconnect.
*Right:* one serving process per home, every request answered.

**Hosted sign-in** (`hosted_browser.py` with the gateway). Links, page, capabilities,
desktop, profile lock. *Hard:* two sign-ins overlapping over two processes, lost
calls, expiry. *Right:* the newest sign-in stays usable; the profile comes back (but for one
exit, below).

**Starter allowance** (`gateway/trial.py`). A ledger, codes, keys at OpenRouter.
*Hard:* a mint whose answer is lost, a restart before the key is collected.
*Right:* nobody is handed two keys.

**Sharing** (`service/`, `share_tools.py`, `push_catchup.py`, `opyt_core/push.py`).
Tokens, invites, last upload, the export under two names, the owner's watermark.
*Hard:* uploads that die, changes during a push, two-step redeem. *Right:* only
whole files are served; changes that readers ask for arrive.

**Breaker, gates, model calls** (`circuit_breaker.py`, `concurrency.py`, `embed.py`,
`content_gate.py`, `vision.py`, `ocr_cascade.py`, `llm_client.py`). *Hard:* outcomes of
calls let through before the state changed, abandoned trials, a limit that drops
below what is in use. *Right:* one trial per cooldown, no lost wake-up, work settles.

**Lease and Oracle refresh** (`sync_lock.py`, `oracle_refresh*.py`,
`footprint_enrichment.py`, `oracles.py`). A lease row; a window, cursors and failures
per (Oracle, source). *Hard:* a holder that sleeps through its lease, walks cut short,
a tool that walks without the lease, forgetting meanwhile. *Right:* what the registry
claims is held, or is known to have been passed over; what is stale is refreshed and what is
shallow deepened.

**Pull runs and reviews** (`pull_runs.py`, `oracle_tools.py`, `oracle_reviews.py`). A run row,
its roster, heartbeat and report. *Hard:* joining a run that is about to end.
*Right:* a finished run has finished its roster, but for picks it lost by name; whoever is
asked for is pulled; what was dismissed stays so.

**Store of atoms and its writers** (`schema.py`, `ingest_common.py`, `raw_store.py`,
`forget.py`; `ingest_x.py`, `enrichment.py`, `bookmark_catchup.py`, `ingest_curation.py`,
`substack_saved_catchup.py`; `hopper.py`, `link_router.py`, `frontier_admit.py`,
`ingest_papers.py`, `ingest_github.py`, `ingest_blog.py`, `ingest_substack.py`). Row, chunks
and snapshot: three stores no transaction spans. *Hard:* writers that overlap, die
between commits, or bring back what was forgotten. *Right:* what is searched is what is
stored; a save stays a save; the forgotten stays out till it is asked for or found under another
id; the saved arrives.

**Publications and trust** (`ingest_substack.py`, `ingest_blog.py`, `blog.py`,
`substack.py`, `link_discovery.py`, `eligibility.py`; `discover_profile.py`,
`trust_graph.py`). *Hard:* windows of two walkers over one archive that grows; verdicts
that feed each other; dates that name only a day. *Right:* no post falls between two windows by
the walkers' doing; no ring of accounts is trusted for vouching for itself.

**Sittings** (`sitting_*.py`, `reader_core.py`). Parts of a region, read marks, claims,
four channels of a scheduler, a tool beside it. *Hard:* two doors, four commits per
read, arrivals during a read. *Right:* a part is paid for once; the notebook is whole;
what a region gained is read; the queue empties.

**Watchlist** (`frontier_queries.py`, `frontier_execute.py`). Standing queries with claims
and votes; a stamp per (query, source). *Hard:* failing, dying and overlapping passes;
request budgets. *Right:* no gap between windows; a query on the list is searched again.

**Opening the store** (`schema.py`). No migration step: every opener brings tables up to
date beside others and beside older builds. *Right:* the store opens, and no row is lost.

**Proposer** (`curation_*.py`, `ingest_curation.py`, `screen.py`, `candidate_probe.py`,
`scholar_probe.py`, `probe_*.py`). Rows of whom the user follows, the last walk's row, a
ledger of samples under a daily ceiling. *Hard:* short or overlapping walks. *Right:*
nobody goes off the list on a walk that failed or met less than half; both kinds of candidates
are sampled again.

**Onboarding** (`onboard_tools.py`, `onboard_state.py`, consent markers, threads). The phase
is derived from disk at each call. *Right:* it ends for every user; no rail that was
queued finds its consent missing.

The rest (retrieval and export SQL, source clients and parsers, server dispatch,
wording, notices, installers) is listed in `PROJECT.json` as not modelled, with reasons.

Who calls whom: the tools and rails of a home call `request_now`; the worker spawns
rails, which take the lease, ask breakers, write atoms and, for the push rail, upload to
the service. The gateway spawns a home's MCP server and relays to it; that server
registers sign-ins back and shares the home's browser profile with pulls and rails.

## The modules

| module | models | extended by |
|---|---|---|
| `RailJobs` | the schedule's transactions (`RailJobStore`) | `RailWorker` |
| `RailWorker` | lifetimes, children, producers, crashes | `RailWorkerMC` (instance; time that never ends) |
| `RailSlots` | abstract: what the worker promises a home; `RailWorker` implements it (`ImplementsSlots`) | |
| `ChildPool`, `HostedSignIn`, `TrialLedger`, `Sharing` | the four parts of the hosted side | `Gateway` composes them (`GatewayValues`: what they share) |
| `CircuitBreaker`, `AdaptiveGate` | the breaker's row; the permits of a gate | `ModelCalls`: embedding, grading, reading |
| `Lease` | the heartbeat lease | `OracleRefresh`, with `CircuitBreaker`: rail, loop, tool and forget over one registry |
| `SourceReviews` | sources discovery could not attribute | `PullRuns`: runs, calls, workers |
| `Atoms` | row, chunks, snapshot, forget | `SavedPass` (passes over what was saved), `Minting` (items one at a time); `Library` composes both |
| `SittingStore`, `SittingReader`, `Sittings` | parts; reading; scheduler and tool | |
| `WatchPass`, `Watchlist` | the list and its passes; calls, regions, days | |
| `StoreSchema` | opening the store | `Frontier` composes it with `Sittings` and `Watchlist` |
| `SourceTrust` | discovery and trust | `Publications`: a publication and its two pullers |
| `Signals`, `Probes`, `Onboarding` | walks; samples; setting up | `Proposer` composes them |
| `*Proofs` | theorems, see [the proofs](#the-proofs) | |
| `*MC` | constants of small instances | |

A composition whose parts share no state (`Gateway`, `Frontier`, `Proposer`,
`Publications`) lets a behaviour exercise one part, chosen in `Init`, with the
others at rest: their product would multiply states and add no order of steps that
matters. Parts that do share state (`Library`, `OracleRefresh`, `ModelCalls`, `PullRuns`,
`Sittings`) interleave freely.

A definition whose name has a suffix (`Due_Again`, `ChunksOf_Kept`) is a slip: a
plausible bug of the definition that follows it, kept to show that the property is able
to see it. No specification uses one.

### Grain

* *Stores.* A SQLite transaction, or a single autocommitted statement, is one step. Two
  commits are two steps, with a death possible in between. A file is written by rename,
  hence in one step, apart from the commit beside it.
* *Worker.* One thread: its steps are the loop's store calls, polls, spawns and
  signals, in the code's order.
* *Gateway.* One asyncio process: a step is what runs between two awaits.
* *Service.* Uploads run on the event loop, other handlers on threads: an upload is cut at
  its awaits by other uploads and at any statement by other handlers. A file is an inode
  with two names that may lead to it.
* *Fetches and model calls* begin in one step and end in another, with one of the outcomes
  the caller tells apart: an answer, nothing found, a refusal, an error.
* *Time* is a small counter or an age cut off where the code stops looking (a cooldown, a
  TTL, a window); in each module a comment says which.

### What state corresponds to

* `RailJobs!jobs` is the table `rail_jobs`. `RailWorker`: `lock` is the flock, `active` is
  `RailWorker.active`, `claimed` the job between commit and `Popen`, `child` the process
  table. `asked` is a history.
* `ChildPool`: `children`, `locks`, `inflight` are the fields of that name, `doomed` is
  `reap_once`'s list. `HostedSignIn`: `gate` is what the gateway's tables hold for a nonce,
  `manager` what the child does with it. `TrialLedger`: `ledger` is the file, `flow` the
  calls in progress and the codes waiting. `Sharing`: `tmp` and `dest` are two names of
  inodes; `crossed` is a history: an upload met another, or an unshare.
* `OracleRefresh`: `rows` is `oracle_sources` with the copies each pass works from; `held` is
  what walks have brought in; `skipped` what a stamp is known to have passed over.
* `PullRuns`: `run` is the row of `pull_runs`, `worker` its thread, `call` a tool call between
  two steps; `excused` is a history of who was told of too late, lost or forgotten.
* `Atoms`: `row`, `index` and `file` are `atoms`, `chunks` and `kb_raw`; `hand` is what each
  writer holds in memory; `was` is history: two commits torn apart, a save vouched for, a
  save overtaken, an id barred.
* `SittingStore!parts` is `sittings` with runs, marks and claims, each part with the set of its
  ancestors; `SittingReader!hand` a reader
  between two commits; `twice` the history of parts two readers had in hand.
* `WatchPass!queries` is the query table with claims, `pulled` the stamps as ages, `passes`
  what each executor has loaded. `item` is one artifact of the pair that is followed.
* `Publications!row` is the registry's row, `walks` the rail's and the call's pass, `posts` where
  each post has got to. `SourceTrust`: `links` is the graph, `trusted` the growing set.
* `Signals`: `sig` is `curation_signals` by the walk that last confirmed a row, `run` is
  `collector_runs`, `sizes` a history of what the last walks met. `Onboarding`: `yes`, `rows`,
  `skipped` and `asked` are consent markers, rows of rails and the two other markers.

## The runs

Every `.cfg` is a run; `about` in `PROJECT.json` says what each asks, and every
property is written out in words above its definition. "P" marks what is also
proved for every value of the constants.

| run (cfg) | checks | of |
|---|---|---|
| `RailWorkerSafety` | `SingleFlight` P, `ClaimsBacked` P, `ImplementsSlots` P | a worker that drains or dies, and its successor |
| `RailWorkerLive` | `RequestsRun` | more homes than slots, time without end |
| `Gateway` | `OneServing` P, `Answered` | the child pool |
| | `NewestReachable` P, `HandedLinkPending` P, `ProfileFreed` | two sign-ins of one child |
| | `DeliveredOnce` P | two people, two flows, restarts |
| | `ServedWhole` P, `DemandPushed` | pushes, an unshare, readers |
| `SharingInvites` | `InvitesDie` — violated | a code sent before an unshare |
| `ModelCalls` | `NoLostWakeup` P, `TrialsSpaced` P, `WorkSettles` | two threads, two breakers, three gates |
| `OracleRefresh` | `ClaimsHeld` P, `Unsubscribed` P, `OneProven` P, `CaughtUp` | rail, loop, tool, merge, forget |
| `PullRuns` | `RosterFinished` P, `DismissedStays` P, `AskedPulled` | two calls, two runs, reviews |
| `Library` | `Searchable` P, `Attested` P, `StaysForgotten` P, `SavedArrives` | one item, three or four writers |
| `Frontier` | `PaidOnce` P, `GainedIsRead` P, `NotebookWhole` P, `QueueDrains` | sittings |
| | `SpeedVoted` P, `NothingSkipped` P, `SearchedAgain` | the watchlist |
| | `StoreOpens` | two openers of an old store |
| `Publications` | `StillInReach` P | a publication and its two pullers |
| | `TrustEarned` P | discovery over a small web of pages |
| `Proposer` | `RetiredOnEvidence` P, `SampledAgain`, `RailsConsented` P, `Onboarded` | lists, samples, setting up |
| `LaterImported` | `LaterImported` — violated | a platform that is connected later |

So every safety invariant and every action property of the passing runs is a theorem,
the refinement too; what is left to TLC alone is liveness.

### Bounds, and why they are enough

A bound is a CONSTANT with `Max` in its name, or stands in a *cast*: a record that says
what one behaviour tries together (`Casts`, `Users`, `Watches`, `StoresFound`), so that a
run covers several small situations in turn, not one large one.

* **Rail worker.** Two homes, rails and slots are the least with which a home can be shut
  out, a slot be short and a rail wait for its neighbour; a second lifetime overlaps the
  first one's children (`MaxStops = 1`). Actors are interchangeable, hence the symmetry
  (in the safety run alone: symmetry and liveness do not go together). In `RailWorkerMC` the
  clock does not run out: rows age, and overdue ones are kept as ranks.
* **Gateway.** Two requests for one user and one for the other meet at every lock; a third
  would wait as the second does. Two nonces make "newest" mean something. Two flows of a
  person and two mints make a double delivery possible. One change after the first export,
  one failure, one unshare and three inodes: a whole one, a torn one, a new one.
* **Model calls.** Two callers, `MAX_PERMITS = 2`: a limit that falls below what is in use, and
  a waiter beside a slot. `THRESHOLD = 2`, `COOLDOWN = 1`: a breaker that trips, is tried,
  trips again.
* **Oracle refresh.** Three slots of time: an overlap, a stale row, a window refused. One thing
  goes wrong (`may = 1`) anywhere. One cast is the rail and the tool over an X account, the
  other the rail and the loop over an X and a GitHub pair, where `MaxPairs = 1` starves.
* **Pull runs.** Two calls join or miss two runs; two Oracles give a roster an order. `Rounds = 1`
  for the code's eight looks; that they are used up with somebody left over takes a third Oracle and
  is in the theorem's reach alone, which holds for every number of looks.
* **Library.** One item per behaviour: atoms do not meet. Each cast names the three or four
  writers that can meet over an item of the kind; `MaxTroubles = 1` is a death, a lost lease, a
  refused read or a failed embedding at any step; `MaxAsks = 3` lets a thing be saved,
  forgotten and asked for again. A paper has two ids a search may find it under, a repository one;
  no row is there at the start, searches make them.
* **Sittings.** A chain of four parts has a part with an ancestor that itself continues one, a
  sub-part, and one built later. One failure or death; one user who does two or three things.
* **Watchlist.** Four situations: two queries with room for one request; one pair and what is
  published in it; a fast and a slow source; three claims on one query. Two executors. Of what
  is published one item is followed, and an answer may hold it or omit it.
* **Store.** Two openers, two upsets, four stores as builds of different age left them.
* **Publications.** Two posts are an archive that shifts while it is paged through, and one
  older than the window beside one inside it. Three ticks: a pull, a tick of overlap, one
  behind. `COARSE = 1`: the date of a blog may be a tick early, as much as the overlap and so
  enough to fall out of the next window. Five accounts, one of each kind, and any two links.
* **Proposer.** Three accounts of which two are one person's; three walks are a baseline, a
  short one and one after it. A ceiling of two with a TTL of two days. Five kinds of user.

`CHECK_DEADLOCK FALSE` stands in every run but `RailWorkerLive`: the systems come to rest
once the bounds are used up (a clock at its end, nothing left to ask), and a finite discovery,
setting up or opening is over.

### Fairness

Weak fairness says that whoever can go on does; where it is assumed, the code has a loop, a
timer or a service manager that takes the step. Nothing is assumed of users (but that one who
is setting up answers), of failures, or of the order in which actors run.

| module | assumed | because |
|---|---|---|
| `RailWorkerMC` | time passes; a lifetime goes on or is restarted; a pass ends | `Restart=always`/`KeepAlive`; rails are `--once` |
| `ChildPool` | SF of taking a lock; a spawn, a watcher, the reaper, a stopping child end | `asyncio.Lock` is FIFO; `spawn_timeout`, the grace of a stop |
| `HostedSignIn` | time passes, timers fire; a desktop comes up or fails | `threading.Timer`; deadlines of each start |
| `Sharing` | the push rail runs; its steps and the service's end | rail schedule; HTTP timeouts |
| `ModelCalls` | cooldowns pass; a caller goes on | threads; services answer in the end (`MaxTroubles`) |
| `OracleRefresh` | the rail starts again; passes, beats, silences, time | rail schedule; the heartbeat thread |
| `PullRuns` | calls, workers, reviews end; heartbeats lapse; SF of asking again and registering | threads; the wait of `onboard` is a call that is repeated |
| `Library` | a writer goes on; rails start again; a forget under way ends | rail schedule |
| `Sittings`, `Watchlist` | the scheduler and the executor run; a tool call ends; breakers cool; days pass; indexes answer | rail schedule; daily cadence |
| `StoreSchema` | an opening goes on | a process at work opens its store |
| `Probes` | the rail runs; a pass goes on; a day ends | rail schedule |
| `Onboarding` | a user answers and signs in; threads and rails end; SF of a rail's claim | the assistant asks again; `RequestsRun` |

Strong fairness stands only where another actor can take the chance away again and again: a
lock that is let go between two others, a rail that finds the lease taken, a call that must be
made while nothing else is under way.

## The proofs

`tlapm` checks 32 theorems in eight modules; `PROJECT.json` lists them with what each says.
Each has the same shape: an inductive invariant, holding at the start, kept by every step, and
implying the property; candidates were tried with TLC on the runs' instances first. One lemma per
action says what it keeps; the last step joins them by temporal logic.

* **`RailProofs`.** `IInv` = row types, one claim per home, one lifetime, *Supervised* (a child is
  in `active` of the lifetime whose claim it works off, or its lifetime is gone) and
  *ChildHoldsClaim*. `SingleFlight` alone is not inductive: it is the claims in the table that
  keep two lifetimes from running one home, and the token that keeps a finished one from closing
  its successor's. `WorkerImplementsSlots`: initial states map to initial states of `RailSlots` and
  each step to a step or a stutter; that a launch has room needs the counting lemma `HasRoom`
  (children are counted by `active`, which is as long as `MaxChildren` at most).
* **`GatewayProofs`.** Four invariants for four parts that share nothing. *PoolInv*: who has a lock,
  what the table routes to, which process each spawner watches, and that what is past its start
  is in the table. *SignInInv*: who mints, what is not open yet, and that the newest link is pending.
  *TrialInv*: one flow per person owes a key, on a row that says so. *ShareInv*: as long as no
  two uploads have met, what is still being received is at `tmp` and what is all received is whole,
  so that what is moved to `dest` is.
* **`CallProofs`.** *GateInv*: as many woken as free slots, for any limit and any number of callers (a
  counting argument over finite sets). *BreakerInv*: a breaker that is open or half open has been
  so no longer than the last trial is old.
* **`LeaseProofs`.** *LeaseInv*: whoever was named within the TTL is named now. *RegistryInv* carries,
  from the listing of a row to its stamp, what the walk saw: the stamp claims nothing else.
  *ForgottenInv*: after a forget no writer has a roster in hand; that needs the lease, since a
  rail between reading the roster and registering it holds it.
* **`PullProofs`.** *PullInv* follows the worker: what it set out to walk is done, excused, at hand or
  still to come, and its last look finds nobody else. *ReviewInv*: no decision is under way on
  what is dismissed and was not crossed. *TrustInv*: every set that is closed under the rules and
  holds the root holds all that is trusted, whatever the order; it therefore also covers
  the second verdict. *PubInv* follows a pull: its window begins behind every stamp it has met
  (so a stamp of the other walker does not matter), and of what was out when it began and lies
  in the window it has listed, read or lost everything; a stamp then passes over nothing that was
  not lost. That an archive that grows while it is paged through only shifts known posts
  backwards is `Archive` and `ListsPageKeeps`.
* **`LibraryProofs`.** *LibraryInv* = *Whole* (chunks are the row's unless a writer is between its
  commits or something was torn), *Vouched* (no machine has a saved item in hand as its find, unless it
  had before the save), *Barred* (after a forget no candidate is due and no writer has the item in hand).
* **`FrontierProofs`.** *SittingInv* (`PaidOnce`), for each lens: a paid part is marked, or whoever paid
  will mark it, or it is on record as in two hands; nobody calls about a part that was paid for. *NotebookInv* (`NotebookWhole`,
  `GainedIsRead`, `ChainsAreWalked`): lineages go down and stay in a region, what a reader owes
  includes all that is read and undistilled behind its part, nothing is empty and distilled at
  once. *WindowInv* (`NothingSkipped`): for each pass, what it will stamp reaches back to
  what it was asked for; passes that end in another order than they began stamp with their own
  beginning. *SpeedInv*: the votes are those of the claims, and the speed their least.
* **`ProposerProofs`.** *EvidenceInv* relates the row of the last walk to the true sizes of the last
  three; two short walks in a row do not become a baseline. *ConsentInv*: a row of a rail that
  asks for consent was queued by a call that had written the marker first.

Assumptions on constants are the `ASSUME`s of the modules (sizes are naturals, kinds are
disjoint, `None` is not a value, `LOOKBACK > OVERLAP`, ...), which TLC evaluates on every
run. What the models assume of the world is in them, not in the theorems; three that matter:

1. when a lifetime of the worker ends, its process group is dead before the next takes the lock
   (`KillMode=control-group` in `opyt-worker.service`);
2. a pull of a publication is over before the overlap of six hours is, and the lookback a user
   asks for is longer than the row was left alone and the overlap together;
3. a session that is there is renewed when it has expired (`Onboarding`).

**Only model-checked:** `RequestsRun`, `Answered`, `ProfileFreed`, `DemandPushed`, `WorkSettles`,
`CaughtUp`, `AskedPulled`, `SavedArrives`, `QueueDrains`, `SearchedAgain`, `StoreOpens`,
`SampledAgain`, `Onboarded`: all of them liveness under fairness, for which the prover has no
rules of `ENABLED`. Induction over data is out of its reach as well: that is why a part keeps the
set of its ancestors when it is made (`Walk`), where the code walks up `continues` each time, and
`ChainsAreWalked` proves the two alike. No module declares a RECURSIVE operator.

## Where code and text disagree

Two are runs that TLC must find violated (`findings`):

* **Invites outlive an unshare** (`SharingInvites`): `unpublish` revokes tokens and leaves codes
  alone (`service/app.py:461`), while `unshare` promises that every invite sent stops working.
* **A platform connected later may never be imported** (`LaterImported`): the collectors' rail may read
  it before the next call, and then nothing is pending (`onboard_tools.py:194`, against 1121-1124).

Others met while modelling, each visible in a model or excused in a property by name:

*Rails and gateway.* `finish` overwrites a `request_now` made while the rail ran
(`rail_jobs.py:229-234`, 306). A row of an unknown rail ends every lifetime (`rail_worker.py:146`).
The reaper decides on `inflight` once and acts several awaits later (`children.py:330-338`), so a
child may be ended under a request (`tests/gateway/test_children.py:79`). A client that vanishes
before `relay` leaves a count behind (`app.py:191`). A desktop on its way up is in neither
table (`hosted_browser.py:1050`) and is not counted (`children.py:479`). After a timeout that leaves
open whether a key was made, a person may cost a second key (`trial.py:243`; never a second delivery).
A sign-in that fails after it has the profile lock and before its `try` (`hosted_browser.py:930-933`: a
`ps` that cannot be started, preferences that are no object) keeps the lock with no timer to give it
back; `StartBreaks` is that exit, and `ProfileFreed` names the desktop it leaves ("stuck"): no sign-in and
no pull of the home gets the profile until its server ends.
Two uploads at once share a temporary name (`uploads.py:133`, 196), which `ServedWhole` excuses.
An unshare does not reset what the push gate compares with (`push_catchup.py:140`), and a change
at the wrong moment waits for the next (`store.py:428`).

*Oracles.* `ingest_github.py:378` reports the oldest repository it fetched, though the comment
(:456) says what it covered; `Skips` marks such stretches. A walk of X that ends on a limit of its own
(`_FETCH_CAP`, `ingest_x_footprint.py:572-580`; 60 pages, `x_graphql_core.py:694`) returns as one that
reached the window, is put among the complete (:598), and `_walk_frontier` claims all that was asked
for. Nothing goes back for the rest, for a frontier only widens: `Truncated` is that walk, and
`ClaimsHeld` counts what it left as skipped. So the claim of an account with more than 5000
posts in its window is not to be trusted, nor is "reached the bound it was given" (:607).
A run calls itself finished though `finish_oracle` failed for a pick (`oracle_tools.py:983-992` swallows it),
a look at the roster failed (1067-1074) or the eight looks are over (1032); the picks concerned stay unfinished in its
record. `Marks`, `LookFails` and `StageEnds` do this, and
`RosterFinished` excuses these picks by name (`excused`).

*Publications.* "Retried next run" (`substack.py:428-434`, and the comments of `ingest_blog`
and `ingest_substack`) does not hold for a post older than the overlap once the run is stamped; posts
that stay undetermined do not keep it from being stamped. A gate that does not answer is stamped
as skipped (`oracle_refresh.py:391-396`), against "one hiccup never poisons a source"
(`eligibility.py`). A sitemap that cannot be fetched is an empty one (`blog.py:54-184`). A first
pull that was killed leaves atoms that seed the cursor, and the rail never reads the archive behind
them (`oracle_refresh_state.py:603-645`). An error in the consumer drops the batch of a flush,
and the run is stamped. `StillInReach` counts all of these as seen and lost (`passed`).
A blog's sitemap often dates a post by its day (`blog.py:141`), which is read as midnight UTC
(`ingest_blog.py:86-96`, 444-447): what comes out on a day after a pull of that day, one made past 06:00 UTC,
is dated before the next window (its overlap is six hours) and every later one, and is never
read. `DatesShown` gives a post from a sitemap such a date, and `StillInReach` excuses it once it was
left alone for it ("predated"); a feed gives the exact time.

*Store and bookmarks.* An upgrade of a text that fails is owed by nobody (`ingest_x.py:390-393`,
`enrichment.py:24-28`). A retried saved post without a body stays pending for ever, though
`ingest_curation.py` near 620 calls that reachable in one case only; other errors freeze
a stub. A promotion of a stub does not fetch its body. "That candidate will not be admitted again
automatically" (`forget.py:89`) holds of the candidate's row: a search that finds the forgotten
paper under its other id (`arxiv:` beside `openalex:`, `frontier_sources.py:246`, 520), or a repository of which no
row was left behind, makes a new one without a look at what was forgotten
(`frontier_execute.py:165-186`, 317-323), and admission brings the artifact back unasked. `Stages`
does that, and ends what `StaysForgotten` and its theorem say of the item; before such a find they say
that no row that was there, no writer and no repeated search restores it.

*Sittings.* A preview nobody reads silences its region (`sitting_scheduler.py:198-207`). A death
between build and first run, or between `record_run` and `mark_read` (`sitting_reader.py:423-427`),
leaves a part no channel claims. `read_at` is compared with arrivals, so the read of a part built
earlier hides what came since. Parts that always fail head the queue. `GainedIsRead` names the
first three (`Orphan`, `Overlooked`).

*Watchlist.* A pair of GitHub or OpenAlex at the monthly tier falls due when its window is already too
wide, and is refused for ever (`frontier_execute.py:63-64`, 161); `lapsed` excuses it. As many
failing pairs as there are request slots starve the rest, against the comment at 270: they are
not stamped and sort first. A search asks for one page of 25 and keeps what is relevant
(`frontier_execute.py:54`, 298, 338-363), then stamps the pair: what the index had on a second page,
or what the cut dropped, lies behind every later window. `Answers` decides whether an answer has the item or omits
it, and `NothingSkipped` is about windows and stamps only: what it says of an artifact
ends when an answer that was asked for its window omits it. A death between the commit of a candidate and `request_now`
leaves it until the next one comes.

*Proposer and onboarding.* A walk that an empty page cuts short is a full success that met few. If it still
met half of the one before, it is believed (`curation_state.py:243-258`), and whoever it did not come to is
retired though the user follows them, against "retiring someone a broken walk failed to see costs a signal"
(`screen.py:220-222`). `RetiredOnEvidence` allows that: it says what the two gates do stop, not
that they suffice. An unfollow of more than half is never accepted. A GET for a scholar that times out or
gets an error is None (`frontier_sources.py:94-112`), `works()` makes of that no works (673-674), and the candidate is
recorded `empty` (`scholar_probe.py:239-243`), an observation that is good for the TTL of 90 days, against
"failed: ALWAYS due" (`probe_store.py:93-96`) and `scholar_probe.py:219-220`. `RequestFails` does so;
for `SampledAgain` such a candidate is not sampled (`mistaken`) until a pull has been made that was, which
comes with the TTL. The ceiling may be
passed by one, and is read before the lease (`probe_catchup.py:33-43`, 145). Candidates without an
X account are not searched for (`candidate_search.py:231-243`, against `scholar_probe.py:4-6`).
`bookmark_catchup.consented` takes any established store for a yes (55-76), so bookmarks of one who
said no are imported. An import whose thread dies on a host without a worker is not retried.
`connect`'s docstring (`schema.py` near 1390) expects an opener to see a table gone during a
rebuild, which is one transaction.

## Not modelled

`PROJECT.json` gives a note per component. In short:

* *Pure reads*: retrieval, screening SQL, the export's SQL, notices, rendering.
* *Input and parsing*: HTTP clients, the browser protocol, HTML, PDF, cookies. Their outcomes
  are choices of the models that call them.
* *Wording and dispatch* of tools; installers; one-shot local listeners.
* *Inside a component*: scoring and thresholds of the builder and the ranking, prompts, token
  budgets, the text of reports, per-host pacing.
* *Left out though it has state*: sizes, with which the regrow of a region may go back and forth for
  ever; the cache of trust verdicts (a lost write costs a discovery); withdrawals from an archive
  between two of its pages; the Scholar footprint, whose windows are as the others', but a request of
which fails as an empty list too (`works()`), with its stamp moved on.

The map covers three tenths of the implementation; what it does not cover is mostly parsing,
SQL of reads, prompts and formatting.

## Plan

Done: the core (rails, hosted side, calls), the registry and its pulls, the store and its writers,
sittings and watchlist, publications and trust, proposer and onboarding; theorems for every
safety property.

Next, in this order:

1. abstract specifications beside `RailSlots`, with proved refinements: the allowance as a register
   that is filled once, what is served as an atomic register, a pull run as a set that is emptied;
2. the type invariants of the modules whose proofs type only what they need, as theorems of
   their own;
3. the lemmas under the liveness properties that are safety: a measure per property, and that
   no step but the fair one raises it (`QueueDrains`, `SavedArrives`).

## How to run

In this directory, with `tlc`, `tlasany` and `tlapm` 1.4.5 and the community modules on their paths:

    tlc -workers 2 -config Library.cfg LibraryMC.tla      # every cfg: module in PROJECT.json
    tlapm FrontierProofs.tla                               # likewise the other *Proofs

Runs take between half a minute and three on two cores; `FrontierProofs`, `PullProofs` and
`LeaseProofs` take two or three minutes each, the others less.
