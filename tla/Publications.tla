------------------------------ MODULE Publications ------------------------------
(***************************************************************************)
(* The posts of one person's publication, a Substack or a blog, as they    *)
(* come to be held (ingest_substack.py, ingest_blog.py and what they call):*)
(* the rail pulls what is new since its last pull (refresh_pair and        *)
(* _pull_pair of oracle_refresh.py), and the user's call a window of its   *)
(* own, without the rail's lease (onboard_footprint.py, oracles.py).       *)
(*                                                                         *)
(* A post is its number, in the order of publication.  What becomes of one *)
(* that was read and not stored (undetermined, paid, thin, rejected, not   *)
(* embedded) is the same; a publication of several authors is never read.  *)
(* The circuit breaker in front of the rail is OracleRefresh's.            *)
(*                                                                         *)
(* Beside it stands the discovery that says the publication is the         *)
(* person's (SourceTrust), which is over before the first pull: a behaviour*)
(* exercises one of the two.                                               *)
(***************************************************************************)
EXTENDS SourceTrust, FiniteSetsExt

CONSTANTS
  Parts,         \* which of the two a run is about
  MostPosts,     \* bound on the posts
  MaxNow,        \* bound on the clock
  OVERLAP,       \* OVERLAP_HOURS: how far a pull reaches behind the last one
  TTL,           \* FLAT_TTL_HOURS: how old a pull is when the rail makes the next
  COARSE,        \* by how much the date a blog shows may come before the post
  LOOKBACK,      \* the shortest of WEB_LOOKBACK_PRESETS
  MaxMisfortunes,   \* bound on the failures and deaths
  MaxCalls       \* bound on the user's calls

ASSUME PublicationsAssumption ==
  /\ {MostPosts, MaxNow, OVERLAP, TTL, COARSE, LOOKBACK, MaxMisfortunes, MaxCalls} \subseteq Nat
  /\ LOOKBACK > OVERLAP

VARIABLES
  part,          \* the one this behaviour exercises
  kind,          \* substack or blog
  now,
  posts,         \* per post: where it is (unborn, out, held, or passed over: lost behind
                 \* the windows, or left alone for the day it is dated by), when it
                 \* came out, the date shown of it, and the door a blog shows it at
  row,           \* oracle_sources: last_pulled_at and cursor_ts
  reach,         \* history: the oldest window a pull that was stamped had asked for
  singled,       \* the verdict on the authorship is in the cache
  walks,         \* per walker: the pull it makes
  misfortunes, calls

pubVars == <<kind, now, posts, row, reach, singled, walks, misfortunes, calls>>

Posts == 1 .. MostPosts
Walkers == {"rail", "tool"}
Never == -1      \* no stamp, no cursor; as the bound of a window: none, the archive

\* A sitemap dates its entries; hub pages show links without a date, of which the model
\* is asked about the gray ones.
Doors == IF kind = "substack" THEN {"archive"} ELSE {"sitemap", "hub"}
Dated(p) == posts[p].door \in {"archive", "sitemap"}

Resting == [step |-> "idle", since |-> Never, began |-> 0, offset |-> 0,
            left |-> {}, jobs |-> {}, lost |-> {}]

PubInit ==
  /\ kind \in {"substack", "blog"}
  /\ now = 0
  /\ \E archive \in 0 .. MostPosts : \E door \in [Posts -> Doors] :
       posts = [p \in Posts |-> [at |-> IF p <= archive THEN "out" ELSE "unborn",
                                 out |-> 0, date |-> 0, door |-> door[p]]]
  /\ row = [last |-> Never, cursor |-> Never] /\ reach = MaxNow + 1
  /\ singled = FALSE
  /\ walks = [w \in Walkers |-> Resting]
  /\ misfortunes = 0 /\ calls = 0

Misfortune == misfortunes < MaxMisfortunes /\ misfortunes' = misfortunes + 1
At(w, step) == walks[w].step = step
Becomes(w, walk) == walks' = [walks EXCEPT ![w] = walk]
Rests(w) == Becomes(w, Resting)

Published == {p \in Posts : posts[p].at /= "unborn"}
Older(p, since) == since /= Never /\ Dated(p) /\ posts[p].date < since

--------------------------------------------------------------------------------
(* A pull begins. *)

\* A slip: the next window begins where the last pull ended.
SinceFor_Exact(r) == IF r.last /= Never THEN r.last ELSE r.cursor

\* since_for: the last pull, else the newest post held, less the overlap; else no bound.
SinceFor(r) ==
  LET base == IF r.last /= Never THEN r.last ELSE r.cursor
  IN  IF base = Never THEN Never ELSE Max({0, base - OVERLAP})

Stale == row.last = Never \/ now - row.last >= TTL

\* seed_from_entities: a pair that has none gets the date of its newest post as cursor.
Newest == Max({Never} \cup {posts[p].date : p \in {q \in Posts : posts[q].at = "held"}})
Seeded == [row EXCEPT !.cursor = IF @ = Never THEN Newest ELSE @]

\* What a stamp of this moment leaves behind the next window and nobody had stored.
Behind(lost, r) == {p \in lost : posts[p].at = "out" /\ Older(p, SinceFor(r))}
Passes(gone) == posts' = [p \in Posts |-> IF p \in gone THEN [posts[p] EXCEPT !.at = "passed"] ELSE posts[p]]

\* classify_authorship: the model's verdict is cached for good.  gate lets the pull start.
Judges == singled' = TRUE
Starts(w, since) ==
  /\ Judges
  /\ Becomes(w, [Resting EXCEPT !.step = "lists", !.since = since, !.began = now])

RailBegins ==
  /\ At("rail", "idle") /\ Stale
  /\ row' = Seeded
  /\ Starts("rail", SinceFor(Seeded))
  /\ UNCHANGED <<kind, now, posts, reach, misfortunes, calls>>

\* The site or the model does not answer: "skipped", which _pull_pair stamps.
RailSkips ==
  /\ At("rail", "idle") /\ Stale /\ ~singled /\ Misfortune
  /\ row' = [Seeded EXCEPT !.last = now]
  /\ Passes(Behind(Published, row'))
  /\ UNCHANGED <<kind, now, reach, singled, walks, calls>>

\* onboard_footprint asks for the whole archive or for a lookback, never shorter than
\* the pair was left alone; what its gate refuses needs review and is not stamped.
ToolBegins ==
  /\ At("tool", "idle") /\ calls < MaxCalls /\ calls' = calls + 1
  /\ \/ Starts("tool", Never)
     \/ /\ row.last /= Never => now - row.last <= LOOKBACK - OVERLAP
        /\ Starts("tool", Max({0, now - LOOKBACK}))
  /\ UNCHANGED <<kind, now, posts, row, reach, misfortunes>>

--------------------------------------------------------------------------------
(* What there is to read. *)

\* The post on the page at this offset of the archive, newest first.
OnPage(offset) == CHOOSE p \in Published : Cardinality({q \in Published : q > p}) = offset

\* _fetch_all_posts: page after page, to the first that is empty or ends before the
\* window; what is published meanwhile shifts the pages.
ListsPage(w) ==
  LET walk == walks[w]  p == OnPage(walk.offset)
      end == \/ walk.offset >= Cardinality(Published)
             \/ Older(p, walk.since)
  IN  /\ kind = "substack" /\ At(w, "lists")
      /\ Becomes(w,
           IF end THEN [walk EXCEPT !.step = "reads", !.offset = 0]
           ELSE [walk EXCEPT !.offset = @ + 1,
                   !.left = @ \cup {p}])
      /\ UNCHANGED <<kind, now, posts, row, reach, singled, misfortunes, calls>>

\* A fetch of the sitemap or of the pages that fails is an empty one, and nobody is told.
Shown(door) == {p \in Published : posts[p].door = door}
FromSitemap(answers) == IF answers THEN Shown("sitemap") ELSE {}
FromHubs(answers) == IF answers THEN Shown("hub") ELSE {}
\* The model keeps some of the gray links, all of them when it fails.
Triages(grays, kept) == kept \in SUBSET grays

\* discover_candidate_urls: the baseline and what the hub pages add to it.
Harvests(w) ==
  /\ kind = "blog" /\ At(w, "lists")
  /\ \E sitemap, hub \in BOOLEAN : \E kept \in SUBSET Posts :
       /\ Triages(FromHubs(hub), kept)
       /\ IF sitemap /\ hub THEN UNCHANGED misfortunes ELSE Misfortune
       /\ Becomes(w, [walks[w] EXCEPT !.step = "reads",
                        !.left = FromSitemap(sitemap) \cup kept,
                        !.lost = Shown("sitemap") \ FromSitemap(sitemap)])
  /\ UNCHANGED <<kind, now, posts, row, reach, singled, calls>>

\* A page of the archive still fails after its retries (SubstackListingError), or a step
\* of the pull raises: nothing is stamped.
Fails(w) ==
  /\ ~At(w, "idle") /\ Misfortune /\ Rests(w)
  /\ UNCHANGED <<kind, now, posts, row, reach, singled, calls>>

--------------------------------------------------------------------------------
(* Post by post. *)

\* The page has a body, is graded and described, and waits in the sink's buffer; or there
\* is none to be had, the grading refuses it, or a thread of the pool raises.
HandsOn(w, rest, p) == Becomes(w, [rest EXCEPT !.jobs = @ \cup {p}])
ComesToNothing(w, rest, p) == Becomes(w, [rest EXCEPT !.lost = @ \cup {p}])

\* A post a run leaves alone: it is held, or a blog's sitemap dates it before the window
\* (a Substack's were left out when the archive was listed).
HeldAlready(w, p) == posts[p].at = "held"
LeftAlone(w, p) == HeldAlready(w, p) \/ Older(p, walks[w].since)

\* It came out within the window, and its date is that of a day.
Predated(w, p) == posts[p].at = "out" /\ Older(p, walks[w].since) /\ posts[p].out >= walks[w].since

\* _jobs and _work of a Substack's run, and of a blog's, the newest first.
ReadsOn(w, skipped) ==
  LET p == Max(walks[w].left)  rest == [walks[w] EXCEPT !.left = @ \ {p}]
  IN  /\ At(w, "reads") /\ walks[w].left /= {}
      /\ \/ p \in skipped /\ Becomes(w, rest)
         \/ p \notin skipped /\ (HandsOn(w, rest, p) \/ ComesToNothing(w, rest, p))
      /\ posts' = IF p \in skipped /\ Predated(w, p)
                  THEN [posts EXCEPT ![p].at = "predated"] ELSE posts
      /\ UNCHANGED <<kind, now, row, reach, singled, misfortunes, calls>>
ReadsSubstack(w) == kind = "substack" /\ ReadsOn(w, {p \in Posts : HeldAlready(w, p)})
ReadsBlog(w) == kind = "blog" /\ ReadsOn(w, {p \in Posts : LeftAlone(w, p)})

\* AtomSink.flush writes what is in the buffer; what could not be embedded, and what a
\* failing write leaves of the batch, is dropped (run_concurrent goes on).
Flushes(w) ==
  LET walk == walks[w]
  IN  /\ walk.jobs /= {}
      /\ \E kept \in SUBSET walk.jobs :
           /\ IF kept = walk.jobs THEN UNCHANGED misfortunes ELSE Misfortune
           /\ posts' = [p \in Posts |-> IF p \in kept THEN [posts[p] EXCEPT !.at = "held"] ELSE posts[p]]
           /\ Becomes(w, [walk EXCEPT !.jobs = {}, !.lost = @ \cup (walk.jobs \ kept)])
      /\ UNCHANGED <<kind, now, row, reach, singled, calls>>

\* The pull is over: stamped with the present moment, whatever became of its posts.
Stamps(w) ==
  LET walk == walks[w]
  IN  /\ At(w, "reads") /\ walk.left = {} /\ walk.jobs = {}
      /\ row' = [last |-> now, cursor |-> IF Newest /= Never THEN Newest ELSE row.cursor]
      /\ reach' = IF walk.since < reach THEN walk.since ELSE reach
      /\ Passes(Behind(walk.lost, row'))
      /\ Rests(w)
      /\ UNCHANGED <<kind, now, singled, misfortunes, calls>>
RailEnds == Stamps("rail")     \* _pull_pair
ToolEnds == Stamps("tool")     \* _record_coverage, source by source

--------------------------------------------------------------------------------
(* The world outside. *)

\* A Substack tells the moment.  A sitemap may tell the day alone, which is read as the
\* midnight it began with, and it may be the day of another part of the world.
DatesShown(p) == IF posts[p].door = "sitemap" THEN Max({0, now - COARSE}) .. now ELSE {now}

Publishes ==
  /\ \E p \in Posts \ Published : \E date \in DatesShown(p) :
       /\ p - 1 \in Published \cup {0}
       /\ posts' = [posts EXCEPT ![p].at = "out", ![p].out = now, ![p].date = date]
  /\ UNCHANGED <<kind, now, row, reach, singled, walks, misfortunes, calls>>

\* A pull is over before the overlap is: six hours.
Tick ==
  /\ now < MaxNow /\ now' = now + 1
  /\ \A w \in Walkers : ~At(w, "idle") => now' - walks[w].began <= OVERLAP
  /\ UNCHANGED <<kind, posts, row, reach, singled, walks, misfortunes, calls>>

PubNext ==
  \/ RailBegins \/ RailSkips \/ ToolBegins
  \/ \E w \in Walkers : ListsPage(w) \/ Harvests(w) \/ Fails(w)
                        \/ ReadsSubstack(w) \/ ReadsBlog(w) \/ Flushes(w)
  \/ RailEnds \/ ToolEnds
  \/ Publishes \/ Tick

\* The one at rest begins in one state.
SourceInit ==
  /\ part \in Parts /\ PubInit /\ TrustInit
  /\ part = "pulls" => root = CHOOSE a \in X \cup Hubs : TRUE
  /\ part = "discovery" => kind = "substack" /\ Published = {}
SourceNext ==
  \/ part = "pulls" /\ PubNext /\ UNCHANGED <<part, trustVars>>
  \/ part = "discovery" /\ TrustNext /\ UNCHANGED <<part, pubVars>>

SourceSpec == SourceInit /\ [][SourceNext]_<<part, pubVars, trustVars>>

--------------------------------------------------------------------------------
CameBefore(p, since) == Dated(p) /\ posts[p].out < since

\* "The reverse mistake loses content silently and forever" (oracle_refresh_state.py): a
\* post that came out since the oldest window ever pulled is held, or came out within the
\* next window, or a pull saw it and could not store it, or left it alone because the
\* blog dates it by a day that began before the window; none falls between two pulls,
\* though posts come out while the archive is paged through, two walkers pull at once
\* with rows read at different times, and pulls break off anywhere.
StillInReach ==
  \A p \in Posts :
    posts[p].at = "out" /\ row.last /= Never /\ posts[p].out >= reach =>
      ~CameBefore(p, SinceFor(row))
=============================================================================
