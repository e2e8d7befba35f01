-------------------------------- MODULE Signals --------------------------------
(***************************************************************************)
(* Who the user might want as an Oracle: the rows of curation_signals that *)
(* a collector writes by walking one list of the user's on a platform, the *)
(* row collector_runs keeps of the last walk (pipeline/kb/curation_state), *)
(* and the ranking that drops whoever a healthy walk no longer met         *)
(* (pipeline/kb/screen).  The rail, the thread of onboarding and the pull  *)
(* run by hand may walk at the same time; the lease binds the first two.   *)
(*                                                                         *)
(* A behaviour follows one collector: a pass over several is one such walk *)
(* after another, and no walk touches another's rows.  The clock is cut to  *)
(* seconds in both stamps; here it counts the walks begun.                  *)
(***************************************************************************)
EXTENDS Integers, Sequences, FiniteSets

CONSTANTS
  People,        \* accounts a list of the user's may hold, numbered in its order
  SamePerson,    \* [People -> People]: the head of the cluster attested links make
  Collectors,    \* collectors a behaviour may follow
  Maintained,    \* the one whose absences count: x_following
  Saving,        \* those that may stop half way and say so
  Rail,          \* the walker that keeps a floor between its attempts
  Passes,        \* walkers under the lease
  Unleased,      \* walkers without it: the pull run by hand
  Casts,         \* what a behaviour may set to work: the walkers, with bounds on
                 \* the deaths, failures, short walks and evictions (upsets), on
                 \* what the user changes (edits) and on the walks begun (walks)
  Nobody

Walkers == Passes \cup Unleased

ASSUME SignalsAssumption ==
  /\ People \subseteq Nat /\ IsFiniteSet(People) /\ SamePerson \in [People -> People]
  /\ Maintained \notin Saving
  /\ \A p \in People : SamePerson[SamePerson[p]] = SamePerson[p]
  /\ Rail \in Walkers /\ Nobody \notin Walkers
  /\ \A c \in Casts : c.able \subseteq Walkers /\ {c.upsets, c.edits, c.walks} \subseteq Nat

VARIABLES
  col, cast,     \* the collector and the walkers of this behaviour
  onList,        \* who is on the user's list at the platform
  sig,           \* per account: last_confirmed_at of its signal, or None
  run,           \* the row of collector_runs
  head,          \* per account: the canonical_id of its entity
  oracles,       \* canonical ids confirmed
  walk,          \* per walker: where it is, when it began, who is to be written
  pass,          \* who holds the lease curation-catchup
  upsets, edits,
  walks,         \* walks begun, which is also the clock
  met,           \* history: whom the last walk recorded had met
  sizes          \* history: how many the last three had met, newest first

walkVars == <<col, cast, onList, sig, run, head, oracles, walk, pass, upsets, edits, walks, met, sizes>>
history == <<met, sizes>>
counts == <<edits, walks>>

None == -1
NoRow == [ok |-> FALSE, found |-> None, prev |-> None, started |-> None]
Idle == [at |-> "off", started |-> None, left |-> {}, met |-> {}, whole |-> TRUE]

\* From an empty store, or from one in which everybody has been met.
WalkInit(listed) ==
  /\ col \in Collectors /\ cast \in Casts
  /\ onList = People
  /\ sig = [p \in People |-> IF listed THEN 0 ELSE None]
  /\ run = NoRow
  /\ head = [p \in People |-> p]
  /\ oracles = {}
  /\ walk = [w \in Walkers |-> Idle]
  /\ pass = Nobody
  /\ upsets = 0 /\ edits = 0 /\ walks = 0
  /\ met = {} /\ sizes = <<>>

--------------------------------------------------------------------------------
(* The row of the walk. *)

\* A slip: whatever a walk found is the next one's baseline.
Baseline_Latest(r) == r.found

\* The CASE of record_run: a walk that found less than half of the accepted one
\* before it is shown, but the next is not measured by it.
Baseline(r) ==
  IF r.prev = None \/ 2 * r.found >= r.prev THEN r.found ELSE r.prev

\* record_run for a walk that ended well, with the moment it began.
Ended(r, found, started) ==
  [ok |-> TRUE, found |-> found, prev |-> Baseline(r), started |-> started]

\* record_run for any other end: the row says so and keeps its readings.
Failed(r) == [r EXCEPT !.ok = FALSE]

\* walk_is_trustworthy
Trusted(r) ==
  /\ r.ok /\ r.found /= None /\ r.prev /= None
  /\ r.prev <= 0 \/ 2 * r.found >= r.prev

--------------------------------------------------------------------------------
(* The ranking. *)

\* A slip: absence from the last walk that ended, whatever it found.
RetiredIds_Gullible ==
  IF ~run.ok \/ col /= Maintained THEN {}
  ELSE {p \in People : sig[p] /= None /\ sig[p] < run.started}

RetiredIds ==
  IF ~Trusted(run) \/ col /= Maintained THEN {}
  ELSE {p \in People : sig[p] /= None /\ sig[p] < run.started}

Members(h) == {p \in People : head[p] = h /\ sig[p] /= None}
Signalled == {head[p] : p \in {q \in People : sig[q] /= None}}

\* A cluster goes only with the last of its accounts.
Retired(h) == Members(h) /= {} /\ Members(h) \subseteq RetiredIds

Candidates == {h \in Signalled : ~Retired(h)}

--------------------------------------------------------------------------------
(* A walk. *)

At(w, place) == walk[w].at = place
Goes(w, place) == walk' = [walk EXCEPT ![w].at = place]
Leaves(w) ==
  /\ walk' = [walk EXCEPT ![w] = Idle]
  /\ pass' = IF pass = w THEN Nobody ELSE pass
Lost(w) == w \in Passes /\ pass /= w
Upset == upsets < cast.upsets /\ upsets' = upsets + 1

\* CatchupLock: free, left by a dead holder, or taken from one that was silent.
Takes(w) ==
  /\ At(w, "off")
  /\ IF w \in Unleased THEN UNCHANGED <<pass, upsets>>
     ELSE /\ pass' = w
          /\ IF pass = Nobody \/ At(pass, "off") THEN UNCHANGED upsets ELSE Upset

\* Within the floor of the rail (is_due), which is longer than anything here,
\* nothing is walked; paper authors may still have been found, which resolves
\* the entities all the same.  The thread of onboarding and the hand force it.
Skips(w) ==
  /\ Takes(w)
  /\ w = Rail
  /\ Goes(w, "derives")
  /\ UNCHANGED <<col, cast, onList, sig, run, head, oracles, history, counts>>

Begins(w) ==
  /\ Takes(w)
  /\ walks < cast.walks /\ walks' = walks + 1
  /\ walk' = [walk EXCEPT ![w].at = "walks", ![w].started = walks']
  /\ UNCHANGED <<col, cast, onList, sig, run, head, oracles, history, edits>>

\* The lease is looked at again once the collectors are done.
Stops(w) ==
  /\ Lost(w) /\ At(w, "derives")
  /\ Leaves(w)
  /\ UNCHANGED <<col, cast, onList, sig, run, head, oracles, upsets, history, counts>>

\* Whom the walk has met, all of whom are to be written.
Meets(w, some, whole) ==
  walk' = [walk EXCEPT ![w].at = "writes", ![w].left = some, ![w].met = some, ![w].whole = whole]

\* Those on the list before one that is not reached.
Before(last) == {p \in onList : p < last}

\* fetch_following and its like gather the list before they write any of it.
\* A page that comes back empty or in errors ends the walk as the last page would,
\* so it may hold less than the list and nobody is told.
Gathers(w) ==
  /\ At(w, "walks") /\ col \notin Saving
  /\ \/ Meets(w, onList, TRUE) /\ UNCHANGED upsets
     \/ Upset /\ \E last \in onList : Meets(w, Before(last), TRUE)
  /\ UNCHANGED <<col, cast, onList, sig, run, head, oracles, pass, history, counts>>

\* fetch_saved_posts: a later page refused, a cursor that stands still and the page cap
\* end the walk too, but it says so (complete).
GathersSaved(w) ==
  /\ At(w, "walks") /\ col \in Saving
  /\ \/ Meets(w, onList, TRUE) /\ UNCHANGED upsets
     \/ Upset /\ \E last \in onList : Meets(w, Before(last), FALSE)
  /\ UNCHANGED <<col, cast, onList, sig, run, head, oracles, pass, history, counts>>

\* No viewer id, a refused listing, or any exception: nothing was observed.
Refused(w) ==
  /\ At(w, "walks") \/ At(w, "writes")
  /\ Upset
  /\ run' = Failed(run)
  /\ walk' = [walk EXCEPT ![w] = [Idle EXCEPT !.at = "derives"]]
  /\ UNCHANGED <<col, cast, onList, sig, head, oracles, pass, history, counts>>

\* In the order of the list.
Foremost(w) == CHOOSE q \in walk[w].left : \A r \in walk[w].left : q <= r

WritesNext(w) ==
  /\ At(w, "writes") /\ walk[w].left /= {}
  /\ walk' = [walk EXCEPT ![w].left = @ \ {Foremost(w)}]
  /\ UNCHANGED <<col, cast, onList, run, head, oracles, pass, upsets, history, counts>>

\* set_signal confirms.
Writes(w) ==
  /\ WritesNext(w) /\ col \notin Saving
  /\ sig' = [sig EXCEPT ![Foremost(w)] = walks]

\* ensure_signal, for a partial walk, leaves a row as it is.
WritesSaved(w) ==
  /\ WritesNext(w) /\ col \in Saving
  /\ sig' = IF walk[w].whole \/ sig[Foremost(w)] = None
            THEN [sig EXCEPT ![Foremost(w)] = walks] ELSE sig

\* A slip: the moment of the record instead of the moment the walk began.
Began_AtTheEnd(w) == walks
Began(w) == walk[w].started

\* _stamp_run; what it raises is swallowed, and the walk stands unrecorded.
Records(w) ==
  /\ At(w, "writes") /\ walk[w].left = {}
  /\ walk' = [walk EXCEPT ![w] = [Idle EXCEPT !.at = "derives"]]
  /\ \/ /\ run' = Ended(run, Cardinality(walk[w].met), Began(w))
        /\ met' = walk[w].met
        /\ sizes' = SubSeq(<<Cardinality(walk[w].met)>> \o sizes, 1,
                           IF Len(sizes) < 3 THEN Len(sizes) + 1 ELSE 3)
        /\ UNCHANGED upsets
     \/ /\ Upset /\ UNCHANGED <<run, met, sizes>>
  /\ UNCHANGED <<col, cast, onList, sig, head, oracles, pass, counts>>

\* resolve_entities: every canonical_id in one transaction ...
Resolves(w) ==
  /\ At(w, "derives") /\ ~Lost(w)
  /\ head' = SamePerson
  /\ Goes(w, "anchors")
  /\ UNCHANGED <<col, cast, onList, sig, run, oracles, pass, upsets, history, counts>>

\* ... and reanchor_oracles in another.
Anchors(w) ==
  /\ At(w, "anchors")
  /\ oracles' = {head[o] : o \in oracles}
  /\ Leaves(w)
  /\ UNCHANGED <<col, cast, onList, sig, run, head, upsets, history, counts>>

Falls(w) ==
  /\ ~At(w, "off") /\ Upset
  /\ walk' = [walk EXCEPT ![w] = Idle]
  /\ UNCHANGED <<col, cast, onList, sig, run, head, oracles, pass, history, counts>>

--------------------------------------------------------------------------------
(* The user and the clock. *)

Edits == edits < cast.edits /\ edits' = edits + 1

\* The user follows and unfollows, one or many between two walks.
Relists ==
  /\ Edits
  /\ onList' \in SUBSET People \ {onList}
  /\ UNCHANGED <<col, cast, sig, run, head, oracles, walk, pass, upsets, walks, history>>

\* upsert_oracle
Confirms(h) ==
  /\ h \in Candidates \ oracles /\ Edits
  /\ oracles' = oracles \cup {h}
  /\ UNCHANGED <<col, cast, onList, sig, run, head, walk, pass, upsets, walks, history>>

WalkNext ==
  \/ \E w \in cast.able : \/ Stops(w) \/ Skips(w) \/ Begins(w)
                        \/ Gathers(w) \/ GathersSaved(w) \/ Refused(w)
                        \/ Writes(w) \/ WritesSaved(w) \/ Records(w)
                        \/ Resolves(w) \/ Anchors(w) \/ Falls(w)
  \/ Relists

--------------------------------------------------------------------------------
(* Whom a retirement strikes: every account of theirs was missed by the    *)
(* last walk recorded, that walk had met at least half of what the one     *)
(* before it had, and it was not the second in a row to meet less than     *)
(* half of a third (screen.py:213-256, curation_state.py:116-137, 243-258).*)
(* So a failed walk, one that collapsed, two of these in a row and whoever *)
(* walks beside them strike nobody.  A walk that an empty page cuts short  *)
(* of less than that passes for a whole one, and does strike whom it did   *)
(* not come to, though the user follows them still.                        *)
Halved(i, j) == 2 * sizes[i] < sizes[j]

RetiredOnEvidence ==
  \A h \in Signalled \ Candidates :
    /\ sizes /= <<>> /\ run.ok
    /\ {p \in People : head[p] = h} \cap met = {}
    /\ Len(sizes) >= 2 => ~Halved(1, 2)
    /\ Len(sizes) >= 3 => ~(Halved(1, 3) /\ Halved(2, 3))
=============================================================================
