------------------------------- MODULE SavedPass -------------------------------
(***************************************************************************)
(* Passes over what the user saved.  Over the X bookmarks (sync_bookmarks  *)
(* of pipeline/kb/ingest_x.py) they are those of the hourly rail, of       *)
(* Enrichment and of the import of the onboarding.  Such a pass loads what *)
(* the store has and the ledger of conversations already looked up, makes  *)
(* the posts on a pool of threads, writes them in batches on its own       *)
(* thread, and saves the ledger at checkpoints and at its end.  Over the   *)
(* posts saved on Substack (sync_substack_saved of ingest_curation.py) the *)
(* six-hourly rail and the pull run by hand pass one post after another:   *)
(* a post whose body is refused is stored without it, and is the only one  *)
(* that a later pass looks at again.                                       *)
(***************************************************************************)
EXTENDS Atoms

CONSTANTS
  Rails,        \* passes of the hourly rail
  Enrichers,    \* passes of Enrichment, which the user starts and which goes on by itself
  Imports,      \* passes of the onboarding, without threads and without a lease
  Savers,       \* passes over the posts saved on Substack
  ByHand        \* those of them that the user starts, without a lease

Passes == Rails \cup Enrichers \cup Imports \cup Savers

ASSUME SavedPassAssumption ==
  /\ Passes \subseteq Human /\ ByHand \subseteq Savers
  /\ Imports \cap (Rails \cup Enrichers) = {} /\ Savers \cap (Rails \cup Enrichers \cup Imports) = {}

VARIABLES
  ledger,       \* x_convo_checked.json has the post
  lease         \* who holds the lease of the passes over the item's list, as Lease.tla models it

passVars == <<ledger, lease>>
NoHolder == "nobody"

Bookmarked == kind \in {"plain", "thread", "pictured"}

\* On a list of the user's, which the next pass walks again.
Listed == Bookmarked \/ kind = "essay"

\* should_stop: the import has no lease to lose, and over the saved posts nobody looks.
Lost(s) == s \notin Imports \cup Savers /\ lease /= s

\* load_hashes and load_state, once, at the start.
Walk(s) ==
  hand' = [hand EXCEPT ![s] =
    [Idle EXCEPT !.step = "walking", !.mode = "saved", !.seen = Hash, !.led = ledger]]

Ready(s) == s \in who /\ Bookmarked

\* run_bookmark_catchup: single flight by the lease.
RailBegins(s) ==
  /\ Ready(s) /\ s \in Rails /\ hand[s] = Idle
  /\ lease = NoHolder /\ lease' = s
  /\ Walk(s)
  /\ UNCHANGED <<kind, who, store, was, ledger, troubles, asks>>

\* run_enrichment: started by the user, and again while posts are owed a thread; it
\* sleeps off the lease.
EnrichmentBegins(s) ==
  /\ Ready(s) /\ s \in Enrichers
  /\ lease = NoHolder /\ lease' = s
  /\ Walk(s)
  /\ UNCHANGED <<kind, who, store, was, ledger, troubles>>
  /\ \/ hand[s] = Idle /\ Asked
     \/ At(s, "resting") /\ UNCHANGED asks

\* The pass limit, no progress, an error, or the lease is somebody else's.
EnrichmentStops(s) ==
  /\ At(s, "resting")
  /\ hand' = [hand EXCEPT ![s] = Idle]
  /\ UNCHANGED <<kind, who, store, was, passVars, troubles, asks>>

\* _pull_x_bookmarks, with enrich=False.
ImportBegins(s) ==
  /\ Ready(s) /\ s \in Imports /\ hand[s] = Idle
  /\ Walk(s)
  /\ UNCHANGED <<kind, who, store, was, passVars, troubles>>
  /\ Asked

\* A slip: what is in the store is not looked at again.
Resolved_Present(s) == hand[s].seen /= "none"

\* In the store and looked up; whether its photos are described is not known here.
Resolved(s) == hand[s].seen /= "none" /\ hand[s].led

PhotosPending == IF kind = "pictured" THEN BOOLEAN ELSE {FALSE}

\* FULLY RESOLVED: nothing to read and nothing to write.
Passed(s) ==
  /\ At(s, "walking") /\ Resolved(s) /\ FALSE \in PhotosPending
  /\ hand' = [hand EXCEPT ![s].step = "hit"]
  /\ UNCHANGED <<kind, who, store, was, passVars, troubles, asks>>

\* _ConvoFetcher.chain and what it reads: a refusal of X ends the reads of the run.
Reads(s) == IF kind = "plain" THEN {TRUE} ELSE IF s \in Imports THEN {FALSE} ELSE BOOLEAN

\* reconstruct_chain: the post in the thread it is of, or bare.
Rendered(read) == IF read THEN "full" ELSE "thin"

\* X refuses, or the budget of the window is known to be spent.
Refused == Trouble

\* _work: the text that came of it, and its snapshot if the store had another.
Works(s, read) ==
  LET text == Rendered(read)
      same == hand[s].seen = text
  IN /\ At(s, "walking") /\ (Resolved(s) => TRUE \in PhotosPending)
     /\ hand' = [hand EXCEPT ![s].step = IF same THEN "hit" ELSE "made",
                             ![s].text = text, ![s].led = @ \/ read]
     /\ IF same THEN UNCHANGED file ELSE Snapshot(text)
     /\ UNCHANGED <<kind, who, row, index, was, passVars, asks>>
     /\ IF read \/ s \in Imports THEN UNCHANGED troubles ELSE Refused

\* The pool thread fails after the chain was read: the post is skipped.
WorkFails(s) ==
  /\ At(s, "walking") /\ ~Resolved(s) /\ TRUE \in Reads(s) /\ Trouble
  /\ hand' = [hand EXCEPT ![s].step = "ending", ![s].led = TRUE]
  /\ UNCHANGED <<kind, who, store, was, passVars, asks>>

\* The walk of the bookmarks ends before it comes to the post.
WalkEnds(s) ==
  /\ At(s, "walking") /\ Trouble
  /\ hand' = [hand EXCEPT ![s].step = "ending"]
  /\ UNCHANGED <<kind, who, store, was, passVars, asks>>

\* _consume: into the buffer, if the lease is still held.
Consumes(s) ==
  /\ At(s, "made") /\ ~Lost(s)
  /\ hand' = [hand EXCEPT ![s].step = "buffered"]
  /\ UNCHANGED <<kind, who, store, was, passVars, troubles, asks>>

\* Every _LEDGER_FLUSH_EVERY posts, whatever the buffer still holds.
Checkpoints(s) ==
  /\ At(s, "buffered") /\ hand[s].led /= ledger
  /\ ledger' = hand[s].led
  /\ UNCHANGED <<kind, who, store, hand, was, lease, troubles, asks>>

Ending(s) == [hand[s] EXCEPT !.step = "ending", !.text = "none"]

\* flush: the batch and then the post alone could not be embedded.
EmbeddingFails(s) ==
  /\ At(s, "buffered") /\ Trouble
  /\ Drop(s, Ending(s)) /\ UNCHANGED passVars

Flushes(s) == (Upsert(s) \/ WriteChunks(s, Ending(s))) /\ UNCHANGED passVars

-----------------------------------------------------------------------------
(* The posts saved on Substack *)

\* run_substack_saved_catchup under its lease, or curation_pull by hand: the list is
\* walked, and then load_hashes and load_body_pending are read, once.
SaverBegins(s) ==
  /\ s \in who \cap Savers /\ kind = "essay" /\ hand[s] = Idle
  /\ hand' = [hand EXCEPT ![s] = [Idle EXCEPT !.step = "posting", !.mode = "saved", !.seen = Hash]]
  /\ IF s \in ByHand THEN Asked /\ UNCHANGED lease
     ELSE lease = NoHolder /\ lease' = s /\ UNCHANGED asks
  /\ UNCHANGED <<kind, who, store, was, ledger, troubles>>

\* The walk of the list is refused, or ends before it comes to the post.
ListCut(s) ==
  /\ At(s, "posting") /\ Trouble
  /\ hand' = [hand EXCEPT ![s].step = "ending"]
  /\ UNCHANGED <<kind, who, store, was, passVars, asks>>

\* load_body_pending: the row says that its body was refused.
BodyPending(s) == hand[s].seen = "stub"

Skipped(s) ==
  /\ At(s, "posting") /\ hand[s].seen /= "none" /\ ~BodyPending(s)
  /\ hand' = [hand EXCEPT ![s].step = "ending"]
  /\ UNCHANGED <<kind, who, store, was, passVars, troubles, asks>>

\* full_post: the body; or a refusal, to be tried again ("stub"); or anything else
\* that goes wrong, which counts as a post without a body ("thin").
Bodies == {"full", "stub", "thin"}

\* One post.  Without a body the text is that of the stub: a row that has it already
\* is left as it is, pending or not.
Posts(s, text) ==
  /\ At(s, "posting") /\ (hand[s].seen = "none" \/ BodyPending(s))
  /\ IF BodyPending(s) /\ text /= "full"
     THEN hand' = [hand EXCEPT ![s].step = "ending"] /\ UNCHANGED file
     ELSE hand' = [hand EXCEPT ![s].step = "buffered", ![s].text = text] /\ Snapshot(text)
  /\ UNCHANGED <<kind, who, row, index, was, passVars, asks>>
  /\ IF text = "full" THEN UNCHANGED troubles ELSE Trouble

-----------------------------------------------------------------------------

\* The end of the pass: the buffer is flushed by then, or discarded because the lease
\* is lost; what was found present is promoted; the ledger is saved in either case.
Ends(s) ==
  /\ \/ hand[s].step \in {"hit", "ending"}
     \/ hand[s].step \in {"walking", "made", "buffered"} /\ Lost(s)
  /\ LET next == IF s \in Enrichers /\ ~Lost(s)
                 THEN [Idle EXCEPT !.step = "resting"] ELSE Idle
     IN IF At(s, "hit") /\ ~Lost(s) THEN Promotion(s, next)
        ELSE hand' = [hand EXCEPT ![s] = next] /\ UNCHANGED <<row, was>>
  /\ ledger' = hand[s].led
  /\ lease' = IF lease = s THEN NoHolder ELSE lease
  /\ UNCHANGED <<kind, who, index, file, troubles, asks>>

\* The holder sleeps past its lease, and another may take it.
LosesLease(s) ==
  /\ lease = s /\ Trouble
  /\ lease' = NoHolder
  /\ UNCHANGED <<kind, who, store, hand, was, ledger, asks>>

PassDies(s) == Death(s) /\ lease' = (IF lease = s THEN NoHolder ELSE lease) /\ UNCHANGED ledger

\* What a pass that runs does in the end.
Advances(s) ==
  \/ EnrichmentStops(s) \/ Passed(s) \/ Consumes(s) \/ Flushes(s) \/ Ends(s)
  \/ \E read \in Reads(s) : Works(s, read)
  \/ Skipped(s) \/ Posts(s, "full")

PassStep(s) ==
  \/ RailBegins(s) \/ EnrichmentBegins(s) \/ ImportBegins(s) \/ SaverBegins(s) \/ Advances(s)
  \/ (\E text \in Bodies : Posts(s, text)) \/ ListCut(s) \/ WorkFails(s) \/ WalkEnds(s) \/ EmbeddingFails(s) \/ Checkpoints(s)
  \/ LosesLease(s) \/ PassDies(s)
=============================================================================
