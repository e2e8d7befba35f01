-------------------------------- MODULE Minting --------------------------------
(***************************************************************************)
(* Items written one at a time: a reference the user deposits (hopper.py), *)
(* an artifact an Oracle referred to (mint_artifact of link_router.py), a  *)
(* candidate of the Frontier that is admitted (frontier_admit.py), and a   *)
(* paper that grows to its full text when it is opened                     *)
(* (upgrade_to_fulltext of ingest_papers.py).  All of them look whether    *)
(* the item is present, fetch for a while, and write what they have made.  *)
(***************************************************************************)
EXTENDS Atoms

CONSTANTS
  Hoppers,      \* deposits of the user
  Linkers,      \* footprints of Oracles that link to the item
  Admitters,    \* the admission rail, single flight
  Openers,      \* calls of open
  PaperIds,     \* the ids under which searches may find the item if it is a paper: the
                \* one of arXiv and the works that OpenAlex has of it
  RepoIds,      \* and if it is a repository
  MaxAttempts   \* ADMIT_MAX_ATTEMPTS

Minters == Hoppers \cup Linkers \cup Admitters \cup Openers

ASSUME MintingAssumption ==
  /\ Hoppers \cup Linkers \subseteq Human /\ Admitters \cup Openers \subseteq Others
  /\ Admitters \cap Openers = {} /\ MaxAttempts \in Nat \ {0}

VARIABLE cand   \* per id: the item's row in frontier_candidates

Artifact == kind \in {"paper", "repo"}

\* The ids are those of the finders, several of which may find one item.
CandidateIds == PaperIds \cup RepoIds
FoundAs == CASE kind = "paper" -> PaperIds [] kind = "repo" -> RepoIds [] OTHER -> {}

NoCandidate == [status |-> "none", attempts |-> 0]
NewCandidate == [status |-> "new", attempts |-> 0]

\* The id that a url predicts is the item's own, but for the owner's casing of a repo;
\* that of a post on Substack is not known before it is fetched.
Recognised == CASE kind = "repo" -> BOOLEAN [] kind = "essay" -> {FALSE} [] OTHER -> {TRUE}

\* classify_link_deep: the landing page of a paper is known for one, or passes for an
\* article, which is another item.
Probed == IF kind = "paper" THEN BOOLEAN ELSE {TRUE}

\* preview, which writes nothing: whether the item is already present.
Foreseen == {row.in /\ known : known \in Recognised}

\* resolve_fulltext: the paper, or only its abstract.
PaperTexts == {"thin", "full"}

\* github_atom_from_url fetches the repo and its README.
RepoTexts == {"full"}

\* _fetch_one_tweet reads the post and its thread, or nothing.
PostTexts == {"full"}

\* substack_atom_from_url and article_atom_from_url keep a whole text or nothing: no
\* preview of a paid post, no challenge page and no page the gate rejects.
EssayTexts == {"full"}
ArticleTexts == {"full"}

Fetched ==
  CASE kind = "paper" -> PaperTexts [] kind = "repo" -> RepoTexts
    [] kind = "essay" -> EssayTexts [] kind = "article" -> ArticleTexts [] OTHER -> PostTexts

\* The user asks again for an item that was forgotten.
Wanted == was' = [was EXCEPT !.barred = FALSE]

-----------------------------------------------------------------------------
(* What becomes of a call *)

\* Present: it is promoted.  Absent, as far as the caller can tell: it is fetched.
Look(w, mode, present) ==
  hand' = [hand EXCEPT ![w] =
    [Idle EXCEPT !.step = IF present THEN "promoting" ELSE "fetching", !.mode = mode,
                 !.seen = IF kind \in {"repo", "essay"} THEN Hash ELSE "none"]]

\* hopper.save, confirmed.
Deposits(w) ==
  /\ w \in who \cap Hoppers /\ hand[w] = Idle
  /\ \E present \in Foreseen, routed \in Probed :
       IF routed THEN Look(w, "saved", present) /\ Wanted ELSE UNCHANGED <<hand, was>>
  /\ UNCHANGED <<kind, who, store, cand, troubles>> /\ Asked

\* mint_artifact, from the footprint of an Oracle.
Links(w) ==
  /\ w \in who \cap Linkers /\ (Artifact \/ kind = "essay") /\ hand[w] = Idle
  /\ \E known \in Recognised : Look(w, "referenced", row.in /\ known)
  /\ Wanted
  /\ UNCHANGED <<kind, who, store, cand, troubles>> /\ Asked

Promotes(w) ==
  /\ At(w, "promoting")
  /\ Promotion(w, Idle)
  /\ UNCHANGED <<kind, who, index, file, cand, troubles, asks>>

\* upgrade_to_fulltext: an abstract, to be rewritten with the columns it had.
Opens(w) ==
  /\ w \in who \cap Openers /\ hand[w] = Idle
  /\ kind = "paper" /\ row.in /\ row.text = "thin"
  /\ hand' = [hand EXCEPT ![w] = [Idle EXCEPT !.step = "fetching", !.mode = row.mode, !.seen = "thin"]]
  /\ UNCHANGED <<kind, who, store, was, cand, troubles>> /\ Asked

\* An admission goes on to its candidate's status; other calls are over.
After(w) == IF w \in Admitters THEN [hand[w] EXCEPT !.step = "settling", !.text = "none"] ELSE Idle

\* A post on Substack, once fetched, is one that was in the store: policy B.
IsIn(w) == kind = "essay" /\ hand[w].seen /= "none"

Finds(w) ==
  /\ At(w, "fetching") /\ IsIn(w) /\ hand[w].mode \in HumanAttested
  /\ hand' = [hand EXCEPT ![w].step = "promoting"]
  /\ UNCHANGED <<kind, who, store, was, cand, troubles, asks>>

\* snapshot_and_hash of what was fetched: unchanged, or a snapshot to be written.
Makes(w, text) ==
  /\ At(w, "fetching") /\ ~IsIn(w) /\ (w \in Openers => text = "full")
  /\ IF hand[w].seen = text
     THEN hand' = [hand EXCEPT ![w] = After(w)] /\ UNCHANGED file
     ELSE hand' = [hand EXCEPT ![w].step = "buffered", ![w].text = text] /\ Snapshot(text)
  /\ UNCHANGED <<kind, who, row, index, was, cand, troubles, asks>>

\* The fetch or the embedding fails.
Fails(w) == Drop(w, After(w)) /\ UNCHANGED <<cand, troubles>>

Stores(w) == (Upsert(w) \/ WriteChunks(w, After(w))) /\ UNCHANGED cand

MintDies(w) == Death(w) /\ UNCHANGED cand

-----------------------------------------------------------------------------
(* Admission *)

\* A slip: also what was admitted, to be refreshed.
Due_Again(i) == cand[i].status \in {"new", "materialized"}

\* due_candidates.
Due(i) == cand[i].status = "new"

\* A slip: the row is refreshed if it is there.
Present_Never == FALSE

\* _present, in any casing.
Present == row.in

\* upsert_candidate, of a search that returns the item: a row is made for an id that has
\* none, whatever was forgotten, and frontier_admit is queued; a row that is there keeps
\* its status.  With a new row the item may come back (was.barred).
Stages(i) ==
  /\ i \in FoundAs /\ cand[i].status = "none" /\ Unlocked
  /\ cand' = [cand EXCEPT ![i] = NewCandidate]
  /\ was' = [was EXCEPT !.barred = FALSE]
  /\ UNCHANGED <<kind, who, store, hand, troubles, asks>>

\* admit_one: present, or fetched to be stored as found by a machine.
Admits(w, i) ==
  /\ w \in who \cap Admitters /\ hand[w] = Idle /\ Due(i)
  /\ hand' = [hand EXCEPT ![w] =
       [Idle EXCEPT !.step = IF Present THEN "settling" ELSE "fetching",
                    !.mode = "frontier", !.tries = cand[i].attempts, !.of = i]]
  /\ UNCHANGED <<kind, who, store, was, cand, troubles, asks>>

\* Presence decides; at the cap the candidate is rejected.
Judged(tries) ==
  IF Present THEN [status |-> "materialized", attempts |-> tries]
  ELSE [status |-> IF tries + 1 >= MaxAttempts THEN "rejected" ELSE "new", attempts |-> tries + 1]

Settles(w) ==
  /\ At(w, "settling") /\ Unlocked
  /\ cand' = [cand EXCEPT ![hand[w].of] = Judged(hand[w].tries)]
  /\ hand' = [hand EXCEPT ![w] = Idle]
  /\ UNCHANGED <<kind, who, store, was, troubles, asks>>

\* requeue_rejected, by hand: every rejected row, or those with one last_error.
Requeues ==
  /\ \E rows \in (SUBSET {i \in CandidateIds : cand[i].status = "rejected"}) \ {{}} :
       cand' = [i \in CandidateIds |-> IF i \in rows THEN NewCandidate ELSE cand[i]]
  /\ Wanted
  /\ UNCHANGED <<kind, who, store, hand, troubles>> /\ Asked

\* What a call or an admission that runs does in the end.
Proceeds(w) ==
  \/ Promotes(w) \/ Finds(w) \/ Fails(w) \/ Stores(w) \/ Settles(w)
  \/ \E i \in CandidateIds : Admits(w, i)
  \/ \E text \in Fetched : Makes(w, text)

MintStep(w) == Deposits(w) \/ Links(w) \/ Opens(w) \/ Proceeds(w) \/ MintDies(w)
=============================================================================
