--------------------------------- MODULE Atoms ---------------------------------
(***************************************************************************)
(* One item of the knowledge base as it is stored: its row in atoms, its   *)
(* chunks, its snapshot under kb_raw, and what those who write it have in  *)
(* hand (pipeline/kb/schema.py, raw_store.py, ingest_common.py and         *)
(* forget.py).  Items are written one by one and under their own ids, so   *)
(* what holds of one holds of all of them.                                 *)
(*                                                                         *)
(* The row and the chunks are two commits, and the snapshot is a file:     *)
(* three stores that no transaction spans.                                 *)
(***************************************************************************)
EXTENDS Naturals, FiniteSets

CONSTANTS
  Human,        \* the writers whose ingest says that a person cares for the item
  Forgetters,   \* calls of forget(atom)
  Others,       \* all other writers
  MaxTroubles,  \* bound: what may go wrong, outside the item's own fetches
  MaxAsks       \* bound: calls of the user

Writers == Human \cup Forgetters \cup Others

ASSUME AtomsAssumption ==
  /\ Human \cap Forgetters = {} /\ Human \cap Others = {} /\ Forgetters \cap Others = {}
  /\ MaxTroubles \in Nat /\ MaxAsks \in Nat

VARIABLES
  kind,         \* what the item is: "plain", "thread" or "pictured" (a post of the
                \* user's bookmarks), "paper", "repo", "essay" (a post on Substack that
                \* the user saved) or "article" (of a blog)
  who,          \* the writers there are
  row,          \* the atom's row
  index,        \* the text its chunks are of
  file,         \* the text of its snapshot
  hand,         \* per writer: what it has read or made and not yet used
  was,          \* history: what the properties have to allow for
  troubles, asks

store == <<row, index, file>>
atomVars == <<kind, who, store, hand, was, troubles, asks>>

-----------------------------------------------------------------------------
(* The stores *)

\* "thin" is the text without the thread or the body, "full" with it; "stub" is the thin
\* one with body_state pending.
Texts == {"none", "thin", "stub", "full"}
Modes == {"none", "saved", "referenced", "frontier"}

\* HUMAN_ATTESTED, of the modes that occur here.
HumanAttested == {"saved", "referenced"}

NoRow == [in |-> FALSE, mode |-> "none", text |-> "none"]

\* load_hashes: the text of the row, "none" if there is none.
Hash == row.text

Idle == [step |-> "idle", mode |-> "none", text |-> "none", seen |-> "none",
         led |-> FALSE, tries |-> 0, of |-> "none"]

Clean == [torn |-> FALSE, vouched |-> FALSE, overtaken |-> FALSE,
          barred |-> FALSE]

Busy(w) == hand[w].step /= "idle"
At(w, step) == hand[w].step = step
Asked == asks < MaxAsks /\ asks' = asks + 1
Trouble == troubles < MaxTroubles /\ troubles' = troubles + 1

\* BEGIN IMMEDIATE: while a forget is under way nobody else commits.
Unlocked == \A f \in Forgetters : hand[f].step /= "unlinked"

\* Somebody other than w has committed the row and not yet the chunks.
BetweenCommits(w) == \E v \in Writers \ {w} : At(v, "rowed")

\* Somebody other than w means to write the item as found by a machine.
MachineHasIt(w) ==
  \E v \in Writers \ {w} : hand[v].mode = "frontier" /\ hand[v].step \in {"fetching", "buffered"}

-----------------------------------------------------------------------------
(* What writers do to the stores *)

\* write_snapshot, at the decision to write: before the embedding and the row.
Snapshot(text) == file' = text

\* A slip: only what is not yet in the store is given its columns.
RowOf_Keeps(w) ==
  IF row.in THEN row ELSE [in |-> TRUE, mode |-> hand[w].mode, text |-> hand[w].text]

\* upsert_atom overwrites every column, the mode among them.
RowOf(w) == [in |-> TRUE, mode |-> hand[w].mode, text |-> hand[w].text]

\* A slip: whatever the row was.
Promoted_Any(mode) == IF row.in THEN [row EXCEPT !.mode = mode] ELSE row

\* promote_atom: from frontier, for a mode that is human-attested.
Promoted(mode) ==
  IF row.in /\ row.mode = "frontier" /\ mode \in HumanAttested
  THEN [row EXCEPT !.mode = mode] ELSE row

\* The first commit of _write_atom.
Upsert(w) ==
  /\ At(w, "buffered") /\ Unlocked
  /\ row' = RowOf(w)
  /\ hand' = [hand EXCEPT ![w].step = "rowed"]
  /\ was' = [was EXCEPT !.torn = @ \/ BetweenCommits(w),
                        !.vouched = @ \/ hand[w].mode \in HumanAttested,
                        !.overtaken = IF hand[w].mode \in HumanAttested
                                      THEN MachineHasIt(w) ELSE @]
  /\ UNCHANGED <<kind, who, index, file, troubles, asks>>

\* A slip: chunks that are there are kept.
ChunksOf_Kept(w) == IF index = "none" THEN hand[w].text ELSE index

\* replace_chunks: all of the atom's chunks, in both indexes.
ChunksOf(w) == hand[w].text

\* Its second commit; a sweep and an admission go on after that.
WriteChunks(w, next) ==
  /\ At(w, "rowed") /\ Unlocked
  /\ index' = ChunksOf(w)
  /\ hand' = [hand EXCEPT ![w] = next]
  /\ was' = [was EXCEPT !.torn =
       IF row.in /\ row.text = ChunksOf(w) /\ ~BetweenCommits(w) THEN FALSE ELSE @]
  /\ UNCHANGED <<kind, who, row, file, troubles, asks>>

\* What has been fetched or buffered comes to nothing: the fetch or the embedding
\* failed, "SKIP (no atom, no seen mark)".
Drop(w, next) ==
  /\ hand[w].step \in {"fetching", "buffered"}
  /\ hand' = [hand EXCEPT ![w] = next]
  /\ UNCHANGED <<kind, who, store, was, asks>>

\* The process of w dies.
Death(w) ==
  /\ Busy(w) /\ Trouble
  /\ hand' = [hand EXCEPT ![w] = Idle]
  /\ was' = [was EXCEPT !.torn = @ \/ At(w, "rowed")]
  /\ UNCHANGED <<kind, who, store, asks>>

\* Promotion of an item that a human ingest found present.
Promotion(w, next) ==
  /\ Unlocked
  /\ row' = Promoted(hand[w].mode)
  /\ hand' = [hand EXCEPT ![w] = next]
  /\ was' = [was EXCEPT !.vouched = @ \/ row.in,
                        !.overtaken = IF row.in THEN MachineHasIt(w) ELSE @]

-----------------------------------------------------------------------------
(* forget(atom), confirmed: one transaction *)

\* The snapshot is unlinked inside the transaction, before it commits.
ForgetUnlinks(f) ==
  /\ hand[f] = Idle /\ f \in who /\ row.in /\ Unlocked
  /\ file' = "none"
  /\ hand' = [hand EXCEPT ![f].step = "unlinked"]
  /\ UNCHANGED <<kind, who, row, index, was, troubles>>
  /\ Asked

\* The row and the chunks, with everything that cites the atom.  The atom must stay
\* out if nothing else is bound to bring it back (readmitted: its candidate is due).
ForgetCommits(f, readmitted) ==
  /\ At(f, "unlinked")
  /\ row' = NoRow /\ index' = "none"
  /\ hand' = [hand EXCEPT ![f] = Idle]
  /\ was' = [was EXCEPT !.torn = \E v \in Writers : At(v, "rowed"),
                        !.vouched = FALSE, !.overtaken = FALSE,
                        !.barred = ~readmitted /\ \A v \in Writers \ {f} : ~Busy(v)]
  /\ UNCHANGED <<kind, who, file, troubles, asks>>
=============================================================================
