------------------------------ MODULE SittingStore ------------------------------
(***************************************************************************)
(* The sittings of one topic as they are stored: the parts that were       *)
(* built, what they continue or were fractured from, which of them was     *)
(* read and which left its claims (pipeline/kb/sitting_store.py,           *)
(* sitting_builder.py, sitting_zoom.py and forget.py).                     *)
(*                                                                         *)
(* The embeddings are abstracted: one lot of new material at most arrives  *)
(* for a region, large enough to count and not redundant, and one atom     *)
(* stands for those that may be forgotten.                                 *)
(***************************************************************************)
EXTENDS Integers, FiniteSets, Sequences

CONSTANTS
  MaxParts,     \* bound: the parts that are built
  Casts         \* bounds that are tried together: [parts, asks, may]

ASSUME StoreAssumption ==
  /\ MaxParts \in Nat
  /\ \A c \in Casts : c.parts \in 0..MaxParts /\ c.asks \in Nat

VARIABLES
  cast,         \* the bounds of this behaviour: parts, calls of the user, and what for
  parts,        \* table sittings, in the order of built_at, with what hangs on its rows
  arrived,      \* the regions that new material has arrived for
  seen,         \* those whose last read_at is later than that
  gone          \* the atom was forgotten

storeVars == <<parts, arrived, seen, gone>>

PartIds == DOMAIN parts

\* region_key: one for the topic, whoever previews it; a sub-region's is its own.
Topic == 0
Regions == 0..MaxParts

\* ancestors: up `continues` from this part on, itself among them.  No row is ever moved,
\* so the walk is made when a part is built, once.
Walk(p) == IF p = 0 THEN {} ELSE {p} \cup parts[p].ancestors

Built(region, continues, parent, stop) ==
  [region |-> region, continues |-> continues, parent |-> parent, stop |-> stop,
   ancestors |-> Walk(continues),
   empty |-> FALSE,                         \* no atom is left in it
   lot |-> region \in arrived,              \* it holds what has arrived
   has |-> ~gone,                           \* it holds the atom that may be forgotten
   read |-> FALSE, runs |-> {},             \* read_at, and its rows in frontier_reader_runs
   distilled |-> FALSE,                     \* the row of lens "claims" in sitting_reads
   botched |-> FALSE,                       \* a claims call reached the model and failed
   cached |-> "none",                       \* the stored output of a lens
   paid |-> 0, noted |-> 0]                 \* how often its queries and claims were stored

\* The parts before it along `continues`, itself not among them.
Ancestors(p) == parts[p].ancestors

\* chain_atom_ids names its atoms by the parts they are in.
Chain(p) == Ancestors(p) \cup {p}

RegionParts(r) == {p \in PartIds : parts[p].region = r}

\* The newest row of a region, which the next part continues.
Newest(r) == CHOOSE p \in RegionParts(r) : \A q \in RegionParts(r) : q <= p

Continued(p) == \E q \in PartIds : parts[q].continues = p
Fractured(p) == \E q \in PartIds : parts[q].parent = p

\* Arrivals after the last read that the newest chain does not hold.
Gained(r) ==
  /\ r \in arrived \ seen
  /\ RegionParts(r) /= {} /\ \A p \in Chain(Newest(r)) : ~parts[p].lot

-----------------------------------------------------------------------------
(* The bound: no part is begun whose sequel would not fit. *)

Sequels ==
  2 * Cardinality({p \in PartIds : parts[p].stop = "budget" /\ ~Continued(p) /\ ~Fractured(p)})
  + Cardinality({r \in Regions : Gained(r)})

Room(n) == Len(parts) + Sequels + n <= cast.parts

Stops(n) == {"saturation"} \cup (IF Room(n) THEN {"budget"} ELSE {})

-----------------------------------------------------------------------------
(* Writes *)

\* _regrow, and the continuing part of _fracture_or_continue: chained to what it continues.
Grown(p, stop) == Built(parts[p].region, p, 0, stop)

\* record_sitting of a build for a phrase: a new root of the topic.
BuildsRoot(stop) == parts' = Append(parts, Built(Topic, 0, 0, stop))

Grows(p, stop) == parts' = Append(parts, Grown(p, stop))

\* zoom(persist=True) commits one sub-sitting after the other.
Subs(p, n) == [i \in 1..n |-> Built(Len(parts) + i, 0, p, "saturation")]
Fractures(p, n) == parts' = parts \o Subs(p, n)

\* A record with several of its fields changed: fields @@ record, by a definition that
\* a proof can expand.
With(record, fields) ==
  [f \in DOMAIN record |-> IF f \in DOMAIN fields THEN fields[f] ELSE record[f]]

Put(p, fields) == parts' = [parts EXCEPT ![p] = With(@, fields)]

\* mark_read, with the moment the pass began: what it knew had arrived counts as seen.
MarksRead(p, known) ==
  /\ Put(p, [read |-> TRUE])
  /\ seen' = IF known THEN seen \cup {parts[p].region} ELSE seen

\* What forget.atom leaves of a part that held the atom.
Purged(p, emptied) == [has |-> FALSE, empty |-> p \in emptied, cached |-> "none"]

\* forget.atom, one transaction: memberships, counts and cached outputs.  It was the only
\* atom of the parts in `emptied`, which are not of a fracture (those are large).
Forgets(emptied) ==
  /\ ~gone /\ gone' = TRUE
  /\ parts' = [p \in PartIds |->
                 IF parts[p].has THEN With(parts[p], Purged(p, emptied)) ELSE parts[p]]
  /\ UNCHANGED <<arrived, seen>>

\* Material arrives for a region that exists (atoms.first_seen, promoted_at).
Arrives(r) ==
  /\ r \notin arrived /\ RegionParts(r) /= {} /\ Room(1)
  /\ arrived' = arrived \cup {r}
  /\ UNCHANGED <<parts, seen, gone>>
=============================================================================
