---------------------------- MODULE SourceReviews ----------------------------
(***************************************************************************)
(* What discovery could not attribute to an Oracle by itself, and what the *)
(* user decides about it: pipeline/kb/oracle_reviews.py and review_sources *)
(* of pipeline/kb/oracles.py.  Each Oracle of Doubtful has one such source,*)
(* of a kind that can be collected; the others have none.  A decision that *)
(* walks or re-checks the source takes a while between the status it has   *)
(* read and the status it writes.                                          *)
(***************************************************************************)
CONSTANTS Oracles, Doubtful, Calls, None

VARIABLES
  confirmed,     \* the Oracles on the roster
  review,        \* per Oracle: the status of its item, "none" without one
  deciding,      \* per call: the decision under way
  crossed        \* history: dismissed while another decision was under way

reviewVars == <<review, deciding, crossed>>

Open == {"pending", "verified"}
Held == {"pending", "verified", "approved", "dismissed"}
NoDecision == [action |-> "none", of |-> None]

ReviewInit ==
  /\ review = [o \in Oracles |-> "none"]
  /\ deciding = [c \in Calls |-> NoDecision]
  /\ crossed = {}

\* held_source_keys: what a discovery that begins now does not route again.
HeldOut(o) == review[o] \in Held

\* A slip: a replay of discovery puts the item back to pending.
RecordOutcome_Reopens(o) == review' = [review EXCEPT ![o] = "pending"]

\* record_outcomes of a source that needs review: a decision wins over a later
\* replay, and whether the Oracle is still subscribed is not asked.
RecordOutcome(o) == review' = [review EXCEPT ![o] = IF @ \in Held THEN @ ELSE "pending"]

\* _set_status, which finds no row once the Oracle was forgotten.
SetStatus(o, status) ==
  review' = [review EXCEPT ![o] = IF @ = "none" THEN @ ELSE status]

\* What routing one discovered source leaves in the table (onboard_footprint):
\* nothing for a trusted one, an item for one that is not.
Route(o, held) ==
  IF o \in Doubtful /\ ~held THEN UNCHANGED review \/ RecordOutcome(o) ELSE UNCHANGED review

UnderWay(o) == \E c \in Calls : deciding[c].of = o

ReviewDismisses(o) ==
  /\ o \in confirmed /\ review[o] \in Open
  /\ SetStatus(o, "dismissed")
  /\ crossed' = IF UnderWay(o) THEN crossed \cup {o} ELSE crossed
  /\ UNCHANGED deciding

ReviewBegins(c, o) ==
  /\ deciding[c] = NoDecision
  /\ o \in confirmed /\ review[o] \in Open
  /\ \E action \in {"add", "verify"} :
       deciding' = [deciding EXCEPT ![c] = [action |-> action, of |-> o]]
  /\ UNCHANGED <<review, crossed>>

\* "add" approves what could be collected, "verify" marks what the evidence
\* supports; otherwise the item stays what it is.
ReviewEnds(c) ==
  LET d == deciding[c]
  IN /\ d /= NoDecision
     /\ deciding' = [deciding EXCEPT ![c] = NoDecision]
     /\ SetStatus(d.of, IF d.action = "add" THEN "approved" ELSE "verified") \/ UNCHANGED review
     /\ UNCHANGED crossed

\* delete_for_oracles
ReviewForgets(o) ==
  /\ review' = [review EXCEPT ![o] = "none"]
  /\ crossed' = crossed \ {o}
  /\ UNCHANGED deciding

\* "This will keep this source out for this Oracle permanently": whatever is
\* discovered again by whichever pull, a dismissed source stays dismissed until
\* its Oracle is forgotten, unless another decision about it was under way.
DismissedStays ==
  [][\A o \in Oracles :
       review[o] = "dismissed" /\ o \notin crossed =>
         \/ review'[o] = "dismissed"
         \/ o \notin confirmed']_<<confirmed, reviewVars>>
=============================================================================
