-------------------------------- MODULE Probes --------------------------------
(***************************************************************************)
(* The sampling of candidates (pipeline/kb/probe_catchup, candidate_probe, *)
(* scholar_probe, probe_store): a pass spends what the attempts of the day *)
(* leave of a daily ceiling, first on the candidates with a timeline on X, *)
(* then, with what that arm says it did not spend, on those who publish.   *)
(* A sample is one post here, whose text may change at its source.         *)
(***************************************************************************)
EXTENDS Signals

CONSTANTS
  OnX,           \* candidates with an X account among their members
  Scholars,      \* candidates known for their papers, with an OpenAlex id
  Ceiling,       \* PROBE_DAILY_CANDIDATES
  Ttl,           \* days a sample is current
  MaxTroubles,   \* bound on refusals, failures, stops and deaths
  MaxPosts       \* bound on the texts published

ASSUME ProbesAssumption ==
  /\ OnX \subseteq People /\ Scholars \subseteq People
  /\ Ceiling \in Nat \ {0} /\ Ttl \in Nat \ {0}
  /\ MaxTroubles \in Nat /\ MaxPosts \in Nat

VARIABLES
  ledger,        \* rows of probe_attempts with today's date
  age,           \* per candidate: days since its last observed pull; Ttl when due
  mistaken,      \* history: candidates whose pull is recorded as an observation, and was
                 \* a request that failed
  source,        \* per candidate: the text at its source
  row,           \* per candidate: the text of its row in probe_atoms
  chunks,        \* per candidate: the text its probe_chunks were made from
  probe,         \* the pass: where it is, the arm, its queue, what is left to spend
  troubles, posts

probeVars == <<ledger, age, mistaken, source, row, chunks, probe, troubles, posts>>

Arms == {"x", "scholar"}
Resting == [at |-> "off", arm |-> "x", queue |-> <<>>, budget |-> 0, spent |-> 0]

\* On a machine where passes run, or none does.
ProbeInit(on) ==
  /\ ledger = 0
  /\ age = [c \in People |-> Ttl] /\ mistaken = {}
  /\ source = [c \in People |-> 1]
  /\ row = [c \in People |-> 0] /\ chunks = [c \in People |-> 0]
  /\ probe = IF on THEN Resting ELSE [Resting EXCEPT !.at = "away"]
  /\ troubles = 0 /\ posts = 0

Trouble == troubles < MaxTroubles /\ troubles' = troubles + 1

--------------------------------------------------------------------------------
(* Who is due. *)

\* fresh_who_ids: ok, empty and unavailable count as observations and last the TTL; a
\* failure does not.
Fresh(c) == age[c] < Ttl

Reached(arm) == IF arm = "x" THEN OnX ELSE Scholars

\* A slip: those who were sampled lately take their places again.
DueIn_Fresh(arm) == {c \in Candidates \cap Reached(arm) : c \notin oracles}

\* Both candidate_queues, in the order of the ranking.
DueIn(arm) == {c \in Candidates \cap Reached(arm) : c \notin oracles /\ ~Fresh(c)}

Ranked(S) ==
  CHOOSE q \in [1 .. Cardinality(S) -> S] :
    \A i, j \in 1 .. Cardinality(S) : i < j => q[i] < q[j]

Queue(arm, budget) ==
  LET due == Ranked(DueIn(arm)) IN
  IF Len(due) <= budget THEN due ELSE SubSeq(due, 1, budget)

\* run_candidate_probe: max(0, ceiling - probed_today)
Allowance == IF ledger >= Ceiling THEN 0 ELSE Ceiling - ledger

--------------------------------------------------------------------------------
(* A pass. *)

InProbe(place) == probe.at = place
Target == Head(probe.queue)

\* The budget is read, then the lease is taken and the first arm draws its queue.
\* An embedder, a session or a breaker that is found wanting before the first
\* candidate leaves the arm an empty queue.
Opens(arm, budget, spent) ==
  \E ready \in {TRUE} \cup (IF troubles < MaxTroubles THEN {FALSE} ELSE {}) :
    /\ troubles' = IF ready THEN troubles ELSE troubles + 1
    /\ probe' = [at |-> "asks", arm |-> arm, budget |-> budget, spent |-> spent,
                 queue |-> IF ready THEN Queue(arm, budget - spent) ELSE <<>>]

ProbeStarts ==
  /\ InProbe("off") /\ Allowance > 0
  /\ DueIn("x") \cup DueIn("scholar") /= {}
  /\ Opens("x", Allowance, 0)
  /\ UNCHANGED <<ledger, age, mistaken, source, row, chunks, posts>>

\* record_attempt goes before the request.
Attempts ==
  /\ InProbe("asks") /\ probe.queue /= <<>>
  /\ ledger' = ledger + 1
  /\ probe' = [probe EXCEPT !.at = "fetches"]
  /\ UNCHANGED <<age, mistaken, source, row, chunks, troubles, posts>>

\* The candidate is done with: counted, and the next one's turn.
Passed == [probe EXCEPT !.at = "asks", !.queue = Tail(probe.queue), !.spent = @ + 1]
Observed(c) == age' = [age EXCEPT ![c] = 0] /\ mistaken' = mistaken \ {c}
Unobserved(c) == age' = [age EXCEPT ![c] = Ttl] /\ mistaken' = mistaken \ {c}

\* A text whose hash the row already has is skipped whole (snapshot_and_hash).
Fetches ==
  /\ InProbe("fetches")
  /\ IF row[Target] = source[Target]
     THEN /\ Observed(Target) /\ probe' = Passed
     ELSE /\ probe' = [probe EXCEPT !.at = "writes"] /\ UNCHANGED <<age, mistaken>>
  /\ UNCHANGED <<ledger, source, row, chunks, troubles, posts>>

\* Empty or unavailable is an observation.
FindsNothing ==
  /\ InProbe("fetches") /\ Trouble
  /\ Observed(Target)
  /\ probe' = Passed
  /\ UNCHANGED <<ledger, source, row, chunks, posts>>

\* An error that is the candidate's own is none, and the pass goes on.  But _get makes of
\* a timeout or an HTTP error nothing, works() makes of that no works, and the arm of
\* scholars records a candidate that has none.
RequestFails ==
  /\ InProbe("fetches") /\ Trouble
  /\ \/ Unobserved(Target)
     \/ /\ probe.arm = "scholar"
        /\ age' = [age EXCEPT ![Target] = 0] /\ mistaken' = mistaken \cup {Target}
  /\ probe' = Passed
  /\ UNCHANGED <<ledger, source, row, chunks, posts>>

\* A rate limit, a dead session or a host that backs off ends the arm: the attempt
\* is in the ledger, but neither pulled nor counted as spent.
ArmStops ==
  /\ InProbe("fetches") /\ Trouble
  /\ probe' = [probe EXCEPT !.at = "asks", !.queue = <<>>]
  /\ UNCHANGED <<ledger, age, mistaken, source, row, chunks, posts>>

\* upsert_probe_atom and replace_probe_chunks commit one after the other.
WritesRow ==
  /\ InProbe("writes")
  /\ row' = [row EXCEPT ![Target] = source[Target]]
  /\ probe' = [probe EXCEPT !.at = "cuts"]
  /\ UNCHANGED <<ledger, age, mistaken, source, chunks, troubles, posts>>

CutsChunks ==
  /\ InProbe("cuts")
  /\ chunks' = [chunks EXCEPT ![Target] = row[Target]]
  /\ Observed(Target) /\ probe' = Passed
  /\ UNCHANGED <<ledger, source, row, troubles, posts>>

\* The sink embeds before it writes: what fails is recorded as failed.
NotEmbedded ==
  /\ InProbe("writes") /\ Trouble
  /\ Unobserved(Target)
  /\ probe' = Passed
  /\ UNCHANGED <<ledger, source, row, chunks, posts>>

\* The second arm takes what the first says it left, from the same budget.
TurnsToScholars ==
  /\ InProbe("asks") /\ probe.queue = <<>> /\ probe.arm = "x"
  /\ IF probe.budget > probe.spent THEN Opens("scholar", probe.budget, probe.spent)
     ELSE /\ probe' = Resting /\ UNCHANGED troubles
  /\ UNCHANGED <<ledger, age, mistaken, source, row, chunks, posts>>

ProbeEnds ==
  /\ InProbe("asks") /\ probe.queue = <<>> /\ probe.arm = "scholar"
  /\ probe' = Resting
  /\ UNCHANGED <<ledger, age, mistaken, source, row, chunks, troubles, posts>>

ProbeDies ==
  /\ ~InProbe("off") /\ Trouble
  /\ probe' = Resting
  /\ UNCHANGED <<ledger, age, mistaken, source, row, chunks, posts>>

--------------------------------------------------------------------------------
(* The world. *)

Posts(c) ==
  /\ posts < MaxPosts /\ posts' = posts + 1
  /\ source' = [source EXCEPT ![c] = @ + 1]
  /\ UNCHANGED <<ledger, age, mistaken, row, chunks, probe, troubles>>

\* UTC midnight, by when the rail has done what a day allows ...
Midnight ==
  /\ ledger' = 0
  /\ age' = [c \in People |-> IF age[c] < Ttl THEN age[c] + 1 ELSE Ttl]
  /\ mistaken' = {c \in mistaken : age'[c] < Ttl}
  /\ UNCHANGED <<source, row, chunks, probe, posts>>

NewDay ==
  /\ InProbe("off") /\ (Allowance = 0 \/ DueIn("x") \cup DueIn("scholar") = {})
  /\ Midnight /\ UNCHANGED troubles

\* ... or not: the machine was off, or a pass runs over it.
LostDay == Trouble /\ Midnight

ProbeStep == Attempts \/ Fetches \/ WritesRow \/ CutsChunks \/ TurnsToScholars \/ ProbeEnds

ProbeNext ==
  \/ ProbeStarts \/ ProbeStep
  \/ FindsNothing \/ RequestFails \/ ArmStops \/ NotEmbedded \/ ProbeDies
  \/ \E c \in OnX \cup Scholars : Posts(c)
  \/ NewDay \/ LostDay

\* The worker runs the rail again and again, and days pass.
ProbeFairness == WF_probeVars(ProbeStarts) /\ WF_probeVars(ProbeStep) /\ WF_probeVars(NewDay)

--------------------------------------------------------------------------------
(* Every candidate a pass can reach is current by a pull that was really   *)
(* made, and searchable by the text at its source, again and again,        *)
(* whatever a finite number of failures, stopped arms and deaths did to    *)
(* the passes, the ledger and the queue: both arms are served from one     *)
(* allowance, and a failure is tried again.  Not at once for a scholar,    *)
(* whose failed request counts as sampled till its TTL has run out         *)
(* (mistaken).  Excused is one whose row was written and whose chunks were *)
(* not when the pass died: its hash matches from then on                   *)
(* (probe_catchup.py:66-121, probe_store.py:278-311, 434-463,              *)
(* scholar_probe.py:216-243).                                              *)
Torn(c) ==
  row[c] = source[c] /\ chunks[c] /= row[c] /\ ~(InProbe("cuts") /\ Target = c)

SampledAgain ==
  \A c \in OnX \cup Scholars :
    []<>(~InProbe("away") /\ c \in Candidates \ oracles
         => Fresh(c) /\ c \notin mistaken /\ (chunks[c] = source[c] \/ Torn(c)))
=============================================================================
