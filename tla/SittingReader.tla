------------------------------ MODULE SittingReader ------------------------------
(***************************************************************************)
(* Reading a part: the debt of its ancestors first, then its queries, then *)
(* its claims (pipeline/kb/sitting_claims.py, sitting_reader.py,           *)
(* reader_core.py and sitting_lenses.py), as two doors do it that know     *)
(* nothing of each other: the rail and the tool.                           *)
(*                                                                         *)
(* A call of the model is a step of its own; so is each commit after it,   *)
(* for no transaction spans them and a process may die between any two.    *)
(***************************************************************************)
EXTENDS SittingStore

CONSTANTS
  MaxTroubles   \* bound: calls that fail, and processes that die

ASSUME MaxTroublesAssumption == MaxTroubles \in Nat

VARIABLES
  hand,         \* per reader: what it is at
  troubles,
  twice         \* history: <<part, lens>> that two readers had in hand, or one that died
                \* between its commits: it may be paid again

readerVars == <<hand, troubles, twice>>

Readers == {"rail", "tool"}

Idle == [step |-> "idle", part |-> 0, debts |-> {}, unpaid |-> {}, now |-> 0,
         known |-> FALSE, claim |-> "none", text |-> FALSE]

At(d, step) == hand[d].step = step
Goes(d, fields) == hand' = [hand EXCEPT ![d] = With(@, fields)]
Rests(d) == hand' = [hand EXCEPT ![d] = Idle]
Trouble == troubles < MaxTroubles /\ troubles' = troubles + 1
NoTrouble == UNCHANGED troubles

\* Past the guard on p's queries and before read_at; likewise for p's claims.
Reading(d, p) == hand[d].part = p /\ hand[d].step \in {"asking", "landed", "recorded"}
Noting(d, p) == hand[d].now = p /\ hand[d].step \in {"noting", "noted"}

Others(d) == Readers \ {d}

-----------------------------------------------------------------------------
(* The notebook: the claims of what was read *)

\* _called_and_failed: the model was reached and what it said was of no use.
CalledAndFailed(p) == parts[p].botched

\* _debtors: ancestors that were read and left no claims, unless trying again is futile.
Debtors(p) ==
  {a \in Ancestors(p) : parts[a].read /\ ~parts[a].distilled /\ ~CalledAndFailed(a)}

\* A slip: claims are extracted whether or not they were.
Distilled_Never(p) == parts[p].empty

\* The guards of read_claims: done already, or nothing to read.
Distilled(p) == parts[p].distilled \/ parts[p].empty

\* read_claims begins on part p, and goes on to `step` if there is nothing to do.
Notes(d, p, else) ==
  IF Distilled(p)
  THEN Goes(d, else) /\ UNCHANGED twice
  ELSE /\ Goes(d, [step |-> "noting", now |-> p])
       /\ twice' = twice \cup {<<p, "claims">> : o \in {o \in Others(d) : Noting(o, p)}}

\* collect_notebook_debt takes the next debt, oldest first.
NextDebt(d) ==
  /\ At(d, "debts") /\ hand[d].debts /= {}
  /\ LET a == CHOOSE a \in hand[d].debts : \A b \in hand[d].debts : a <= b
     IN  IF Distilled(a)
         THEN Goes(d, [debts |-> hand[d].debts \ {a}]) /\ UNCHANGED twice
         ELSE /\ Goes(d, [step |-> "noting", now |-> a, debts |-> hand[d].debts \ {a}])
              /\ twice' = twice \cup {<<a, "claims">> : o \in {o \in Others(d) : Noting(o, a)}}
  /\ NoTrouble /\ UNCHANGED <<storeVars>>

\* After the claims of a debtor the ritual goes on; after those of the part it is over.
AfterNotes(d) == IF hand[d].now = hand[d].part THEN "over" ELSE "debts"

\* The answer is validated, and record_claims commits it.
StoresClaims(d) ==
  /\ At(d, "noting")
  /\ Put(hand[d].now, [noted |-> IF parts[hand[d].now].noted = 2 THEN 2 ELSE parts[hand[d].now].noted + 1])
  /\ Goes(d, [step |-> "noted"])
  /\ NoTrouble /\ UNCHANGED <<arrived, seen, gone, twice>>

\* record_run, then mark_lens_read.
MarksDistilled(d) ==
  /\ At(d, "noted")
  /\ Put(hand[d].now, [distilled |-> TRUE])
  /\ Goes(d, [step |-> AfterNotes(d), now |-> 0])
  /\ NoTrouble /\ UNCHANGED <<arrived, seen, gone, twice>>

\* _fail: with the model's name if it was reached, without it if it was not.
ClaimsFail(d, reached) ==
  /\ At(d, "noting") /\ Trouble
  /\ IF reached THEN Put(hand[d].now, [botched |-> TRUE]) ELSE UNCHANGED parts
  /\ IF AfterNotes(d) = "over" THEN Goes(d, [step |-> "over", now |-> 0])
     ELSE Goes(d, [step |-> "debts", now |-> 0, unpaid |-> hand[d].unpaid \cup {hand[d].now}])
  /\ UNCHANGED <<arrived, seen, gone, twice>>

-----------------------------------------------------------------------------
(* The queries *)

\* A slip: a part is read again if a reader asks for it.
Closed_Never(p) == parts[p].empty

\* The guards of read_sitting.
Closed(p) == parts[p].read \/ parts[p].empty

\* A slip: only one of the two doors collects the debt.
Opens_Rail(d, p, known) ==
  Goes(d, [Idle EXCEPT !.step = "debts", !.part = p, !.known = known,
                       !.debts = IF d = "rail" THEN Debtors(p) ELSE {}])

\* read_part begins: the debtors are listed once.  `known`: what has arrived for the
\* region had done so when the pass read its clock.
Opens(d, p, known) ==
  Goes(d, [Idle EXCEPT !.step = "debts", !.part = p, !.debts = Debtors(p), !.known = known])

\* The debts are dealt with: read_sitting renders the part with the notebook and asks.
Asks(d) ==
  LET p == hand[d].part
  IN  /\ At(d, "debts") /\ hand[d].debts = {}
      /\ IF Closed(p)
         THEN Goes(d, [step |-> "over"]) /\ UNCHANGED twice
         ELSE /\ Goes(d, [step |-> "asking", unpaid |-> {}])
              /\ twice' = twice \cup {<<p, "queries">> : o \in {o \in Others(d) : Reading(o, p)}}
      /\ NoTrouble /\ UNCHANGED <<storeVars>>

\* apply_verdicts and upsert_queries commit what the answer holds.
Lands(d) ==
  /\ At(d, "asking")
  /\ Put(hand[d].part, [paid |-> IF parts[hand[d].part].paid = 2 THEN 2 ELSE parts[hand[d].part].paid + 1])
  /\ Goes(d, [step |-> "landed"])
  /\ NoTrouble /\ UNCHANGED <<arrived, seen, gone, twice>>

\* record_run of lens "queries", status "ok".
RecordsRun(d) ==
  /\ At(d, "landed")
  /\ Put(hand[d].part, [runs |-> parts[hand[d].part].runs \cup {"ok"}])
  /\ Goes(d, [step |-> "recorded"])
  /\ NoTrouble /\ UNCHANGED <<arrived, seen, gone, twice>>

\* mark_read; then read_claims of the same part begins.
Marks(d) ==
  /\ At(d, "recorded")
  /\ MarksRead(hand[d].part, hand[d].known)
  /\ Notes(d, hand[d].part, [step |-> "over"])
  /\ NoTrouble /\ UNCHANGED <<arrived, gone>>

\* The call fails, or nothing in the answer is valid: a failed run, and the part unread.
AskFails(d) ==
  /\ At(d, "asking") /\ Trouble
  /\ Put(hand[d].part, [runs |-> parts[hand[d].part].runs \cup {"row"}])
  /\ Goes(d, [step |-> "failed"])
  /\ UNCHANGED <<arrived, seen, gone, twice>>

-----------------------------------------------------------------------------
(* The lenses *)

\* _map_part: the parts of the chain without a stored output.
Unmapped(p) == {q \in Chain(p) : parts[q].cached = "none"}

\* read_lens renders the oldest of them and calls the model.
Maps(d) ==
  /\ At(d, "mapping") /\ hand[d].now = 0
  /\ IF Unmapped(hand[d].part) \ hand[d].unpaid = {}
     THEN Goes(d, [step |-> "over"])
     ELSE LET todo == Unmapped(hand[d].part) \ hand[d].unpaid
              q == CHOOSE q \in todo : \A o \in todo : q <= o
          IN  Goes(d, [now |-> q, text |-> parts[q].has])
  /\ NoTrouble /\ UNCHANGED <<storeVars, twice>>

\* record_lens_output, whatever has become of the part since it was rendered.
StoresOutput(d) ==
  /\ At(d, "mapping") /\ hand[d].now /= 0
  /\ Put(hand[d].now, [cached |-> IF hand[d].text THEN "with" ELSE "without"])
  /\ Goes(d, [now |-> 0, text |-> FALSE])
  /\ NoTrouble /\ UNCHANGED <<arrived, seen, gone, twice>>

MapFails(d) ==
  /\ At(d, "mapping") /\ hand[d].now /= 0 /\ Trouble
  /\ Goes(d, [now |-> 0, text |-> FALSE, unpaid |-> hand[d].unpaid \cup {hand[d].now}])
  /\ UNCHANGED <<storeVars, twice>>

-----------------------------------------------------------------------------

\* What a reader does of its own accord.
Reads(d) ==
  NextDebt(d) \/ StoresClaims(d) \/ MarksDistilled(d) \/ Asks(d) \/ Lands(d) \/ RecordsRun(d)
  \/ Marks(d) \/ Maps(d) \/ StoresOutput(d)

ReadFails(d) == AskFails(d) \/ (\E reached \in BOOLEAN : ClaimsFail(d, reached)) \/ MapFails(d)

\* The process is killed at whatever it is at.
Dies(d) ==
  /\ ~At(d, "idle") /\ Trouble
  /\ twice' = twice \cup {<<p, "queries">> : p \in {p \in {hand[d].part} : hand[d].step \in {"landed", "recorded"}}}
                    \cup {<<p, "claims">> : p \in {p \in {hand[d].now} : At(d, "noted")}}
  /\ Rests(d)
  /\ UNCHANGED <<storeVars>>
=============================================================================
