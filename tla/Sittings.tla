-------------------------------- MODULE Sittings --------------------------------
(***************************************************************************)
(* Which part of a topic is read next, and by whom: the scheduler of the   *)
(* rail (pipeline/kb/sitting_scheduler.py) and the calls of the user       *)
(* (mcp_server/sitting_tools.py) over the same sittings.                   *)
(***************************************************************************)
EXTENDS SittingReader

CONSTANT
  Threshold     \* BREAKER_THRESHOLD

ASSUME ThresholdAssumption == Threshold \in Nat \ {0}

VARIABLES
  asks,
  failures      \* of the scheduler's breaker, which is open at the threshold

vars == <<cast, storeVars, readerVars, asks, failures>>

Init ==
  /\ parts = <<>> /\ arrived = {} /\ seen = {} /\ gone = FALSE
  /\ hand = [d \in Readers |-> Idle] /\ troubles = 0 /\ twice = {}
  /\ cast \in Casts /\ asks = 0 /\ failures = 0

-----------------------------------------------------------------------------
(* The four channels *)

\* A slip: an empty part is as unread as any other.
Unread_Empty(p) == ~parts[p].read

Unread(p) == ~parts[p].read /\ ~parts[p].empty

\* A retry: somebody tried to read it, and no run of its queries is on record as ok.
Pointed == {p \in PartIds : Unread(p) /\ parts[p].parent = 0
                            /\ parts[p].runs /= {} /\ "ok" \notin parts[p].runs}

SubRegion == {p \in PartIds : Unread(p) /\ parts[p].parent /= 0 /\ parts[parts[p].parent].read}

Remainder == {p \in PartIds : parts[p].read /\ parts[p].stop = "budget"
                              /\ ~Continued(p) /\ ~Fractured(p)}

\* A slip: an empty part waits like any other.
Pending_Empty(r) == \E p \in RegionParts(r) : ~parts[p].read

\* A region with a part that waits to be read is not also looked at for new mass.
Pending(r) == \E p \in RegionParts(r) : Unread(p)

NewMass == {r \in Regions : Gained(r) /\ ~Pending(r) /\ \E p \in RegionParts(r) : parts[p].read}

Claims ==
  [channel : {"pointed"}, of : Pointed] \cup [channel : {"new_mass"}, of : {Newest(r) : r \in NewMass}]
  \cup [channel : {"sub_region"}, of : SubRegion] \cup [channel : {"remainder"}, of : Remainder]

Tier(c) == CASE c.channel = "pointed" -> 1 [] c.channel = "new_mass" -> 2 [] OTHER -> 3

\* The first of the queue.  Pointed parts come oldest first; which region gained most and
\* which of the third tier is oldest depends on data that is left out.
First(c) == \A o \in Claims :
  /\ Tier(c) <= Tier(o)
  /\ c.channel = "pointed" /\ o.channel = "pointed" => c.of <= o.of

-----------------------------------------------------------------------------
(* The rail *)

Open == failures = Threshold

\* A pass begins: it takes the best claim, and its clock is read once.
Picks ==
  /\ At("rail", "idle") /\ ~Open
  /\ \E c \in Claims :
       /\ First(c)
       /\ Goes("rail", [step |-> "picked", claim |-> c.channel, part |-> c.of,
                         known |-> parts[c.of].region \in arrived])
  /\ UNCHANGED <<storeVars, troubles, twice, asks, failures>>

\* _act: builds what the claim asks for, and says what is to be read.
Acts ==
  LET c == hand["rail"].claim
      of == hand["rail"].part
      next == Len(parts) + 1
        IN  /\ At("rail", "picked")
      /\ \/ /\ c \in {"pointed", "sub_region"}
            /\ Opens("rail", of, hand["rail"].known) /\ UNCHANGED parts
         \/ /\ c = "new_mass"
            /\ \E stop \in Stops(2) : Grows(of, stop)
            /\ Goes("rail", [step |-> "built", part |-> next])
         \/ /\ c = "remainder"
            /\ \/ /\ \E stop \in Stops(1) : Grows(of, stop)
                  /\ Goes("rail", [step |-> "built", part |-> next])
               \/ /\ Fractures(of, 2)
                  /\ Goes("rail", [step |-> "built", part |-> next, known |-> FALSE])
      /\ UNCHANGED <<arrived, seen, gone, troubles, twice, asks, failures>>

\* What was built is read at once.
Reaches ==
  /\ At("rail", "built")
  /\ Opens("rail", hand["rail"].part, hand["rail"].known)
  /\ UNCHANGED <<storeVars, troubles, twice, asks, failures>>

\* An anchor that cannot be rebuilt, or the store: a failed run of the claim's part.
ActFails ==
  /\ At("rail", "picked") /\ Trouble
  /\ Put(hand["rail"].part, [runs |-> parts[hand["rail"].part].runs \cup {"row"}])
  /\ Rests("rail")
  /\ failures' = IF Open THEN failures ELSE failures + 1
  /\ UNCHANGED <<arrived, seen, gone, twice, asks>>

\* The pass ends: the breaker hears of a success or a failure (not of a skip), and the
\* run of the scheduler itself is a row of the part, too (which matters while it is unread).
PassEnds ==
  /\ hand["rail"].step \in {"over", "failed"}
  /\ LET p == hand["rail"].part
     IN  IF parts[p].read THEN UNCHANGED parts ELSE Put(p, [runs |-> parts[p].runs \cup {"row"}])
  /\ failures' = CASE At("rail", "failed") -> failures + 1
                   [] At("rail", "over") -> 0
  /\ Rests("rail")
  /\ UNCHANGED <<arrived, seen, gone, troubles, twice, asks>>

\* The cooldown is over: one trial, and the next failure opens it again.
Cools ==
  /\ Open /\ failures' = Threshold - 1
  /\ UNCHANGED <<storeVars, readerVars, asks>>

-----------------------------------------------------------------------------
(* The tool *)

Asked == asks < cast.asks /\ asks' = asks + 1 /\ At("tool", "idle")

\* sitting(action='preview'): builds the region as it is now, and queues nothing.
Previews ==
  /\ Asked /\ Room(1)
  /\ \E stop \in Stops(3) : BuildsRoot(stop)
  /\ UNCHANGED <<arrived, seen, gone, readerVars, failures>>

\* sitting(action='read', sitting_id=...), with lens 'queries'.
ToolReads(p) ==
  /\ Asked /\ Opens("tool", p, parts[p].region \in arrived)
  /\ UNCHANGED <<storeVars, troubles, twice, failures>>

\* ... with lens 'claims'.
ToolNotes(p) ==
  /\ Asked /\ ~Distilled(p)
  /\ Goes("tool", [Idle EXCEPT !.step = "noting", !.part = p, !.now = p])
  /\ twice' = twice \cup {<<p, "claims">> : o \in {o \in Others("tool") : Noting(o, p)}}
  /\ UNCHANGED <<storeVars, troubles, failures>>

\* sitting(action='lens', sitting_id=...).
ToolMaps(p) ==
  /\ Asked /\ Goes("tool", [Idle EXCEPT !.step = "mapping", !.part = p])
  /\ UNCHANGED <<storeVars, troubles, twice, failures>>

\* forget(atom), which needs no other call to be over.
ToolForgets ==
  /\ asks < cast.asks /\ asks' = asks + 1
  /\ \E emptied \in SUBSET {p \in PartIds : parts[p].has /\ parts[p].parent = 0} : Forgets(emptied)
  /\ UNCHANGED <<hand, troubles, twice, failures>>

ToolEnds ==
  /\ hand["tool"].step \in {"over", "failed"} /\ Rests("tool")
  /\ UNCHANGED <<storeVars, troubles, twice, asks, failures>>

-----------------------------------------------------------------------------

RailStep == Picks \/ Acts \/ Reaches \/ PassEnds \/ (Reads("rail") /\ UNCHANGED <<asks, failures>>)
ToolStep == ToolEnds \/ (Reads("tool") /\ UNCHANGED <<asks, failures>>)

Fails(d) == (ReadFails(d) \/ Dies(d)) /\ UNCHANGED <<asks, failures>>

User ==
  \/ Previews
  \/ "forget" \in cast.may /\ ToolForgets
  \/ \E p \in PartIds :
       \/ ToolReads(p)
       \/ "claims" \in cast.may /\ ToolNotes(p)
       \/ "lens" \in cast.may /\ ToolMaps(p)

Next ==
  /\ \/ RailStep \/ ToolStep \/ Cools \/ ActFails \/ User
     \/ \E d \in Readers : Fails(d)
     \/ \E r \in Regions : Arrives(r) /\ UNCHANGED <<readerVars, asks, failures>>
  /\ UNCHANGED cast

\* The rail comes round again and goes on unless its process dies, so does a call once it
\* has begun; the cooldown passes.
Fairness ==
  WF_vars(RailStep /\ UNCHANGED cast) /\ WF_vars(ToolStep /\ UNCHANGED cast) /\ WF_vars(Cools /\ UNCHANGED cast)

Spec == Init /\ [][Next]_vars /\ Fairness
SafeSpec == Init /\ [][Next]_vars

-----------------------------------------------------------------------------
(* Properties *)

\* A part is paid for once per lens: "it would be the same input for the same money",
\* unless two readers had it in hand at once, or one died between its commits.
PaidOnce ==
  \A p \in PartIds :
    /\ parts[p].paid <= 1 \/ <<p, "queries">> \in twice
    /\ parts[p].noted <= 1 \/ <<p, "claims">> \in twice

\* Whoever is at the claims of p may well have read it a moment ago.
AtWork(p) == \E d \in Readers : Noting(d, p)

\* What a part is asked about comes with the notebook: when it is rendered, every part
\* before it that was read has left its claims, or was asked for them in this very pass, or
\* is at it, or has shown that it is futile.
NotebookWhole ==
  [][\A d \in Readers :
       At(d, "debts") /\ hand'[d].step = "asking" =>
         \A a \in Ancestors(hand[d].part) :
           parts[a].read => parts[a].distilled \/ parts[a].botched \/ parts[a].empty
                            \/ a \in hand[d].unpaid \/ AtWork(a)]_vars

\* The unread parts that no channel will ever claim: previewed and left at that, built by a
\* pass that died before its first run was on record, or recorded as read and not marked.
Orphan(p) == Unread(p) /\ p \notin Pointed \cup SubRegion

\* Whatever a channel claims is dealt with in the end, once calls no longer fail.
QueueDrains == <>[](Claims = {})

\* Read after the arrival, built before it.
Overlooked(r) == r \in seen /\ \A p \in RegionParts(r) : parts[p].lot => ~parts[p].read

\* "A region is re-read when it has GAINED enough new material": when no channel has a
\* claim and nobody is at work, a region that was read has been read with all that came,
\* unless one of its parts is an orphan, a forget emptied the part that held it, or the
\* read of a part built earlier passes for a read of what came since.
GainedIsRead ==
  Claims = {} /\ (\A d \in Readers : At(d, "idle")) =>
    \A r \in arrived :
      (\E p \in RegionParts(r) : parts[p].read) =>
         \/ \E p \in RegionParts(r) : parts[p].lot /\ (parts[p].read \/ parts[p].empty)
         \/ Overlooked(r)
         \/ \E p \in RegionParts(r) : Orphan(p)
=============================================================================
