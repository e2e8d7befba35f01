----------------------------- MODULE LibraryProofs -----------------------------
(***************************************************************************)
(* Proofs about Library: that what is found is what is stored, that what a *)
(* person saved does not become a find of the machine's, and that what was *)
(* forgotten stays out, for any writers, troubles and calls.               *)
(***************************************************************************)
EXTENDS Library, TLAPS

HandFields == {"step", "mode", "text", "seen", "led", "tries", "of"}
Known == {"saved", "referenced", "frontier"}

\* A writer at work has a mode to write, and who refreshes or promotes a bookmark, or
\* promotes what the user asked for, writes as a human does.
Good(r) ==
  /\ DOMAIN r = HandFields
  /\ r.step \in {"fetching", "buffered", "made", "walking", "posting", "hit", "promoting"} => r.mode \in Known
  /\ r.step \in {"made", "walking", "posting", "hit", "promoting"} => r.mode \in HumanAttested

\* It means to write the item as found by a machine.
Machine(r) == r.mode = "frontier" /\ r.step \in {"fetching", "buffered"}

LibraryShapes ==
  /\ DOMAIN hand = Writers /\ hand = [w \in Writers |-> hand[w]]
  /\ \A w \in Writers : Good(hand[w])
  /\ DOMAIN row = {"in", "mode", "text"} /\ (row.in => row.mode \in Known)
  /\ DOMAIN was = {"torn", "vouched", "overtaken", "barred"}

\* Unless it is torn: who is between its commits is alone, and the row is as it wrote it;
\* when nobody is, the chunks are the row's.
Whole ==
  ~was.torn =>
    /\ \A w \in Writers : At(w, "rowed") =>
         row.in /\ row.text = hand[w].text /\ \A v \in Writers : At(v, "rowed") => v = w
    /\ (\A w \in Writers : ~At(w, "rowed")) => index = row.text

\* Unless it was overtaken: the row is a human's, and no machine has it in hand.
Vouched ==
  was.vouched =>
    row.in /\ (~was.overtaken => row.mode \in HumanAttested /\ \A w \in Writers : ~Machine(hand[w]))

\* Nobody has it in hand, and nothing will make a pass or the admission rail pick it up.
Barred ==
  was.barred =>
    ~row.in /\ ~Queued /\ ~Listed /\ \A w \in Writers : hand[w].step = "idle"

LibraryInv == LibraryShapes /\ Whole /\ Vouched /\ Barred

-----------------------------------------------------------------------------
(* Steps that write nothing *)

LEMMA IdleGood == Good(Idle) /\ Idle.step = "idle" /\ ~Machine(Idle)
  BY DEF Good, Idle, HandFields, Machine

\* A writer takes something up or puts it down; nothing is barred thereafter.
LEMMA Handles ==
  ASSUME LibraryInv, NEW w \in Writers, NEW r, hand' = [hand EXCEPT ![w] = r],
         UNCHANGED <<row, index, was>> \/ (UNCHANGED <<row, index>> /\ was' = [was EXCEPT !.barred = FALSE]),
         ~was.barred \/ was' = [was EXCEPT !.barred = FALSE],
         Good(r), hand[w].step /= "rowed", r.step /= "rowed",
         Machine(r) => Machine(hand[w]) \/ ~(was.vouched /\ ~was.overtaken)
  PROVE  LibraryInv'
<1>1. /\ DOMAIN hand' = Writers /\ hand' = [v \in Writers |-> hand'[v]]
      /\ hand'[w] = r /\ \A v \in Writers \ {w} : hand'[v] = hand[v]
  BY DEF LibraryInv, LibraryShapes
<1>2. /\ DOMAIN was' = {"torn", "vouched", "overtaken", "barred"}
      /\ was'.torn = was.torn /\ was'.vouched = was.vouched /\ was'.overtaken = was.overtaken
      /\ ~was'.barred
  BY DEF LibraryInv, LibraryShapes
<1>3. LibraryShapes' BY <1>1, <1>2 DEF LibraryInv, LibraryShapes
<1>4. Whole'
  <2>1. \A v \in Writers : At(v, "rowed")' = At(v, "rowed") BY <1>1 DEF At
  <2>2. \A v \in Writers : At(v, "rowed") => hand'[v] = hand[v] BY <1>1 DEF At
  <2> QED BY <1>2, <2>1, <2>2 DEF LibraryInv, Whole
<1>5. Vouched'
  <2>1. ASSUME NEW v \in Writers, Machine(hand'[v]), was.vouched, ~was.overtaken PROVE FALSE
    BY <1>1, <2>1 DEF LibraryInv, Vouched
  <2> QED BY <1>2, <2>1 DEF LibraryInv, Vouched, Machine
<1>6. Barred' BY <1>2 DEF Barred
<1> QED BY <1>3, <1>4, <1>5, <1>6 DEF LibraryInv

\* The candidate, the ledger and the lease are nobody's hand.
LEMMA Elsewhere ==
  ASSUME LibraryInv, UNCHANGED <<row, index, hand, kind>>,
         \/ UNCHANGED was /\ (UNCHANGED cand \/ ~was.barred)
         \/ was' = [was EXCEPT !.barred = FALSE]
  PROVE  LibraryInv'
<1>1. /\ DOMAIN was' = {"torn", "vouched", "overtaken", "barred"}
      /\ was'.torn = was.torn /\ was'.vouched = was.vouched /\ was'.overtaken = was.overtaken
      /\ was'.barred => was.barred /\ UNCHANGED cand
  BY DEF LibraryInv, LibraryShapes
<1>2. LibraryShapes' BY <1>1 DEF LibraryInv, LibraryShapes
<1>3. Whole' BY <1>1 DEF LibraryInv, Whole, At
<1>4. Vouched' BY <1>1 DEF LibraryInv, Vouched
<1>5. Barred' BY <1>1 DEF LibraryInv, Barred, Queued, Listed, Bookmarked
<1> QED BY <1>2, <1>3, <1>4, <1>5 DEF LibraryInv

-----------------------------------------------------------------------------
(* Steps that write *)

\* Whoever is at work was not barred from it.
LEMMA BusyFree ==
  ASSUME LibraryInv, NEW w \in Writers, hand[w].step /= "idle" PROVE ~was.barred
  BY DEF LibraryInv, Barred

LEMMA UpsertKeeps ==
  ASSUME LibraryInv, NEW w \in Writers, Upsert(w) PROVE LibraryInv'
<1> DEFINE r == [hand[w] EXCEPT !.step = "rowed"]
           human == hand[w].mode \in HumanAttested
<1>1. /\ hand[w].step = "buffered" /\ hand' = [hand EXCEPT ![w].step = "rowed"] /\ UNCHANGED index
      /\ row' = [in |-> TRUE, mode |-> hand[w].mode, text |-> hand[w].text]
      /\ was' = [was EXCEPT !.torn = @ \/ BetweenCommits(w), !.vouched = @ \/ human,
                            !.overtaken = IF human THEN MachineHasIt(w) ELSE @]
  BY DEF Upsert, At, RowOf
<1>2. /\ DOMAIN r = HandFields /\ r.step = "rowed" /\ r.text = hand[w].text /\ r.mode = hand[w].mode
      /\ hand[w].mode \in Known
  BY <1>1 DEF LibraryInv, LibraryShapes, Good, HandFields
<1>3. Good(r) /\ ~Machine(r) BY <1>2 DEF Good, Machine
<1>4. /\ DOMAIN hand' = Writers /\ hand' = [v \in Writers |-> hand'[v]]
      /\ hand'[w] = r /\ \A v \in Writers \ {w} : hand'[v] = hand[v]
  BY <1>1 DEF LibraryInv, LibraryShapes
<1>5. /\ DOMAIN was' = {"torn", "vouched", "overtaken", "barred"}
      /\ was'.torn <=> was.torn \/ BetweenCommits(w)
      /\ was'.vouched <=> was.vouched \/ human
      /\ was'.overtaken <=> IF human THEN MachineHasIt(w) ELSE was.overtaken
      /\ was'.barred = was.barred
  BY <1>1 DEF LibraryInv, LibraryShapes
<1>6. /\ DOMAIN row' = {"in", "mode", "text"} /\ row'.in /\ row'.mode = hand[w].mode
      /\ row'.text = hand[w].text
  BY <1>1
<1> HIDE DEF r, human
<1>7. LibraryShapes' BY <1>2, <1>3, <1>4, <1>5, <1>6 DEF LibraryInv, LibraryShapes
<1>8. Whole'
  <2>1. ASSUME ~was'.torn, NEW v \in Writers, hand'[v].step = "rowed" PROVE v = w
    BY <1>4, <1>5, <2>1 DEF BetweenCommits, At
  <2>2. hand'[w].step = "rowed" /\ row'.in /\ row'.text = hand'[w].text BY <1>2, <1>4, <1>6
  <2> QED BY <2>1, <2>2 DEF Whole, At
<1>9. Vouched'
  <2>1. CASE human
    <3>1. ASSUME ~was'.overtaken, NEW v \in Writers PROVE ~Machine(hand'[v])
      BY <1>3, <1>4, <1>5, <2>1, <3>1 DEF MachineHasIt, Machine
    <3> QED BY <1>6, <2>1, <3>1 DEF Vouched, human
  <2>2. CASE ~human
    <3>1. Machine(hand[w]) BY <1>1, <1>2, <2>2 DEF human, Machine, Known, HumanAttested
    <3>2. was'.vouched => was'.overtaken BY <1>5, <2>2, <3>1 DEF LibraryInv, Vouched
    <3> QED BY <1>6, <3>2 DEF Vouched
  <2> QED BY <2>1, <2>2
<1>10. Barred'
  <2>1. ~was.barred BY <1>1, BusyFree
  <2> QED BY <1>5, <2>1 DEF Barred
<1> QED BY <1>7, <1>8, <1>9, <1>10 DEF LibraryInv

LEMMA WriteChunksKeeps ==
  ASSUME LibraryInv, NEW w \in Writers, NEW next, Good(next), ~Machine(next), next.step /= "rowed",
         WriteChunks(w, next)
  PROVE  LibraryInv'
<1>1. /\ hand[w].step = "rowed" /\ hand' = [hand EXCEPT ![w] = next] /\ UNCHANGED row
      /\ index' = hand[w].text
      /\ was' = [was EXCEPT !.torn =
            IF row.in /\ row.text = hand[w].text /\ ~BetweenCommits(w) THEN FALSE ELSE @]
  BY DEF WriteChunks, At, ChunksOf
<1>2. /\ DOMAIN hand' = Writers /\ hand' = [v \in Writers |-> hand'[v]]
      /\ hand'[w] = next /\ \A v \in Writers \ {w} : hand'[v] = hand[v]
  BY <1>1 DEF LibraryInv, LibraryShapes
<1>3. /\ DOMAIN was' = {"torn", "vouched", "overtaken", "barred"}
      /\ ~was'.torn => ~was.torn \/ (row.in /\ row.text = hand[w].text /\ ~BetweenCommits(w))
      /\ was'.vouched = was.vouched /\ was'.overtaken = was.overtaken /\ was'.barred = was.barred
  BY <1>1 DEF LibraryInv, LibraryShapes
<1>4. LibraryShapes' BY <1>1, <1>2, <1>3 DEF LibraryInv, LibraryShapes
<1>5. Whole'
  <2>1. ASSUME ~was'.torn PROVE row.text = hand[w].text /\ \A v \in Writers : hand'[v].step /= "rowed"
    <3>1. CASE ~was.torn BY <1>1, <1>2, <3>1 DEF LibraryInv, Whole, At
    <3>2. CASE row.text = hand[w].text /\ ~BetweenCommits(w) BY <1>2, <3>2 DEF BetweenCommits, At
    <3> QED BY <1>3, <2>1, <3>1, <3>2
  <2> QED BY <1>1, <2>1 DEF Whole, At
<1>6. Vouched'
  <2>1. \A v \in Writers : Machine(hand'[v]) => Machine(hand[v]) BY <1>2
  <2> QED BY <1>1, <1>3, <2>1 DEF LibraryInv, Vouched, Machine
<1>7. Barred'
  <2>1. ~was.barred BY <1>1, BusyFree
  <2> QED BY <1>3, <2>1 DEF Barred
<1> QED BY <1>4, <1>5, <1>6, <1>7 DEF LibraryInv

LEMMA PromotionKeeps ==
  ASSUME LibraryInv, NEW w \in Writers, NEW next, Good(next), ~Machine(next), next.step /= "rowed",
         hand[w].step \in {"hit", "promoting"}, Promotion(w, next), UNCHANGED index
  PROVE  LibraryInv'
<1>1. /\ hand' = [hand EXCEPT ![w] = next] /\ row' = Promoted(hand[w].mode)
      /\ was' = [was EXCEPT !.vouched = @ \/ row.in,
                            !.overtaken = IF row.in THEN MachineHasIt(w) ELSE @]
      /\ hand[w].mode \in HumanAttested
  BY DEF Promotion, LibraryInv, LibraryShapes, Good
<1>2. /\ DOMAIN hand' = Writers /\ hand' = [v \in Writers |-> hand'[v]]
      /\ hand'[w] = next /\ \A v \in Writers \ {w} : hand'[v] = hand[v]
  BY <1>1 DEF LibraryInv, LibraryShapes
<1>3. /\ DOMAIN was' = {"torn", "vouched", "overtaken", "barred"}
      /\ was'.torn = was.torn /\ was'.barred = was.barred
      /\ was'.vouched <=> was.vouched \/ row.in
      /\ was'.overtaken <=> IF row.in THEN MachineHasIt(w) ELSE was.overtaken
  BY <1>1 DEF LibraryInv, LibraryShapes
<1>4. /\ DOMAIN row' = {"in", "mode", "text"} /\ row'.in = row.in /\ row'.text = row.text
      /\ row.in => row'.mode \in HumanAttested
  <2>1. CASE row.in /\ row.mode = "frontier" /\ hand[w].mode \in HumanAttested
    BY <1>1, <2>1 DEF Promoted, LibraryInv, LibraryShapes
  <2>2. CASE ~(row.in /\ row.mode = "frontier" /\ hand[w].mode \in HumanAttested)
    <3>1. row' = row BY <1>1, <2>2 DEF Promoted
    <3> QED BY <1>1, <2>2, <3>1 DEF LibraryInv, LibraryShapes, Known, HumanAttested
  <2> QED BY <2>1, <2>2
<1>5. LibraryShapes'
  <2>1. row'.in => row'.mode \in Known BY <1>4 DEF Known, HumanAttested
  <2> QED BY <1>2, <1>3, <1>4, <2>1 DEF LibraryInv, LibraryShapes
<1>6. Whole'
  <2>1. \A v \in Writers : At(v, "rowed")' = At(v, "rowed") BY <1>2 DEF At
  <2>2. \A v \in Writers : At(v, "rowed") => hand'[v] = hand[v] BY <1>2 DEF At
  <2> QED BY <1>3, <1>4, <2>1, <2>2 DEF LibraryInv, Whole
<1>7. Vouched'
  <2>1. CASE row.in
    <3>1. ASSUME ~was'.overtaken, NEW v \in Writers PROVE ~Machine(hand'[v])
      BY <1>2, <1>3, <2>1, <3>1 DEF MachineHasIt, Machine
    <3> QED BY <1>4, <2>1, <3>1 DEF Vouched
  <2>2. CASE ~row.in
    <3>1. ~was'.vouched BY <1>3, <2>2 DEF LibraryInv, Vouched
    <3> QED BY <3>1 DEF Vouched
  <2> QED BY <2>1, <2>2
<1>8. Barred'
  <2>1. ~was.barred BY BusyFree
  <2> QED BY <1>3, <2>1 DEF Barred
<1> QED BY <1>5, <1>6, <1>7, <1>8 DEF LibraryInv

LEMMA DeathKeeps ==
  ASSUME LibraryInv, NEW w \in Writers, Death(w) PROVE LibraryInv'
<1>1. /\ hand[w].step /= "idle" /\ hand' = [hand EXCEPT ![w] = Idle] /\ UNCHANGED <<row, index>>
      /\ was' = [was EXCEPT !.torn = @ \/ hand[w].step = "rowed"]
  BY DEF Death, Busy, At, store
<1>2. /\ DOMAIN hand' = Writers /\ hand' = [v \in Writers |-> hand'[v]]
      /\ hand'[w] = Idle /\ \A v \in Writers \ {w} : hand'[v] = hand[v]
  BY <1>1 DEF LibraryInv, LibraryShapes
<1>3. /\ DOMAIN was' = {"torn", "vouched", "overtaken", "barred"}
      /\ was'.torn <=> was.torn \/ hand[w].step = "rowed"
      /\ was'.vouched = was.vouched /\ was'.overtaken = was.overtaken /\ was'.barred = was.barred
  BY <1>1 DEF LibraryInv, LibraryShapes
<1>4. LibraryShapes' BY <1>1, <1>2, <1>3, IdleGood DEF LibraryInv, LibraryShapes
<1>5. Whole'
  <2>1. ASSUME ~was'.torn, NEW v \in Writers PROVE At(v, "rowed")' = At(v, "rowed")
    BY <1>2, <1>3, <2>1, IdleGood DEF At
  <2>2. ASSUME ~was'.torn, NEW v \in Writers, At(v, "rowed") PROVE hand'[v] = hand[v]
    BY <1>2, <1>3, <2>2 DEF At
  <2> QED BY <1>1, <1>3, <2>1, <2>2 DEF LibraryInv, Whole
<1>6. Vouched'
  <2>1. \A v \in Writers : Machine(hand'[v]) => Machine(hand[v]) BY <1>2, IdleGood
  <2> QED BY <1>1, <1>3, <2>1 DEF LibraryInv, Vouched, Machine
<1>7. Barred'
  <2>1. ~was.barred BY <1>1, BusyFree
  <2> QED BY <1>3, <2>1 DEF Barred
<1> QED BY <1>4, <1>5, <1>6, <1>7 DEF LibraryInv

LEMMA ForgetsKeep ==
  ASSUME LibraryInv, NEW f \in Writers, NEW readmitted, ForgetCommits(f, readmitted),
         readmitted <=> Queued \/ Listed, UNCHANGED <<kind, cand>>
  PROVE  LibraryInv'
<1>1. /\ hand[f].step = "unlinked" /\ hand' = [hand EXCEPT ![f] = Idle]
      /\ row' = NoRow /\ index' = "none"
      /\ was' = [was EXCEPT !.torn = \E v \in Writers : At(v, "rowed"),
                            !.vouched = FALSE, !.overtaken = FALSE,
                            !.barred = ~readmitted /\ \A v \in Writers \ {f} : ~Busy(v)]
  BY DEF ForgetCommits, At
<1>2. /\ DOMAIN hand' = Writers /\ hand' = [v \in Writers |-> hand'[v]]
      /\ hand'[f] = Idle /\ \A v \in Writers \ {f} : hand'[v] = hand[v]
  BY <1>1 DEF LibraryInv, LibraryShapes
<1>3. /\ DOMAIN was' = {"torn", "vouched", "overtaken", "barred"}
      /\ was'.torn <=> \E v \in Writers : At(v, "rowed")
      /\ ~was'.vouched
      /\ was'.barred <=> ~readmitted /\ \A v \in Writers \ {f} : ~Busy(v)
  BY <1>1 DEF LibraryInv, LibraryShapes
<1>4. /\ DOMAIN row' = {"in", "mode", "text"} /\ ~row'.in /\ row'.text = "none"
  BY <1>1 DEF NoRow
<1>5. LibraryShapes' BY <1>2, <1>3, <1>4, IdleGood DEF LibraryInv, LibraryShapes
<1>6. Whole'
  <2>1. ASSUME ~was'.torn, NEW v \in Writers PROVE ~At(v, "rowed")'
    BY <1>2, <1>3, <2>1, IdleGood DEF At
  <2> QED BY <1>1, <1>4, <2>1 DEF Whole
<1>7. Vouched' BY <1>3 DEF Vouched
<1>8. Barred'
  <2>1. \A v \in Writers \ {f} : ~Busy(v) => hand'[v].step = "idle" BY <1>2 DEF Busy
  <2>2. hand'[f].step = "idle" BY <1>2, IdleGood
  <2> QED BY <1>3, <1>4, <2>1, <2>2 DEF Barred, Queued, Listed, Bookmarked
<1> QED BY <1>5, <1>6, <1>7, <1>8 DEF LibraryInv

-----------------------------------------------------------------------------
(* Every step *)

LEMMA WriterSets == Passes \subseteq Writers /\ Minters \subseteq Writers /\ Forgetters \subseteq Writers
  BY LibraryAssumption

LEMMA ModeSets ==
  /\ "saved" \in Known /\ "referenced" \in Known /\ "frontier" \in Known
  /\ "saved" \in HumanAttested /\ "referenced" \in HumanAttested
  /\ "saved" /= "frontier" /\ "referenced" /= "frontier" /\ "frontier" \notin HumanAttested
  /\ HumanAttested \subseteq Known
  BY DEF Known, HumanAttested

\* A pass begins.
LEMMA WalkKeeps ==
  ASSUME LibraryInv, NEW s \in Passes, Listed, NEW r, hand' = [hand EXCEPT ![s] = r],
         DOMAIN r = HandFields, r.step \in {"walking", "posting"}, r.mode = "saved",
         UNCHANGED <<row, index, was>>, hand[s].step /= "rowed"
  PROVE  LibraryInv'
<1>1. Good(r) /\ ~Machine(r) BY ModeSets DEF Good, Machine
<1>2. ~was.barred BY DEF LibraryInv, Barred
<1> QED BY <1>1, <1>2, WriterSets, Handles

\* A step of a pass that writes nothing.
LEMMA PassHandles ==
  ASSUME LibraryInv, NEW s \in Passes, NEW r, hand' = [hand EXCEPT ![s] = r],
         UNCHANGED <<row, index, was>>, hand[s].step \notin {"idle", "rowed"},
         DOMAIN r = HandFields, r.step /= "rowed", r.step /= "fetching",
         \/ r.step \in {"idle", "resting", "ending"}
         \/ r.mode \in HumanAttested
  PROVE  LibraryInv'
<1>1. s \in Writers BY WriterSets
<1>2. ~was.barred BY <1>1, BusyFree
<1>3. Good(r) /\ ~Machine(r) BY ModeSets DEF Good, Machine
<1> QED BY <1>1, <1>2, <1>3, Handles

LEMMA HandShape ==
  ASSUME LibraryInv, NEW w \in Writers
  PROVE  /\ DOMAIN hand[w] = HandFields
         /\ hand[w].step \in {"made", "walking", "posting", "hit", "promoting"} => hand[w].mode \in HumanAttested
         /\ hand[w].step \in {"fetching", "buffered"} => hand[w].mode \in Known
  BY DEF LibraryInv, LibraryShapes, Good

LEMMA EndsKeeps == ASSUME LibraryInv, NEW s \in Passes, Ends(s) PROVE LibraryInv'
<1> DEFINE next == IF s \in Enrichers /\ ~Lost(s) THEN [Idle EXCEPT !.step = "resting"] ELSE Idle
<1>1. /\ hand[s].step \in {"hit", "ending", "walking", "made", "buffered"} /\ UNCHANGED index
      /\ \/ hand[s].step = "hit" /\ Promotion(s, next)
         \/ hand' = [hand EXCEPT ![s] = next] /\ UNCHANGED <<row, was>>
  BY DEF Ends, At
<1>2. DOMAIN next = HandFields /\ next.step \in {"idle", "resting"} BY DEF Idle, HandFields
<1> HIDE DEF next
<1>3. Good(next) /\ ~Machine(next) BY <1>2 DEF Good, Machine
<1>4. CASE hand[s].step = "hit" /\ Promotion(s, next)
  BY <1>1, <1>2, <1>3, <1>4, WriterSets, PromotionKeeps
<1>5. CASE hand' = [hand EXCEPT ![s] = next] /\ UNCHANGED <<row, was>>
  BY <1>1, <1>2, <1>5, PassHandles
<1> QED BY <1>1, <1>4, <1>5

LEMMA WorksKeeps == ASSUME LibraryInv, NEW s \in Passes, NEW read, Works(s, read) PROVE LibraryInv'
<1> DEFINE r == [hand[s] EXCEPT !.step = IF hand[s].seen = Rendered(read) THEN "hit" ELSE "made",
                                !.text = Rendered(read), !.led = @ \/ read]
<1>0. s \in Writers /\ DOMAIN hand[s] = HandFields BY WriterSets, HandShape
<1>1. /\ hand[s].step = "walking" /\ UNCHANGED <<row, index, was>>
      /\ hand' = [hand EXCEPT ![s] = r]
  BY <1>0 DEF Works, At
<1>2. DOMAIN r = HandFields /\ r.step \in {"hit", "made"} /\ r.mode = hand[s].mode
  BY <1>0 DEF HandFields
<1> HIDE DEF r
<1>3. r.mode \in HumanAttested BY <1>0, <1>1, <1>2, HandShape
<1> QED BY <1>1, <1>2, <1>3, PassHandles

LEMMA PostsKeep == ASSUME LibraryInv, NEW s \in Passes, NEW text, Posts(s, text) PROVE LibraryInv'
<1> DEFINE q == [hand[s] EXCEPT !.step = "ending"]
           r == [hand[s] EXCEPT !.step = "buffered", !.text = text]
<1>0. s \in Writers /\ DOMAIN hand[s] = HandFields BY WriterSets, HandShape
<1>1. /\ hand[s].step = "posting" /\ UNCHANGED <<row, index, was>>
      /\ hand' = [hand EXCEPT ![s] = q] \/ hand' = [hand EXCEPT ![s] = r]
  BY <1>0 DEF Posts, At
<1>2. /\ DOMAIN q = HandFields /\ q.step = "ending"
      /\ DOMAIN r = HandFields /\ r.step = "buffered" /\ r.mode = hand[s].mode
  BY <1>0 DEF HandFields
<1> HIDE DEF q, r
<1>3. r.mode \in HumanAttested BY <1>0, <1>1, <1>2, HandShape
<1> QED BY <1>1, <1>2, <1>3, PassHandles

LEMMA AdvancesKeep == ASSUME LibraryInv, NEW s \in Passes, Advances(s) PROVE LibraryInv'
<1>0. s \in Writers /\ DOMAIN hand[s] = HandFields BY WriterSets, HandShape
<1>1. CASE EnrichmentStops(s)
  <2>1. hand[s].step = "resting" /\ hand' = [hand EXCEPT ![s] = Idle] /\ UNCHANGED <<row, index, was>>
    BY <1>1 DEF EnrichmentStops, At, store
  <2>2. DOMAIN Idle = HandFields /\ Idle.step = "idle" BY IdleGood DEF Good
  <2> QED BY <2>1, <2>2, PassHandles
<1>2. CASE Passed(s)
  <2> DEFINE r == [hand[s] EXCEPT !.step = "hit"]
  <2>1. hand[s].step = "walking" /\ hand' = [hand EXCEPT ![s] = r] /\ UNCHANGED <<row, index, was>>
    BY <1>0, <1>2 DEF Passed, At, store
  <2>2. DOMAIN r = HandFields /\ r.step = "hit" /\ r.mode = hand[s].mode BY <1>0 DEF HandFields
  <2> HIDE DEF r
  <2>3. r.mode \in HumanAttested BY <1>0, <2>1, <2>2, HandShape
  <2> QED BY <2>1, <2>2, <2>3, PassHandles
<1>3. CASE Consumes(s)
  <2> DEFINE r == [hand[s] EXCEPT !.step = "buffered"]
  <2>1. hand[s].step = "made" /\ hand' = [hand EXCEPT ![s] = r] /\ UNCHANGED <<row, index, was>>
    BY <1>0, <1>3 DEF Consumes, At, store
  <2>2. DOMAIN r = HandFields /\ r.step = "buffered" /\ r.mode = hand[s].mode BY <1>0 DEF HandFields
  <2> HIDE DEF r
  <2>3. r.mode \in HumanAttested BY <1>0, <2>1, <2>2, HandShape
  <2> QED BY <2>1, <2>2, <2>3, PassHandles
<1>4. CASE Flushes(s)
  <2> DEFINE r == [hand[s] EXCEPT !.step = "ending", !.text = "none"]
  <2>1. Upsert(s) \/ WriteChunks(s, r) BY <1>4 DEF Flushes, Ending
  <2>2. DOMAIN r = HandFields /\ r.step = "ending" BY <1>0 DEF HandFields
  <2> HIDE DEF r
  <2>3. Good(r) /\ ~Machine(r) BY <2>2 DEF Good, Machine
  <2> QED BY <1>0, <2>1, <2>2, <2>3, UpsertKeeps, WriteChunksKeeps
<1>5. CASE Ends(s) BY <1>5, EndsKeeps
<1>6. ASSUME NEW read, Works(s, read) PROVE LibraryInv' BY <1>6, WorksKeeps
<1>7. CASE Skipped(s)
  <2> DEFINE r == [hand[s] EXCEPT !.step = "ending"]
  <2>1. hand[s].step = "posting" /\ hand' = [hand EXCEPT ![s] = r] /\ UNCHANGED <<row, index, was>>
    BY <1>0, <1>7 DEF Skipped, At, store
  <2>2. DOMAIN r = HandFields /\ r.step = "ending" BY <1>0 DEF HandFields
  <2> HIDE DEF r
  <2> QED BY <2>1, <2>2, PassHandles
<1>8. CASE Posts(s, "full") BY <1>8, PostsKeep
<1> QED BY <1>1, <1>2, <1>3, <1>4, <1>5, <1>6, <1>7, <1>8 DEF Advances

LEMMA PassStepKeeps ==
  ASSUME LibraryInv, NEW s \in Passes, PassStep(s), UNCHANGED cand PROVE LibraryInv'
<1>0. s \in Writers /\ DOMAIN hand[s] = HandFields BY WriterSets, HandShape
<1>1. CASE RailBegins(s) \/ EnrichmentBegins(s) \/ ImportBegins(s)
  <2> DEFINE r == [Idle EXCEPT !.step = "walking", !.mode = "saved", !.seen = Hash, !.led = ledger]
  <2>1. Ready(s) /\ hand' = [hand EXCEPT ![s] = r] /\ UNCHANGED <<row, index, was>>
    BY <1>1 DEF RailBegins, EnrichmentBegins, ImportBegins, Walk, store
  <2>2. hand[s].step \in {"idle", "resting"}
    BY <1>1, IdleGood DEF RailBegins, EnrichmentBegins, ImportBegins, At
  <2>3. DOMAIN r = HandFields /\ r.step = "walking" /\ r.mode = "saved" BY DEF Idle, HandFields
  <2> HIDE DEF r
  <2> QED BY <2>1, <2>2, <2>3, WalkKeeps DEF Ready, Listed
<1>2. CASE Advances(s) BY <1>2, AdvancesKeep
<1>3. CASE WorkFails(s)
  <2> DEFINE r == [hand[s] EXCEPT !.step = "ending", !.led = TRUE]
  <2>1. hand[s].step = "walking" /\ hand' = [hand EXCEPT ![s] = r] /\ UNCHANGED <<row, index, was>>
    BY <1>0, <1>3 DEF WorkFails, At, store
  <2>2. DOMAIN r = HandFields /\ r.step = "ending" BY <1>0 DEF HandFields
  <2> HIDE DEF r
  <2> QED BY <2>1, <2>2, PassHandles
<1>4. CASE WalkEnds(s)
  <2> DEFINE r == [hand[s] EXCEPT !.step = "ending"]
  <2>1. hand[s].step = "walking" /\ hand' = [hand EXCEPT ![s] = r] /\ UNCHANGED <<row, index, was>>
    BY <1>0, <1>4 DEF WalkEnds, At, store
  <2>2. DOMAIN r = HandFields /\ r.step = "ending" BY <1>0 DEF HandFields
  <2> HIDE DEF r
  <2> QED BY <2>1, <2>2, PassHandles
<1>5. CASE EmbeddingFails(s)
  <2> DEFINE r == [hand[s] EXCEPT !.step = "ending", !.text = "none"]
  <2>1. hand[s].step = "buffered" /\ hand' = [hand EXCEPT ![s] = r] /\ UNCHANGED <<row, index, was>>
    BY <1>0, <1>5 DEF EmbeddingFails, Drop, Ending, At, store
  <2>2. DOMAIN r = HandFields /\ r.step = "ending" BY <1>0 DEF HandFields
  <2> HIDE DEF r
  <2> QED BY <2>1, <2>2, PassHandles
<1>6. CASE Checkpoints(s) \/ LosesLease(s)
  BY <1>6, Elsewhere DEF Checkpoints, LosesLease, store
<1>7. CASE PassDies(s) BY <1>0, <1>7, DeathKeeps DEF PassDies
<1>8. CASE SaverBegins(s)
  <2> DEFINE r == [Idle EXCEPT !.step = "posting", !.mode = "saved", !.seen = Hash]
  <2>1. /\ kind = "essay" /\ hand[s] = Idle /\ hand' = [hand EXCEPT ![s] = r]
        /\ UNCHANGED <<row, index, was>>
    BY <1>8 DEF SaverBegins, store
  <2>2. DOMAIN r = HandFields /\ r.step = "posting" /\ r.mode = "saved" BY DEF Idle, HandFields
  <2> HIDE DEF r
  <2> QED BY <2>1, <2>2, IdleGood, WalkKeeps DEF Listed
<1>9. CASE ListCut(s)
  <2> DEFINE r == [hand[s] EXCEPT !.step = "ending"]
  <2>1. hand[s].step = "posting" /\ hand' = [hand EXCEPT ![s] = r] /\ UNCHANGED <<row, index, was>>
    BY <1>0, <1>9 DEF ListCut, At, store
  <2>2. DOMAIN r = HandFields /\ r.step = "ending" BY <1>0 DEF HandFields
  <2> HIDE DEF r
  <2> QED BY <2>1, <2>2, PassHandles
<1>10. ASSUME NEW text, Posts(s, text) PROVE LibraryInv' BY <1>10, PostsKeep
<1> QED BY <1>1, <1>2, <1>3, <1>4, <1>5, <1>6, <1>7, <1>8, <1>9, <1>10 DEF PassStep

\* What an admission goes on with, or the end of a call.
LEMMA AfterGood ==
  ASSUME LibraryInv, NEW w \in Writers
  PROVE  Good(After(w)) /\ ~Machine(After(w)) /\ After(w).step \in {"idle", "settling"}
<1> DEFINE r == [hand[w] EXCEPT !.step = "settling", !.text = "none"]
<1>1. DOMAIN hand[w] = HandFields BY HandShape
<1>2. DOMAIN r = HandFields /\ r.step = "settling" BY <1>1 DEF HandFields
<1>3. After(w) = r \/ After(w) = Idle BY DEF After
<1> HIDE DEF r
<1>4. Good(r) /\ ~Machine(r) BY <1>2 DEF Good, Machine
<1> QED BY <1>2, <1>3, <1>4, IdleGood

LEMMA LookKeeps ==
  ASSUME LibraryInv, NEW w \in Writers, NEW mode \in {"saved", "referenced"}, NEW present,
         hand[w] = Idle, Look(w, mode, present), Wanted, UNCHANGED <<row, index>>
  PROVE  LibraryInv'
<1> DEFINE r == [Idle EXCEPT !.step = IF present THEN "promoting" ELSE "fetching", !.mode = mode,
                             !.seen = IF kind \in {"repo", "essay"} THEN Hash ELSE "none"]
<1>1. hand' = [hand EXCEPT ![w] = r] /\ was' = [was EXCEPT !.barred = FALSE] BY DEF Look, Wanted
<1>2. DOMAIN r = HandFields /\ r.step \in {"promoting", "fetching"} /\ r.mode = mode
  BY DEF Idle, HandFields
<1> HIDE DEF r
<1>3. Good(r) /\ ~Machine(r) BY <1>2, ModeSets DEF Good, Machine
<1> QED BY <1>1, <1>2, <1>3, IdleGood, Handles

LEMMA OpensKeep == ASSUME LibraryInv, NEW w \in Minters, Opens(w) PROVE LibraryInv'
<1> DEFINE r == [Idle EXCEPT !.step = "fetching", !.mode = row.mode, !.seen = "thin"]
<1>1. /\ hand' = [hand EXCEPT ![w] = r] /\ UNCHANGED <<row, index, was>> /\ hand[w] = Idle /\ row.in
  BY DEF Opens, store
<1>2. DOMAIN r = HandFields /\ r.step = "fetching" /\ r.mode = row.mode BY DEF Idle, HandFields
<1> HIDE DEF r
<1>3. Good(r) /\ (Machine(r) => row.mode = "frontier")
  BY <1>1, <1>2 DEF Good, Machine, LibraryInv, LibraryShapes
<1>4. ~was.barred BY <1>1 DEF LibraryInv, Barred
<1>5. Machine(r) => ~(was.vouched /\ ~was.overtaken)
  BY <1>3, ModeSets DEF LibraryInv, Vouched
<1> QED BY <1>1, <1>2, <1>3, <1>4, <1>5, IdleGood, WriterSets, Handles

LEMMA MakesKeep == ASSUME LibraryInv, NEW w \in Minters, NEW text, Makes(w, text) PROVE LibraryInv'
<1> DEFINE r == [hand[w] EXCEPT !.step = "buffered", !.text = text]
<1>0. w \in Writers /\ DOMAIN hand[w] = HandFields /\ hand \in [Writers -> {hand[v] : v \in Writers}]
  BY WriterSets, HandShape DEF LibraryInv, LibraryShapes
<1>1. /\ hand[w].step = "fetching" /\ UNCHANGED <<row, index, was>>
      /\ \/ hand' = [hand EXCEPT ![w] = After(w)]
         \/ hand' = [hand EXCEPT ![w].step = "buffered", ![w].text = text]
  BY DEF Makes, At
<1>2. CASE hand' = [hand EXCEPT ![w] = After(w)]
  BY <1>0, <1>1, <1>2, AfterGood, BusyFree, Handles
<1>3. CASE hand' = [hand EXCEPT ![w].step = "buffered", ![w].text = text]
  <2>1. hand' = [hand EXCEPT ![w] = r] BY <1>0, <1>3
  <2>2. DOMAIN r = HandFields /\ r.step = "buffered" /\ r.mode = hand[w].mode
    BY <1>0 DEF HandFields
  <2> HIDE DEF r
  <2>3. Good(r) BY <1>0, <1>1, <2>2, HandShape DEF Good
  <2>4. Machine(r) => Machine(hand[w]) BY <1>1, <2>2 DEF Machine
  <2> QED BY <1>0, <1>1, <2>1, <2>2, <2>3, <2>4, BusyFree, Handles
<1> QED BY <1>1, <1>2, <1>3

LEMMA AdmitsKeep ==
  ASSUME LibraryInv, NEW w \in Minters, NEW i \in CandidateIds, Admits(w, i) PROVE LibraryInv'
<1> DEFINE r == [Idle EXCEPT !.step = IF Present THEN "settling" ELSE "fetching",
                             !.mode = "frontier", !.tries = cand[i].attempts, !.of = i]
<1>1. /\ hand' = [hand EXCEPT ![w] = r] /\ UNCHANGED <<row, index, was>> /\ hand[w] = Idle
      /\ Queued
  BY DEF Admits, Due, store, Queued
<1>2. /\ DOMAIN r = HandFields /\ r.step = (IF row.in THEN "settling" ELSE "fetching") /\ r.mode = "frontier"
  BY DEF Idle, HandFields, Present
<1> HIDE DEF r
<1>3. Good(r) BY <1>2, ModeSets DEF Good
<1>4. ~was.barred BY <1>1 DEF LibraryInv, Barred
<1>5. Machine(r) => ~was.vouched BY <1>2 DEF Machine, LibraryInv, Vouched
<1> QED BY <1>1, <1>2, <1>3, <1>4, <1>5, IdleGood, WriterSets, Handles

LEMMA MintStepKeeps ==
  ASSUME LibraryInv, NEW w \in Minters, MintStep(w), UNCHANGED passVars PROVE LibraryInv'
<1>0. w \in Writers BY WriterSets
<1>1. CASE Deposits(w)
  <2>1. PICK present, routed :
          IF routed THEN Look(w, "saved", present) /\ Wanted ELSE UNCHANGED <<hand, was>>
    BY <1>1 DEF Deposits
  <2>2. hand[w] = Idle /\ UNCHANGED <<row, index, kind, cand>> BY <1>1 DEF Deposits, store
  <2>3. CASE Look(w, "saved", present) /\ Wanted BY <1>0, <2>2, <2>3, LookKeeps
  <2>4. CASE UNCHANGED <<hand, was>> BY <2>2, <2>4, Elsewhere
  <2> QED BY <2>1, <2>3, <2>4
<1>2. CASE Links(w)
  <2>1. PICK known : Look(w, "referenced", row.in /\ known) BY <1>2 DEF Links
  <2>2. hand[w] = Idle /\ Wanted /\ UNCHANGED <<row, index>> BY <1>2 DEF Links, store
  <2> QED BY <1>0, <2>1, <2>2, LookKeeps
<1>3. CASE Opens(w) BY <1>3, OpensKeep
<1>4. CASE Promotes(w)
  <2>1. hand[w].step = "promoting" /\ Promotion(w, Idle) /\ UNCHANGED index
    BY <1>4 DEF Promotes, At
  <2> QED BY <1>0, <2>1, IdleGood, PromotionKeeps
<1>5. CASE Fails(w)
  <2>1. /\ hand[w].step \in {"fetching", "buffered"} /\ hand' = [hand EXCEPT ![w] = After(w)]
        /\ UNCHANGED <<row, index, was>>
    BY <1>5 DEF Fails, Drop, store
  <2> QED BY <1>0, <2>1, AfterGood, BusyFree, Handles
<1>6. CASE Stores(w)
  BY <1>0, <1>6, AfterGood, UpsertKeeps, WriteChunksKeeps DEF Stores
<1>7. ASSUME NEW i \in CandidateIds, Admits(w, i) PROVE LibraryInv' BY <1>7, AdmitsKeep
<1>8. CASE Settles(w)
  <2>1. /\ hand[w].step = "settling" /\ hand' = [hand EXCEPT ![w] = Idle]
        /\ UNCHANGED <<row, index, was>>
    BY <1>8 DEF Settles, At, store
  <2> QED BY <1>0, <2>1, IdleGood, BusyFree, Handles
<1>9. ASSUME NEW text, Makes(w, text) PROVE LibraryInv' BY <1>9, MakesKeep
<1>10. CASE MintDies(w) BY <1>0, <1>10, DeathKeeps DEF MintDies
<1>11. CASE Finds(w)
  <2> DEFINE r == [hand[w] EXCEPT !.step = "promoting"]
  <2>0. DOMAIN hand[w] = HandFields BY <1>0, HandShape
  <2>1. /\ hand[w].step = "fetching" /\ hand[w].mode \in HumanAttested
        /\ hand' = [hand EXCEPT ![w] = r] /\ UNCHANGED <<row, index, was>>
    BY <2>0, <1>11 DEF Finds, At, store
  <2>2. DOMAIN r = HandFields /\ r.step = "promoting" /\ r.mode = hand[w].mode
    BY <2>0 DEF HandFields
  <2> HIDE DEF r
  <2>3. Good(r) /\ ~Machine(r) BY <2>1, <2>2, ModeSets DEF Good, Machine
  <2> QED BY <1>0, <2>1, <2>2, <2>3, BusyFree, Handles
<1> QED BY <1>1, <1>2, <1>3, <1>4, <1>5, <1>6, <1>7, <1>8, <1>9, <1>10, <1>11 DEF MintStep, Proceeds

LEMMA ForgetStepKeeps == ASSUME LibraryInv, NEW f \in Forgetters, Forgets(f) PROVE LibraryInv'
<1>0. f \in Writers /\ DOMAIN hand[f] = HandFields BY WriterSets, HandShape
<1>1. CASE ForgetUnlinks(f)
  <2> DEFINE r == [hand[f] EXCEPT !.step = "unlinked"]
  <2>1. /\ hand[f] = Idle /\ hand' = [hand EXCEPT ![f] = r] /\ UNCHANGED <<row, index, was>> /\ row.in
    BY <1>0, <1>1 DEF ForgetUnlinks
  <2>2. DOMAIN r = HandFields /\ r.step = "unlinked" BY <1>0 DEF HandFields
  <2> HIDE DEF r
  <2>3. Good(r) /\ ~Machine(r) BY <2>2 DEF Good, Machine
  <2>4. ~was.barred BY <2>1 DEF LibraryInv, Barred
  <2> QED BY <1>0, <2>1, <2>2, <2>3, <2>4, IdleGood, Handles
<1>2. CASE ForgetCommits(f, Queued \/ Listed) /\ UNCHANGED cand
  <2>1. UNCHANGED kind BY <1>2 DEF ForgetCommits
  <2> QED BY <1>0, <1>2, <2>1, ForgetsKeep
<1>3. CASE Death(f) BY <1>0, <1>3, DeathKeeps
<1> QED BY <1>1, <1>2, <1>3 DEF Forgets

LEMMA LibraryInit == Init => LibraryInv
<1> SUFFICES ASSUME Init PROVE LibraryInv OBVIOUS
<1>1. /\ row = NoRow /\ index = "none" /\ hand = [w \in Writers |-> Idle] /\ was = Clean
  BY DEF Init
<1>2. ~row.in /\ row.text = "none" /\ DOMAIN row = {"in", "mode", "text"} BY <1>1 DEF NoRow
<1>3. /\ DOMAIN was = {"torn", "vouched", "overtaken", "barred"}
      /\ ~was.vouched /\ ~was.barred
  BY <1>1 DEF Clean
<1>4. DOMAIN hand = Writers /\ hand = [w \in Writers |-> hand[w]] BY <1>1
<1>5. \A w \in Writers : hand[w] = Idle BY <1>1
<1>6. LibraryShapes BY <1>2, <1>3, <1>4, <1>5, IdleGood DEF LibraryShapes
<1>7. Whole BY <1>1, <1>2, <1>5, IdleGood DEF Whole, At
<1>8. Vouched /\ Barred BY <1>3 DEF Vouched, Barred
<1> QED BY <1>6, <1>7, <1>8 DEF LibraryInv

LEMMA LibraryNext == LibraryInv /\ [Next]_vars => LibraryInv'
<1> SUFFICES ASSUME LibraryInv, [Next]_vars PROVE LibraryInv' OBVIOUS
<1>1. ASSUME NEW s \in Passes, PassStep(s), UNCHANGED cand PROVE LibraryInv'
  BY <1>1, PassStepKeeps
<1>2. ASSUME NEW w \in Minters, MintStep(w), UNCHANGED passVars PROVE LibraryInv'
  BY <1>2, MintStepKeeps
<1>3. ASSUME NEW f \in Forgetters, Forgets(f) PROVE LibraryInv' BY <1>3, ForgetStepKeeps
<1>4. CASE Requeues
  <2>1. UNCHANGED <<row, index, hand, kind>> /\ was' = [was EXCEPT !.barred = FALSE]
    BY <1>4 DEF Requeues, Wanted, store
  <2> QED BY <2>1, Elsewhere
<1>5. ASSUME NEW i \in CandidateIds, Stages(i) PROVE LibraryInv'
  BY <1>5, Elsewhere DEF Stages, store
<1>6. CASE UNCHANGED vars BY <1>6, Elsewhere DEF vars, atomVars, store
<1> QED BY <1>1, <1>2, <1>3, <1>4, <1>5, <1>6 DEF Next

THEOREM LibraryHolds == Spec => []LibraryInv
<1> QED BY LibraryInit, LibraryNext, PTL DEF Spec

-----------------------------------------------------------------------------

\* Between writes, and unless somebody's two commits were torn apart, what is found is what
\* is stored (write_atom, replace_chunks and forget.atom over three stores).
THEOREM ChunksMatchRow == Spec => []Searchable
<1>1. LibraryInv => Searchable BY DEF LibraryInv, Whole, Searchable
<1> QED BY <1>1, LibraryHolds, PTL

\* What a person saved does not become a find of the machine's, whatever refreshes, admits
\* or promotes it, unless a machine had it in hand already (promote_atom, upsert_atom).
THEOREM SavedStaysSaved == Spec => []Attested
<1>1. LibraryInv => Attested BY DEF LibraryInv, Vouched, Attested
<1> QED BY <1>1, LibraryHolds, PTL

\* What was forgotten when nothing was due to bring it back stays out until it is asked for
\* or a search stages it under an id that had no row (forget.atom, due_candidates,
\* upsert_candidate).
THEOREM ForgottenStaysOut == Spec => []StaysForgotten
<1>1. LibraryInv => StaysForgotten BY DEF LibraryInv, Barred, StaysForgotten
<1> QED BY <1>1, LibraryHolds, PTL
=============================================================================
