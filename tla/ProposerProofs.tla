----------------------------- MODULE ProposerProofs -----------------------------
(***************************************************************************)
(* Proofs about Proposer: that nobody is retired from the ranking but on   *)
(* the evidence of a healthy walk, for any number of accounts, walkers and *)
(* overlaps, and that no rail an answer of the setting up queued finds its *)
(* own consent missing, for any platforms and users.                       *)
(***************************************************************************)
EXTENDS Proposer, FiniteSetTheorems, SequenceTheorems, TLAPS

--------------------------------------------------------------------------------
(* Whom a retirement strikes. *)

\* What the row of the walk says of the last three: `found` is the newest size, and
\* the accepted baseline is the size before it or one that it did not reach half of;
\* with a third size behind them, neither lets two short walks in a row pass.
Measured ==
  /\ sizes \in Seq(Nat)
  /\ Len(sizes) = 0 => run.found = None /\ run.prev = None /\ ~run.ok
  /\ Len(sizes) >= 1 => run.found = sizes[1]
  /\ Len(sizes) = 1 => run.prev = None
  /\ Len(sizes) >= 2 => run.prev \in Nat /\ (run.prev = sizes[2] \/ run.prev > 2 * sizes[2])
  /\ Len(sizes) >= 3 => \/ run.prev = sizes[2] /\ 2 * sizes[2] >= sizes[3]
                        \/ run.prev > 2 * sizes[2] /\ run.prev >= sizes[3]

\* Whoever a walk has written, it has confirmed since it began.
Confirmed(who, since) == \A p \in who : sig[p] /= None /\ sig[p] >= since

Places == {"off", "walks", "writes", "derives", "anchors"}

WalkTypes ==
  /\ walks \in Nat
  /\ cast.able \subseteq Walkers
  /\ sig \in [People -> Nat \cup {None}]
  /\ onList \subseteq People
  /\ run \in [ok : BOOLEAN, found : Nat \cup {None}, prev : Nat \cup {None},
              started : Nat \cup {None}]
  /\ walk \in [Walkers -> [at : Places, started : Nat \cup {None}, left : SUBSET People,
                           met : SUBSET People, whole : BOOLEAN]]

\* No walk began in the future; those of the maintained collector are whole.
Witnessed ==
  /\ run.started <= walks
  /\ \A w \in Walkers : walk[w].started <= walks /\ (col = Maintained => walk[w].whole)
  /\ col = Maintained => Confirmed(met, run.started)
  /\ col = Maintained =>
       \A w \in Walkers :
         At(w, "writes") => Confirmed(walk[w].met \ walk[w].left, walk[w].started)

EvidenceInv == WalkTypes /\ Measured /\ Witnessed

--------------------------------------------------------------------------------
(* What a rail may count on. *)

CallTypes ==
  /\ user.word \in Words
  /\ call \in [at : {"off", "starts", "first", "second", "hands"},
              pend : SUBSET Platforms, live : SUBSET Platforms, word : Words,
              todo : {<<"x", "substack">>, <<"substack">>, <<>>}, agreed : BOOLEAN]

\* A row in the queue, and the job made of it, has a consent that nothing takes back;
\* the platform a call is about to queue has its marker.
Granted ==
  /\ "refresh" \notin rows
  /\ \A r \in rows : Consented(r)
  /\ job /= NoRail => job \in rows
  /\ call.pend \subseteq call.live
  /\ Calling("second") => call.todo /= <<>> /\ Head(call.todo) \in yes

ConsentInv == CallTypes /\ Granted /\ refused = {}

--------------------------------------------------------------------------------
(* Operators. *)

\* The sizes after one more walk: the new one in front, and at most two behind it.
LEMMA SizesShift ==
  ASSUME NEW s \in Seq(Nat), NEW n \in Nat,
         NEW t, t = SubSeq(<<n>> \o s, 1, IF Len(s) < 3 THEN Len(s) + 1 ELSE 3)
  PROVE  /\ t \in Seq(Nat) /\ Len(t) >= 1 /\ Len(t) <= 3
         /\ Len(t) <= Len(s) + 1 /\ (Len(s) < 3 => Len(t) = Len(s) + 1) /\ (Len(s) >= 3 => Len(t) = 3)
         /\ t[1] = n
         /\ Len(t) >= 2 => t[2] = s[1]
         /\ Len(t) >= 3 => t[3] = s[2]
<1> DEFINE c == <<n>> \o s
           k == IF Len(s) < 3 THEN Len(s) + 1 ELSE 3
<1>1. Len(s) \in Nat /\ <<n>> \in Seq(Nat) /\ Len(<<n>>) = 1
  BY LenProperties
<1>2. c \in Seq(Nat) /\ Len(c) = Len(s) + 1
  BY <1>1, ConcatProperties
<1>3. \A i \in 1 .. Len(s) + 1 : c[i] = IF i <= 1 THEN <<n>>[i] ELSE s[i - 1]
  BY <1>1, ConcatProperties
<1>4. k \in 1 .. Len(c) /\ k \in Nat
  BY <1>1, <1>2
<1> HIDE DEF c
<1>5. t = SubSeq(c, 1, k)
  BY DEF c
<1>6. \A i \in 1 .. k : c[i] \in Nat
  BY <1>2, <1>4, ElementOfSeq, SMTT(30)
<1>7. t \in Seq(Nat) /\ Len(t) = k /\ \A i \in 1 .. k : t[i] = c[i]
  <2> HIDE DEF k
  <2>1. 1 <= k
    BY <1>4
  <2> QED
    BY <1>4, <1>5, <1>6, <2>1, SubSeqProperties, SMTT(30)
<1> QED
  BY <1>1, <1>3, <1>4, <1>7

--------------------------------------------------------------------------------
(* The walks keep the evidence. *)

LEMMA EvidenceAtFirst == Init => EvidenceInv
<1> SUFFICES ASSUME Init PROVE EvidenceInv
  OBVIOUS
<1> USE SignalsAssumption DEF Init, WalkInit
<1>1. WalkTypes
  <2>1. cast.able \subseteq Walkers
    OBVIOUS
  <2>2. run \in [ok : BOOLEAN, found : Nat \cup {None}, prev : Nat \cup {None}, started : Nat \cup {None}]
    BY Zenon DEF NoRow
  <2>3. Idle \in [at : Places, started : Nat \cup {None}, left : SUBSET People,
                  met : SUBSET People, whole : BOOLEAN]
    BY DEF Idle, Places
  <2> QED
    BY <2>1, <2>2, <2>3 DEF WalkTypes
<1>2. Measured
  <2>1. sizes = <<>> /\ Len(sizes) = 0 /\ sizes \in Seq(Nat)
    OBVIOUS
  <2> QED
    BY <2>1 DEF Measured, NoRow
<1>3. Witnessed
  BY DEF Witnessed, Confirmed, At, NoRow, Idle, None
<1> QED
  BY <1>1, <1>2, <1>3 DEF EvidenceInv

\* A walker that is at no list stands nowhere near a writing.
LEMMA Idling ==
  ASSUME NEW place \in Places
  PROVE  /\ Idle \in
              [at : Places, started : Nat \cup {None}, left : SUBSET People,
               met : SUBSET People, whole : BOOLEAN]
         /\ Idle.started = None /\ Idle.whole /\ Idle.at = "off"
         /\ [Idle EXCEPT !.at = place] \in
              [at : Places, started : Nat \cup {None}, left : SUBSET People,
               met : SUBSET People, whole : BOOLEAN]
         /\ [Idle EXCEPT !.at = place].started = None
         /\ [Idle EXCEPT !.at = place].whole
         /\ [Idle EXCEPT !.at = place].at = place
  BY DEF Idle, Places

\* Most steps touch nobody's signal and begin or record no walk.
LEMMA EvidenceRests ==
  ASSUME EvidenceInv,
         UNCHANGED <<col, cast, sig, walks, met, sizes>>,
         run' = run \/ run' = Failed(run),
         onList' \subseteq People,
         walk' \in [Walkers -> [at : Places, started : Nat \cup {None}, left : SUBSET People,
                                met : SUBSET People, whole : BOOLEAN]],
         \A w \in Walkers :
           /\ walk'[w].started <= walks /\ (col = Maintained => walk'[w].whole)
           /\ walk'[w].at = "writes" =>
                \/ walk'[w].left = walk'[w].met
                \/ walk'[w] = walk[w]
  PROVE  EvidenceInv'
<1> USE DEF EvidenceInv
<1>1. run' \in [ok : BOOLEAN, found : Nat \cup {None}, prev : Nat \cup {None}, started : Nat \cup {None}]
      /\ run'.found = run.found /\ run'.prev = run.prev /\ run'.started = run.started
      /\ (run'.ok => run.ok)
  <2>1. CASE run' = run
    BY <2>1 DEF WalkTypes
  <2>2. CASE run' = Failed(run)
    BY <2>2 DEF WalkTypes, Failed
  <2> QED
    BY <2>1, <2>2
<1>2. WalkTypes'
  BY <1>1 DEF WalkTypes
<1>3. Measured'
  BY <1>1 DEF Measured
<1>4. Witnessed'
  <2>1. run'.started <= walks'
    BY <1>1 DEF Witnessed
  <2>2. \A w \in Walkers : walk'[w].started <= walks' /\ (col' = Maintained => walk'[w].whole)
    OBVIOUS
  <2>3. col' = Maintained => Confirmed(met, run.started)'
    BY <1>1 DEF Witnessed, Confirmed
  <2>4. ASSUME col' = Maintained, NEW w \in Walkers, At(w, "writes")'
        PROVE  Confirmed(walk[w].met \ walk[w].left, walk[w].started)'
    <3>1. CASE walk'[w].left = walk'[w].met
      BY <3>1 DEF Confirmed
    <3>2. CASE walk'[w] = walk[w]
      BY <2>4, <3>2 DEF Confirmed, Witnessed, At
    <3> QED
      BY <2>4, <3>1, <3>2 DEF At
  <2> QED
    BY <2>1, <2>2, <2>3, <2>4 DEF Witnessed
<1> QED
  BY <1>2, <1>3, <1>4

\* A step that moves one walker on to a place that is not the writing of a list.
LEMMA Moves ==
  ASSUME EvidenceInv, NEW w \in Walkers, NEW place \in Places, place /= "writes",
         UNCHANGED <<col, cast, sig, walks, met, sizes, onList, run>>,
         Goes(w, place)
  PROVE  EvidenceInv'
<1>1. walk' \in [Walkers -> [at : Places, started : Nat \cup {None}, left : SUBSET People,
                            met : SUBSET People, whole : BOOLEAN]]
  BY DEF Goes, EvidenceInv, WalkTypes
<1>2. ASSUME NEW v \in Walkers
      PROVE  /\ walk'[v].started = walk[v].started /\ walk'[v].whole = walk[v].whole
             /\ walk'[v].at = "writes" => walk'[v] = walk[v]
  BY DEF Goes, EvidenceInv, WalkTypes
<1> QED
  BY <1>1, <1>2, EvidenceRests DEF EvidenceInv, Witnessed, WalkTypes

\* A step that ends a walk, or a part of it, without a record.
LEMMA Drops ==
  ASSUME EvidenceInv, NEW w \in Walkers, UNCHANGED <<col, cast, sig, walks, met, sizes, onList>>,
         run' = run \/ run' = Failed(run),
         NEW r, r = Idle \/ r = [Idle EXCEPT !.at = "derives"],
         walk' = [walk EXCEPT ![w] = r]
  PROVE  EvidenceInv'
<1>1. r \in [at : Places, started : Nat \cup {None}, left : SUBSET People,
             met : SUBSET People, whole : BOOLEAN]
      /\ r.started = None /\ r.whole /\ r.at /= "writes"
  <2>1. "derives" \in Places
    BY DEF Places
  <2> QED
    BY <2>1, Idling
<1>2. walk' = [walk EXCEPT ![w] = r]
  OBVIOUS
<1>3. walk' \in [Walkers -> [at : Places, started : Nat \cup {None}, left : SUBSET People,
                            met : SUBSET People, whole : BOOLEAN]]
  BY <1>1, <1>2 DEF EvidenceInv, WalkTypes
<1>4. ASSUME NEW v \in Walkers
      PROVE  /\ walk'[v].started <= walks /\ (col = Maintained => walk'[v].whole)
             /\ walk'[v].at = "writes" => walk'[v] = walk[v]
  <2>1. CASE v = w
    BY <1>1, <1>2, <2>1 DEF None, EvidenceInv, WalkTypes
  <2>2. CASE v /= w
    BY <1>2, <2>2 DEF EvidenceInv, WalkTypes, Witnessed
  <2> QED
    BY <2>1, <2>2
<1> QED
  BY <1>3, <1>4, EvidenceRests DEF EvidenceInv, WalkTypes

LEMMA EvidenceBegins ==
  ASSUME EvidenceInv, NEW w \in Walkers, Begins(w)
  PROVE  EvidenceInv'
<1> USE DEF EvidenceInv
<1>1. /\ walks' = walks + 1 /\ walks \in Nat
      /\ walk' = [walk EXCEPT ![w].at = "walks", ![w].started = walks']
      /\ UNCHANGED <<col, cast, onList, sig, run, met, sizes>>
  BY DEF Begins, history, WalkTypes
<1>2. walk' \in [Walkers -> [at : Places, started : Nat \cup {None}, left : SUBSET People,
                            met : SUBSET People, whole : BOOLEAN]]
  <2> DEFINE q == [walk[w] EXCEPT !.at = "walks", !.started = walks']
  <2>1. walk[w] \in [at : Places, started : Nat \cup {None}, left : SUBSET People,
                     met : SUBSET People, whole : BOOLEAN]
    BY DEF WalkTypes
  <2>2. walks' \in Nat \cup {None}
    BY <1>1
  <2>3. q \in [at : Places, started : Nat \cup {None}, left : SUBSET People,
               met : SUBSET People, whole : BOOLEAN]
    BY <2>1, <2>2 DEF Places
  <2>4. walk' = [walk EXCEPT ![w] = q]
    BY <1>1 DEF WalkTypes
  <2> QED
    BY <2>3, <2>4 DEF WalkTypes
<1>3. WalkTypes'
  BY <1>1, <1>2 DEF WalkTypes
<1>4. Measured'
  BY <1>1 DEF Measured
<1>5. run'.started <= walks'
  BY <1>1 DEF WalkTypes, Witnessed, None
<1>6. ASSUME NEW v \in Walkers
      PROVE  /\ walk'[v].started <= walks' /\ walk'[v].whole = walk[v].whole
             /\ walk'[v].at = "writes" => walk'[v] = walk[v]
  <2>1. walk[v].started <= walks /\ walk[v].started \in Int
    BY DEF WalkTypes, Witnessed, None
  <2>2. CASE v = w
    BY <1>1, <2>2 DEF WalkTypes
  <2>3. CASE v /= w
    BY <1>1, <2>1, <2>3 DEF WalkTypes
  <2> QED
    BY <2>2, <2>3
<1>7. Witnessed'
  BY <1>1, <1>5, <1>6 DEF Witnessed, Confirmed, At
<1> QED
  BY <1>3, <1>4, <1>7

LEMMA EvidenceGathers ==
  ASSUME EvidenceInv, NEW w \in Walkers, Gathers(w) \/ GathersSaved(w)
  PROVE  EvidenceInv'
<1>1. PICK some \in SUBSET People, full \in BOOLEAN :
        /\ walk' = [walk EXCEPT ![w].at = "writes", ![w].left = some, ![w].met = some,
                                ![w].whole = full]
        /\ col = Maintained => full
  <2>1. /\ onList \in SUBSET People /\ \A last \in onList : Before(last) \in SUBSET People
        /\ Maintained \notin Saving
    BY SignalsAssumption DEF EvidenceInv, WalkTypes, Before
  <2>2. PICK some \in SUBSET People, full \in BOOLEAN :
          Meets(w, some, full) /\ (full \/ col \in Saving)
    BY <2>1 DEF Gathers, GathersSaved
  <2> QED
    BY <2>1, <2>2 DEF Meets
<1>2. UNCHANGED <<col, cast, onList, sig, run, met, sizes, walks>>
  BY DEF Gathers, GathersSaved, history, counts
<1>3. walk' \in [Walkers -> [at : Places, started : Nat \cup {None}, left : SUBSET People,
                            met : SUBSET People, whole : BOOLEAN]]
  <2> DEFINE q == [walk[w] EXCEPT !.at = "writes", !.left = some, !.met = some, !.whole = full]
  <2>1. walk[w] \in [at : Places, started : Nat \cup {None}, left : SUBSET People,
                     met : SUBSET People, whole : BOOLEAN]
    BY DEF EvidenceInv, WalkTypes
  <2>2. q \in [at : Places, started : Nat \cup {None}, left : SUBSET People,
               met : SUBSET People, whole : BOOLEAN]
    BY <2>1 DEF Places
  <2>3. walk' = [walk EXCEPT ![w] = q]
    BY <1>1 DEF EvidenceInv, WalkTypes
  <2> QED
    BY <2>2, <2>3 DEF EvidenceInv, WalkTypes
<1>4. ASSUME NEW v \in Walkers
      PROVE  /\ walk'[v].started = walk[v].started /\ (col = Maintained => walk'[v].whole)
             /\ walk'[v].at = "writes" => walk'[v].left = walk'[v].met \/ walk'[v] = walk[v]
  BY <1>1 DEF EvidenceInv, WalkTypes, Witnessed
<1> QED
  BY <1>2, <1>3, <1>4, EvidenceRests DEF EvidenceInv, Witnessed, WalkTypes

\* A signal is stamped with the present, which no walk and no record is later than.
LEMMA EvidenceWrites ==
  ASSUME EvidenceInv, NEW w \in Walkers, Writes(w) \/ WritesSaved(w)
  PROVE  EvidenceInv'
<1> USE DEF EvidenceInv
<1>1. PICK p :
        /\ walk' = [walk EXCEPT ![w].left = walk[w].left \ {p}]
        /\ sig' = [sig EXCEPT ![p] = walks] \/ (sig' = sig /\ ~walk[w].whole)
  BY DEF Writes, WritesSaved, WritesNext
<1>2. At(w, "writes") /\ UNCHANGED <<col, cast, onList, run, walks, met, sizes>>
  BY DEF Writes, WritesSaved, WritesNext, history, counts
<1>3. sig' \in [People -> Nat \cup {None}]
  BY <1>1 DEF WalkTypes
<1>4. walk' \in [Walkers -> [at : Places, started : Nat \cup {None}, left : SUBSET People,
                            met : SUBSET People, whole : BOOLEAN]]
  BY <1>1 DEF WalkTypes
<1>5. WalkTypes'
  BY <1>2, <1>3, <1>4 DEF WalkTypes
<1>6. Measured'
  BY <1>2 DEF Measured
<1>7. ASSUME NEW who \in SUBSET People, NEW since \in Int, since <= walks, Confirmed(who, since)
      PROVE  Confirmed(who, since)'
  BY <1>1, <1>7 DEF Confirmed, WalkTypes, None
<1>8. ASSUME NEW v \in Walkers
      PROVE  /\ walk'[v].started = walk[v].started /\ walk'[v].whole = walk[v].whole
             /\ walk'[v].met = walk[v].met /\ walk'[v].at = walk[v].at
             /\ v /= w => walk'[v] = walk[v]
  BY <1>1 DEF WalkTypes
<1>9. run.started \in Int /\ \A v \in Walkers : walk[v].started \in Int
  BY DEF WalkTypes, None
<1>10. col = Maintained => Confirmed(met, run.started)'
  <2> SUFFICES ASSUME col = Maintained PROVE Confirmed(met, run.started)'
    OBVIOUS
  <2>1. Confirmed(met, run.started) /\ run.started <= walks /\ run' = run /\ met' = met
    BY <1>2 DEF Witnessed
  <2>2. CASE sig' = sig
    BY <2>1, <2>2 DEF Confirmed
  <2>3. CASE sig' = [sig EXCEPT ![p] = walks]
    <3>1. \A q \in met : sig'[q] = sig[q] \/ sig'[q] = walks
      BY <2>3 DEF WalkTypes
    <3> QED
      BY <1>9, <2>1, <3>1 DEF Confirmed, WalkTypes, None
  <2> QED
    BY <1>1, <2>2, <2>3
<1>11. ASSUME col = Maintained, NEW v \in Walkers, At(v, "writes")'
       PROVE  Confirmed(walk[v].met \ walk[v].left, walk[v].started)'
  <2>1. At(v, "writes") /\ walk[v].started <= walks
        /\ Confirmed(walk[v].met \ walk[v].left, walk[v].started)
    BY <1>8, <1>11 DEF At, Witnessed
  <2>2. walk[v].met \ walk[v].left \in SUBSET People
    BY DEF WalkTypes
  <2>3. \A q \in walk[v].met \ walk[v].left : sig'[q] /= None /\ sig'[q] >= walk[v].started
    BY <1>7, <1>9, <2>1, <2>2 DEF Confirmed
  <2>4. CASE v /= w
    BY <1>8, <2>3, <2>4 DEF Confirmed
  <2>5. CASE v = w
    <3>1. walk'[w].left = walk[w].left \ {p}
      BY <1>1 DEF WalkTypes
    <3>2. walk[w].whole /\ sig' = [sig EXCEPT ![p] = walks]
      BY <1>1, <1>11 DEF Witnessed
    <3>3. p \in walk[w].met => sig'[p] /= None /\ sig'[p] >= walk[v].started
      BY <1>9, <2>1, <2>5, <3>2 DEF WalkTypes, None
    <3> QED
      BY <1>8, <2>3, <2>5, <3>1, <3>3 DEF Confirmed
  <2> QED
    BY <2>4, <2>5
<1>12. Witnessed'
  BY <1>2, <1>8, <1>10, <1>11 DEF Witnessed
<1> QED
  BY <1>5, <1>6, <1>12

\* The record: the baseline is handed on, and whom the walk met it has confirmed.
LEMMA EvidenceRecords ==
  ASSUME EvidenceInv, NEW w \in Walkers, At(w, "writes"), walk[w].left = {},
         walk' = [walk EXCEPT ![w] = [Idle EXCEPT !.at = "derives"]],
         run' = Ended(run, Cardinality(walk[w].met), Began(w)),
         met' = walk[w].met,
         sizes' = SubSeq(<<Cardinality(walk[w].met)>> \o sizes, 1,
                         IF Len(sizes) < 3 THEN Len(sizes) + 1 ELSE 3),
         UNCHANGED <<col, cast, onList, sig, walks>>
  PROVE  EvidenceInv'
<1> USE DEF EvidenceInv
<1> DEFINE n == Cardinality(walk[w].met)
           r == [Idle EXCEPT !.at = "derives"]
<1>0. "derives" \in Places
  BY DEF Places
<1>1. n \in Nat
  <2>1. IsFiniteSet(walk[w].met)
    BY SignalsAssumption, FS_Subset DEF WalkTypes
  <2> QED
    BY <2>1, FS_CardinalityType
<1>2. /\ run' = [ok |-> TRUE, found |-> n, prev |-> Baseline(run), started |-> walk[w].started]
      /\ walk' = [walk EXCEPT ![w] = r]
  BY DEF Ended, Began
<1>3. r \in [at : Places, started : Nat \cup {None}, left : SUBSET People,
             met : SUBSET People, whole : BOOLEAN]
      /\ r.started = None /\ r.whole /\ r.at = "derives"
  BY <1>0, Idling
<1> HIDE DEF n, r
<1>4. Len(sizes) \in Nat /\ \A i \in 1 .. Len(sizes) : sizes[i] \in Nat
  BY LenProperties, ElementOfSeq DEF Measured
<1>5. /\ sizes' \in Seq(Nat) /\ Len(sizes') >= 1 /\ Len(sizes') <= 3
      /\ Len(sizes') <= Len(sizes) + 1 /\ sizes'[1] = n
      /\ (Len(sizes) < 3 => Len(sizes') = Len(sizes) + 1) /\ (Len(sizes) >= 3 => Len(sizes') = 3)
      /\ Len(sizes') >= 2 => sizes'[2] = sizes[1]
      /\ Len(sizes') >= 3 => sizes'[3] = sizes[2]
  <2>1. sizes \in Seq(Nat) /\ sizes' = SubSeq(<<n>> \o sizes, 1, IF Len(sizes) < 3 THEN Len(sizes) + 1 ELSE 3)
    BY DEF Measured, n
  <2> QED
    BY <1>1, <2>1, SizesShift
<1>6. /\ run'.ok /\ run'.found = n /\ run'.prev = Baseline(run) /\ run'.started = walk[w].started
  BY <1>2
<1>7. Baseline(run) \in Nat \cup {None}
  BY DEF Baseline, WalkTypes
<1>8. Measured'
  <2>1. CASE Len(sizes) = 0
    <3>1. Baseline(run) = None /\ Len(sizes') = 1
      BY <1>5, <2>1 DEF Measured, Baseline
    <3> QED
      BY <1>5, <1>6, <3>1 DEF Measured
  <2>2. CASE Len(sizes) = 1
    <3>1. Baseline(run) = sizes[1] /\ Len(sizes') = 2 /\ sizes[1] \in Nat
      BY <1>4, <1>5, <2>2 DEF Measured, Baseline
    <3> QED
      BY <1>5, <1>6, <3>1 DEF Measured
  <2>3. CASE Len(sizes) >= 2
    <3>1. /\ run.found = sizes[1] /\ sizes[1] \in Nat /\ sizes[2] \in Nat /\ run.prev \in Nat
          /\ run.prev >= sizes[2] /\ run.prev /= None
      <4>1. sizes[1] \in Nat /\ sizes[2] \in Nat
        BY <1>4, <2>3
      <4>2. /\ run.found = sizes[1] /\ run.prev \in Nat
            /\ run.prev = sizes[2] \/ run.prev > 2 * sizes[2]
        <5>1. Len(sizes) >= 1 /\ Len(sizes) >= 2
          BY <1>4, <2>3
        <5> QED
          BY <5>1 DEF Measured
      <4> QED
        BY <4>1, <4>2 DEF None
    <3>0. /\ Len(sizes') \in {2, 3} /\ sizes' \in Seq(Nat) /\ sizes'[1] = n /\ sizes'[2] = sizes[1]
          /\ Len(sizes') = 3 => sizes'[3] = sizes[2]
      BY <1>4, <1>5, <2>3
    <3>2. CASE 2 * run.found >= run.prev
      <4>1. Baseline(run) = sizes[1] /\ 2 * sizes[1] >= sizes[2]
        BY <3>1, <3>2 DEF Baseline
      <4> QED
        BY <1>6, <3>0, <3>1, <4>1, SMTT(30) DEF Measured
    <3>3. CASE 2 * run.found < run.prev
      <4>1. Baseline(run) = run.prev /\ run.prev > 2 * sizes[1]
        BY <3>1, <3>3 DEF Baseline
      <4>2. run'.prev \in Nat /\ run'.prev > 2 * sizes'[2] /\ run'.found = sizes'[1]
        BY <1>6, <3>0, <3>1, <4>1
      <4>3. Len(sizes') = 3 => run'.prev >= sizes'[3]
        BY <1>6, <3>0, <3>1, <4>1
      <4> QED
        BY <3>0, <4>2, <4>3, SMTT(30) DEF Measured
    <3> QED
      BY <3>1, <3>2, <3>3
  <2>4. Len(sizes) \in Nat
    BY <1>4
  <2>5. Len(sizes) = 0 \/ Len(sizes) = 1 \/ Len(sizes) >= 2
    <3>1. PICK k \in Nat : k = Len(sizes)
      BY <2>4
    <3>2. k = 0 \/ k = 1 \/ k >= 2
      OBVIOUS
    <3> QED
      BY <3>1, <3>2
  <2> QED
    BY <2>1, <2>2, <2>3, <2>5
<1>9. WalkTypes'
  <2>1. run' \in [ok : BOOLEAN, found : Nat \cup {None}, prev : Nat \cup {None}, started : Nat \cup {None}]
    BY <1>1, <1>2, <1>7 DEF WalkTypes
  <2>2. walk' \in [Walkers -> [at : Places, started : Nat \cup {None}, left : SUBSET People,
                              met : SUBSET People, whole : BOOLEAN]]
    BY <1>2, <1>3 DEF WalkTypes
  <2> QED
    BY <2>1, <2>2 DEF WalkTypes
<1>10. ASSUME NEW v \in Walkers
       PROVE  /\ walk'[v].started <= walks /\ (col = Maintained => walk'[v].whole)
              /\ walk'[v].at = "writes" => walk'[v] = walk[v]
  <2>1. CASE v = w
    BY <1>2, <1>3, <2>1 DEF None, WalkTypes
  <2>2. CASE v /= w
    BY <1>2, <2>2 DEF WalkTypes, Witnessed
  <2> QED
    BY <2>1, <2>2
<1>11. col = Maintained => Confirmed(met, run.started)'
  BY <1>6 DEF Witnessed, Confirmed, At
<1>12. Witnessed'
  BY <1>6, <1>10, <1>11 DEF Witnessed, Confirmed, At
<1> QED
  BY <1>8, <1>9, <1>12

LEMMA EvidenceKept == EvidenceInv /\ [Next]_vars => EvidenceInv'
<1> SUFFICES ASSUME EvidenceInv, [Next]_vars PROVE EvidenceInv'
  OBVIOUS
<1> USE DEF history, counts, Places
<1>1. ASSUME NEW w \in cast.able,
             \/ Stops(w) \/ Skips(w) \/ Begins(w) \/ Gathers(w) \/ GathersSaved(w)
             \/ Refused(w) \/ Writes(w) \/ WritesSaved(w)
             \/ Records(w) \/ Resolves(w) \/ Anchors(w) \/ Falls(w)
      PROVE  EvidenceInv'
  <2>0. w \in Walkers
    BY DEF EvidenceInv, WalkTypes
  <2>1. CASE Stops(w)
    <3>1. /\ walk' = [walk EXCEPT ![w] = Idle] /\ run' = run
          /\ UNCHANGED <<col, cast, sig, walks, met, sizes, onList>>
      BY <2>1 DEF Stops, Leaves
    <3> QED
      BY <2>0, <3>1, Drops
  <2>2. CASE Skips(w)
    <3>1. /\ Goes(w, "derives")
          /\ UNCHANGED <<col, cast, sig, walks, met, sizes, onList, run>>
      BY <2>2 DEF Skips
    <3> QED
      BY <2>0, <3>1, Moves
  <2>3. CASE Begins(w)
    BY <2>0, <2>3, EvidenceBegins
  <2>4. CASE Gathers(w) \/ GathersSaved(w)
    BY <2>0, <2>4, EvidenceGathers
  <2>5. CASE Refused(w)
    <3>1. /\ walk' = [walk EXCEPT ![w] = [Idle EXCEPT !.at = "derives"]]
          /\ run' = Failed(run) /\ UNCHANGED <<col, cast, sig, walks, met, sizes, onList>>
      BY <2>5 DEF Refused
    <3> QED
      BY <2>0, <3>1, Drops
  <2>6. CASE Writes(w) \/ WritesSaved(w)
    BY <2>0, <2>6, EvidenceWrites
  <2>7. CASE Records(w)
    <3>1. CASE run' = Ended(run, Cardinality(walk[w].met), Began(w))
               /\ met' = walk[w].met
               /\ sizes' = SubSeq(<<Cardinality(walk[w].met)>> \o sizes, 1,
                                  IF Len(sizes) < 3 THEN Len(sizes) + 1 ELSE 3)
      BY <2>0, <2>7, <3>1, EvidenceRecords DEF Records
    <3>2. CASE UNCHANGED <<run, met, sizes>>
      <4>1. /\ walk' = [walk EXCEPT ![w] = [Idle EXCEPT !.at = "derives"]]
            /\ run' = run /\ UNCHANGED <<col, cast, sig, walks, met, sizes, onList>>
        BY <2>7, <3>2 DEF Records
      <4> QED
        BY <2>0, <4>1, Drops
    <3> QED
      BY <2>7, <3>1, <3>2 DEF Records
  <2>8. CASE Resolves(w)
    <3>1. /\ Goes(w, "anchors")
          /\ UNCHANGED <<col, cast, sig, walks, met, sizes, onList, run>>
      BY <2>8 DEF Resolves
    <3> QED
      BY <2>0, <3>1, Moves
  <2>9. CASE Anchors(w)
    <3>1. /\ walk' = [walk EXCEPT ![w] = Idle] /\ run' = run
          /\ UNCHANGED <<col, cast, sig, walks, met, sizes, onList>>
      BY <2>9 DEF Anchors, Leaves
    <3> QED
      BY <2>0, <3>1, Drops
  <2>10. CASE Falls(w)
    <3>1. /\ walk' = [walk EXCEPT ![w] = Idle] /\ run' = run
          /\ UNCHANGED <<col, cast, sig, walks, met, sizes, onList>>
      BY <2>10 DEF Falls
    <3> QED
      BY <2>0, <3>1, Drops
  <2> QED
    BY <1>1, <2>1, <2>2, <2>3, <2>4, <2>5, <2>6, <2>7, <2>8, <2>9, <2>10
<1>2. ASSUME UNCHANGED <<col, cast, sig, walks, met, sizes, run, walk>>, onList' \subseteq People
      PROVE  EvidenceInv'
  BY <1>2, EvidenceRests DEF EvidenceInv, WalkTypes, Witnessed
<1>3. onList \subseteq People
  BY DEF EvidenceInv, WalkTypes
<1>4. CASE Relists
  BY <1>2, <1>4 DEF Relists
<1>5. CASE UNCHANGED walkVars \/ \E h \in Candidates : Confirms(h)
  BY <1>2, <1>3, <1>5 DEF Confirms, walkVars
<1> QED
  BY <1>1, <1>4, <1>5 DEF Next, WalkNext, vars

\* Nobody goes off the list on a failed walk, on one that met less than half of the one
\* before, on two such in a row, or though the last recorded walk met them (screen.py:213-256).
\* A walk cut short of less than half is believed, and whom it did not come to goes.
THEOREM RetiredOnlyOnEvidence == Spec => []RetiredOnEvidence
<1>1. EvidenceInv => RetiredOnEvidence
  <2> SUFFICES ASSUME EvidenceInv, NEW h \in Signalled \ Candidates
               PROVE  /\ sizes /= <<>> /\ run.ok
                      /\ {p \in People : head[p] = h} \cap met = {}
                      /\ Len(sizes) >= 2 => ~Halved(1, 2)
                      /\ Len(sizes) >= 3 => ~(Halved(1, 3) /\ Halved(2, 3))
    BY DEF RetiredOnEvidence
  <2>1. Members(h) /= {} /\ Members(h) \subseteq RetiredIds
    BY DEF Candidates, Retired
  <2>2. Trusted(run) /\ col = Maintained
        /\ RetiredIds = {p \in People : sig[p] /= None /\ sig[p] < run.started}
    BY <2>1 DEF RetiredIds
  <2>3. run.ok /\ Len(sizes) \in Nat /\ Len(sizes) /= 0
    BY <2>2, LenProperties DEF Trusted, EvidenceInv, Measured
  <2>4. sizes /= <<>>
    BY <2>3
  <2>5. ASSUME NEW p \in People, head[p] = h, p \in met PROVE FALSE
    <3>1. sig[p] /= None /\ sig[p] >= run.started
      BY <2>2, <2>5 DEF EvidenceInv, Witnessed, Confirmed
    <3>2. p \in RetiredIds
      BY <2>1, <2>5, <3>1 DEF Members
    <3> QED
      BY <2>2, <3>1, <3>2 DEF EvidenceInv, WalkTypes, None
  <2>6. \A i \in 1 .. Len(sizes) : sizes[i] \in Nat
    BY ElementOfSeq DEF EvidenceInv, Measured
  <2>7. run.found /= None /\ run.prev /= None /\ (run.prev <= 0 \/ 2 * run.found >= run.prev)
    BY <2>2 DEF Trusted
  <2>8. Len(sizes) >= 2 => ~Halved(1, 2)
    BY <2>3, <2>6, <2>7 DEF Halved, EvidenceInv, Measured
  <2>9. Len(sizes) >= 3 => ~(Halved(1, 3) /\ Halved(2, 3))
    BY <2>3, <2>6, <2>7 DEF Halved, EvidenceInv, Measured
  <2> QED
    BY <2>3, <2>4, <2>5, <2>8, <2>9
<1> QED
  BY <1>1, EvidenceAtFirst, EvidenceKept, PTL DEF Spec

--------------------------------------------------------------------------------
(* Consent comes before the queue. *)

LEMMA NoCallTyped ==
  /\ NoCall \in [at : {"off", "starts", "first", "second", "hands"},
                 pend : SUBSET Platforms, live : SUBSET Platforms, word : Words,
                 todo : {<<"x", "substack">>, <<"substack">>, <<>>}, agreed : BOOLEAN]
  /\ NoCall.pend = {} /\ NoCall.live = {} /\ NoCall.at = "off"
<1>1. /\ {} \in SUBSET Platforms /\ "" \in Words /\ FALSE \in BOOLEAN
      /\ "off" \in {"off", "starts", "first", "second", "hands"}
  BY DEF Words
<1>2. <<>> \in {<<"x", "substack">>, <<"substack">>, <<>>}
  BY Zenon
<1> QED
  BY <1>1, <1>2 DEF NoCall

LEMMA ConsentAtFirst == Init => ConsentInv
<1> SUFFICES ASSUME Init PROVE ConsentInv
  OBVIOUS
<1> USE OnboardingAssumption DEF Init, HomeInit
<1>1. user.word \in Words
  <2>1. user \in Users \/ user = Absent
    OBVIOUS
  <2>2. Absent.word = "" /\ "" \in Words
    BY DEF Absent, Words
  <2> QED
    BY <2>1, <2>2
<1>2. CallTypes
  BY <1>1, NoCallTyped DEF CallTypes
<1>3. Granted
  BY NoCallTyped DEF Granted, Calling
<1> QED
  BY <1>2, <1>3 DEF ConsentInv

\* Steps that leave the queue alone, and take back no consent but the refresh's,
\* which is no rail's.
LEMMA ConsentRests ==
  ASSUME ConsentInv, rows' = rows, refused' = refused, user' = user,
         yes \ {"refresh"} \subseteq yes', atoms => atoms',
         job' = job \/ job' = NoRail,
         CallTypes',
         call'.pend \subseteq call'.live,
         call'.at = "second" => call' = call
  PROVE  ConsentInv'
<1> USE DEF ConsentInv
<1>1. \A r \in rows : r /= "refresh" /\ Consented(r)
  BY DEF Granted
<1>2. \A r \in rows' : Consented(r)'
  BY <1>1 DEF Consented
<1>3. call'.at = "second" => call'.todo /= <<>> /\ Head(call'.todo) \in yes'
  <2> SUFFICES ASSUME call'.at = "second" PROVE call'.todo /= <<>> /\ Head(call'.todo) \in yes'
    OBVIOUS
  <2>1. call' = call /\ call.todo /= <<>> /\ Head(call.todo) \in yes
    BY DEF Granted, Calling
  <2>2. Head(call.todo) /= "refresh"
    BY <2>1 DEF CallTypes
  <2> QED
    BY <2>1, <2>2
<1> QED
  BY <1>2, <1>3 DEF Granted, Calling

LEMMA Starting == ASSUME ConsentInv, Starts PROVE ConsentInv'
<1> USE DEF ConsentInv
<1>1. /\ Calling("starts") /\ UNCHANGED <<user, atoms, job, refused>>
      /\ yes' = IF call.live /= {} THEN yes \cup {"curation"} ELSE yes
      /\ rows' = IF call.pend /= {} THEN rows \cup {"curation"} ELSE rows
  BY DEF Starts, tallies
<1>2. CallTypes' /\ call'.pend = call.pend /\ call'.live = call.live /\ call'.at /= "second"
  <2> DEFINE at == IF call.word /= "" THEN "first" ELSE IF asked THEN "hands" ELSE "off"
             todo == IF Yes(call.word) THEN <<"x", "substack">> ELSE <<>>
  <2>1. call' = [call EXCEPT !.at = at, !.todo = todo]
    BY DEF Starts
  <2>2. at \in {"first", "hands", "off"} /\ todo \in {<<"x", "substack">>, <<"substack">>, <<>>}
    OBVIOUS
  <2> HIDE DEF at, todo
  <2> QED
    BY <1>1, <2>1, <2>2 DEF CallTypes
<1>3. call.pend \subseteq call.live /\ yes \subseteq yes'
  BY <1>1 DEF Granted
<1>4. \A r \in rows' : Consented(r)' /\ r /= "refresh"
  BY <1>1, <1>3 DEF Granted, Consented
<1> QED
  BY <1>1, <1>2, <1>3, <1>4 DEF Granted, Calling

LEMMA Agreeing == ASSUME ConsentInv, SavesYes PROVE ConsentInv'
<1> USE DEF ConsentInv
<1>1. /\ Calling("first") \/ Calling("second")
      /\ call.todo /= <<>> /\ UNCHANGED <<user, atoms, job, refused>>
  BY DEF SavesYes, tallies
<1>2. call.todo \in {<<"x", "substack">>, <<"substack">>} /\ Head(call.todo) /= "refresh"
      /\ Tail(call.todo) \in {<<"substack">>, <<>>}
  <2>1. call.todo \in {<<"x", "substack">>, <<"substack">>, <<>>}
    BY DEF CallTypes
  <2>2. call.todo = <<"x", "substack">> \/ call.todo = <<"substack">>
    BY <1>1, <2>1
  <2>3. ASSUME NEW t, t = <<"x", "substack">> PROVE Head(t) = "x" /\ Tail(t) = <<"substack">>
    BY <2>3
  <2>4. ASSUME NEW t, t = <<"substack">> PROVE Head(t) = "substack" /\ Tail(t) = <<>>
    BY <2>4
  <2> QED
    BY <2>2, <2>3, <2>4
<1>3. CASE Calling("first")
  <2>1. yes' = yes \cup {Head(call.todo)} /\ rows' = rows /\ call' = [call EXCEPT !.at = "second"]
    BY <1>3 DEF SavesYes, GrantsAt, Calling
  <2>2. CallTypes' /\ call'.pend = call.pend /\ call'.live = call.live /\ call'.todo = call.todo
    BY <1>1, <2>1 DEF CallTypes
  <2>3. \A r \in rows' : Consented(r)'
    BY <1>1, <2>1 DEF Granted, Consented
  <2> QED
    BY <1>1, <2>1, <2>2, <2>3 DEF Granted, Calling
<1>4. CASE Calling("second") /\ ~Calling("first")
  <2>1. /\ rows' = rows \cup ({Head(call.todo)} \cap call.live) /\ yes' = yes
        /\ call' = [call EXCEPT !.at = "first", !.todo = Tail(call.todo)]
    BY <1>4 DEF SavesYes, GrantsAt, Calling
  <2>2. CallTypes' /\ call'.pend = call.pend /\ call'.live = call.live /\ call'.at = "first"
    BY <1>1, <1>2, <2>1 DEF CallTypes
  <2>3. \A r \in rows' : Consented(r)' /\ r /= "refresh"
    BY <1>1, <1>2, <1>4, <2>1 DEF Granted, Consented
  <2> QED
    BY <1>1, <2>1, <2>2, <2>3 DEF Granted, Calling
<1> QED
  BY <1>1, <1>3, <1>4

LEMMA Handing == ASSUME ConsentInv, Hands PROVE ConsentInv'
<1> USE DEF ConsentInv
<1>1. PICK from \in SUBSET Platforms :
        rows' = rows \cup from /\ \A p \in from : Consented(p)
  <2> DEFINE from == {p \in call.pend \cup (IF call.agreed THEN Live ELSE {}) : Consented(p)}
  <2>1. from \in SUBSET Platforms
    BY DEF CallTypes, Live
  <2>2. rows' = rows \cup from
    BY DEF Hands
  <2> QED
    BY <2>1, <2>2
<1>2. call' = NoCall /\ UNCHANGED <<user, yes, atoms, job, refused>>
  BY DEF Hands, disk, tallies
<1>3. \A r \in rows' : Consented(r)' /\ r /= "refresh"
  BY <1>1, <1>2, OnboardingAssumption DEF Granted, Consented
<1>4. CallTypes' /\ call'.pend = {} /\ call'.at = "off"
  BY <1>2, NoCallTyped DEF CallTypes
<1> QED
  BY <1>1, <1>2, <1>3, <1>4 DEF Granted, Calling

\* A rail asks when the worker runs it, and what the worker runs has a row.
LEMMA Asking ==
  ASSUME ConsentInv, NEW r, r = job, job /= NoRail, Asks(r)
  PROVE  refused' = refused
  BY DEF ConsentInv, Granted, Asks

LEMMA ConsentKept == ConsentInv /\ [Next]_vars => ConsentInv'
<1> SUFFICES ASSUME ConsentInv, [Next]_vars PROVE ConsentInv'
  OBVIOUS
<1>0. CallTypes /\ call.pend \subseteq call.live /\ refused = {} /\ "off" /= "second"
  BY DEF ConsentInv, Granted
<1>1. ASSUME call' = call, user' = user, rows' = rows, refused' = refused,
             yes \subseteq yes', atoms => atoms', job' = job \/ job' = NoRail
      PROVE  ConsentInv'
  BY <1>0, <1>1, ConsentRests DEF CallTypes
<1>2. CASE HomeNext
  <2> USE DEF loginVars, disk, queueVars, threads, tallies
  <2>1. CASE TakesTrial \/ Approves \/ KeyRunsOut \/ TopsUp
    BY <1>1, <2>1 DEF TakesTrial, Approves, KeyRunsOut, TopsUp
  <2>15. CASE ArmBegins \/ Names
    BY <1>1, <2>15 DEF ArmBegins, Names
  <2>2. ASSUME NEW p, OpensWindow(p) PROVE ConsentInv'
    BY <1>1, <2>2 DEF OpensWindow
  <2>3. CASE Skip
    BY <1>1, <2>3 DEF Skip
  <2>4. ASSUME NEW word \in Words, Derives(word) PROVE ConsentInv'
    <3>1. /\ call' = [at |-> "starts", pend |-> Pending, live |-> Live, word |-> word,
                      todo |-> <<>>, agreed |-> FALSE]
          /\ UNCHANGED <<user, rows, refused, yes, atoms, job>>
      BY <2>4 DEF Derives
    <3>2. Pending \subseteq Live /\ Live \subseteq Platforms
      BY DEF Pending, Live
    <3>3. CallTypes' /\ call'.pend \subseteq call'.live /\ call'.at /= "second"
      BY <1>0, <3>1, <3>2 DEF CallTypes
    <3> QED
      BY <3>1, <3>3, ConsentRests
  <2>5. CASE Answers
    <3>1. user.word \in Words /\ "" \in Words
      BY <1>0 DEF CallTypes, Words
    <3> QED
      BY <2>2, <2>3, <2>4, <2>5, <3>1 DEF Answers
  <2>6. CASE AsksMore
    BY <2>2, <2>4, <2>6 DEF AsksMore
  <2>7. CASE Concludes
    <3>1. /\ call' = [call EXCEPT !.at = "hands", !.agreed = Yes(call.word)]
          /\ yes \ {"refresh"} \subseteq yes'
          /\ UNCHANGED <<user, rows, refused, atoms, job>>
      BY <2>7 DEF Concludes
    <3>2. Yes(call.word) \in BOOLEAN
      BY DEF Yes
    <3>3. CallTypes' /\ call'.pend = call.pend /\ call'.live = call.live /\ call'.at = "hands"
      BY <1>0, <3>1, <3>2 DEF CallTypes
    <3> QED
      BY <1>0, <3>1, <3>3, ConsentRests
  <2>8. CASE ProcessDies
    <3>1. call' = NoCall /\ UNCHANGED <<user, rows, refused, yes, atoms, job>>
      BY <2>8 DEF ProcessDies
    <3>2. CallTypes' /\ call'.pend \subseteq call'.live /\ call'.at = "off"
      BY <1>0, <3>1, NoCallTyped DEF CallTypes
    <3> QED
      BY <3>1, <3>2, ConsentRests
  <2>9. CASE Starts \/ SavesYes \/ Hands
    BY <2>9, Starting, Agreeing, Handing
  <2>10. CASE PassStep
    BY <1>1, <2>10 DEF PassStep, Collects, PassEnds
  <2>11. ASSUME NEW p \in Platforms, ArmImports(p) \/ SignsIn(p) \/ GoesStale(p) \/ Renews(p)
         PROVE  ConsentInv'
    BY <1>1, <2>11 DEF ArmImports, Arrives, SignsIn, GoesStale, Renews
  <2>12. ASSUME NEW r \in Rails, Claims(r) PROVE ConsentInv'
    BY <2>12 DEF Claims, ConsentInv, CallTypes, Granted, Consented, Calling
  <2>13. CASE RailImports
    <3>1. job /= NoRail /\ Asks(job)
      BY <2>13, OnboardingAssumption DEF RailImports, Rails
    <3>2. refused' = refused
      BY <3>1, Asking
    <3> QED
      BY <1>1, <2>13, <3>2 DEF RailImports, Arrives
  <2>14. CASE RailCurates
    <3>1. job /= NoRail /\ Asks(job)
      BY <2>14, OnboardingAssumption DEF RailCurates, Rails
    <3>2. refused' = refused
      BY <3>1, Asking
    <3> QED
      BY <1>1, <2>14, <3>2 DEF RailCurates
  <2> QED
    BY <1>2, <2>1, <2>5, <2>6, <2>7, <2>8, <2>9, <2>10, <2>11, <2>12, <2>13, <2>14, <2>15
       DEF HomeNext, CallStep, RailStep
<1>3. CASE UNCHANGED homeVars
  BY <1>1, <1>3 DEF homeVars, disk, queueVars, tallies
<1> QED
  BY <1>2, <1>3 DEF Next, vars

\* No rail that an answer queued, whichever answers, deaths and second thoughts came
\* in between, ends for want of its consent (onboard_tools.py:1107-1110).
THEOREM ConsentedBeforeQueued == Spec => []RailsConsented
<1>1. ConsentInv => RailsConsented
  BY DEF ConsentInv, RailsConsented
<1> QED
  BY <1>1, ConsentAtFirst, ConsentKept, PTL DEF Spec

================================================================================
