----------------------------- MODULE FrontierProofs -----------------------------
(***************************************************************************)
(* Proofs about Frontier: that a part of a topic is paid for once, that    *)
(* its notebook is whole when it is asked about and what a region gained   *)
(* is read, that a standing query runs at the speed of whoever wants it    *)
(* most, and that the windows a pair is asked for leave no gap, for any    *)
(* number of parts, queries, sources, failures and days.                   *)
(***************************************************************************)
EXTENDS Frontier, SequenceTheorems, WellFoundedInduction, TLAPS

-----------------------------------------------------------------------------
(* The sittings: what a step does to the two records it changes. *)

HandFields == {"step", "part", "debts", "unpaid", "now", "known", "claim", "text"}
PartFields == {"region", "continues", "parent", "stop", "ancestors", "empty", "lot", "has",
               "read", "runs", "distilled", "botched", "cached", "paid", "noted"}

SittingTypes ==
  /\ DOMAIN hand = Readers /\ hand = [d \in Readers |-> hand[d]]
  /\ \A d \in Readers : DOMAIN hand[d] = HandFields
  /\ parts \in Seq({parts[p] : p \in PartIds})
  /\ \A p \in PartIds : DOMAIN parts[p] = PartFields

LEMMA GoesFields ==
  ASSUME SittingTypes, NEW d \in Readers, NEW g, Goes(d, g)
  PROVE  /\ DOMAIN hand' = Readers /\ hand' = [e \in Readers |-> hand'[e]]
         /\ \A e \in Readers : DOMAIN hand'[e] = HandFields
         /\ \A e \in Readers \ {d} : hand'[e] = hand[e]
         /\ hand'[d].step = IF "step" \in DOMAIN g THEN g.step ELSE hand[d].step
         /\ hand'[d].part = IF "part" \in DOMAIN g THEN g.part ELSE hand[d].part
         /\ hand'[d].now = IF "now" \in DOMAIN g THEN g.now ELSE hand[d].now
<1>1. hand' = [hand EXCEPT ![d] = With(hand[d], g)] BY DEF Goes
<1>2. hand'[d] = With(hand[d], g) BY <1>1 DEF SittingTypes
<1>3. \A f \in HandFields : hand'[d][f] = IF f \in DOMAIN g THEN g[f] ELSE hand[d][f]
  BY <1>2 DEF With, SittingTypes
<1>4. DOMAIN hand'[d] = HandFields BY <1>2 DEF With, SittingTypes
<1> QED BY <1>1, <1>3, <1>4 DEF SittingTypes, HandFields

LEMMA RestsFields ==
  ASSUME SittingTypes, NEW d \in Readers, NEW r, hand' = [hand EXCEPT ![d] = r],
         DOMAIN r = HandFields
  PROVE  /\ DOMAIN hand' = Readers /\ hand' = [e \in Readers |-> hand'[e]]
         /\ \A e \in Readers : DOMAIN hand'[e] = HandFields
         /\ \A e \in Readers \ {d} : hand'[e] = hand[e]
         /\ hand'[d] = r
  BY DEF SittingTypes

LEMMA IdleFields == DOMAIN Idle = HandFields /\ Idle.step = "idle" /\ Idle.now = 0
  BY DEF Idle, HandFields

LEMMA PutFields ==
  ASSUME SittingTypes, NEW p, NEW g, Put(p, g)
  PROVE  /\ DOMAIN parts' = PartIds
         /\ parts' \in Seq({parts'[q] : q \in PartIds'})
         /\ \A q \in PartIds : DOMAIN parts'[q] = PartFields
         /\ \A q \in PartIds \ {p} : parts'[q] = parts[q]
         /\ p \in PartIds =>
              /\ parts'[p].paid = IF "paid" \in DOMAIN g THEN g.paid ELSE parts[p].paid
              /\ parts'[p].noted = IF "noted" \in DOMAIN g THEN g.noted ELSE parts[p].noted
              /\ parts'[p].read = IF "read" \in DOMAIN g THEN g.read ELSE parts[p].read
              /\ parts'[p].distilled =
                   IF "distilled" \in DOMAIN g THEN g.distilled ELSE parts[p].distilled
<1>1. parts' = [parts EXCEPT ![p] = With(parts[p], g)] BY DEF Put
<1>2. /\ DOMAIN parts' = PartIds /\ \A q \in PartIds \ {p} : parts'[q] = parts[q]
      /\ PartIds = 1..Len(parts) /\ Len(parts) \in Nat
      /\ parts' = [q \in PartIds |-> parts'[q]]
  <2>1. /\ PartIds = 1..Len(parts) /\ Len(parts) \in Nat
        /\ parts \in [PartIds -> {parts[q] : q \in PartIds}]
    BY LenProperties DEF SittingTypes, PartIds
  <2> QED BY <1>1, <2>1 DEF PartIds
<1>3. parts' \in Seq({parts'[q] : q \in PartIds'})
  <2> DEFINE S == {parts'[q] : q \in PartIds'}
  <2>1. PartIds' = PartIds BY <1>2 DEF PartIds
  <2>2. \A q \in PartIds : parts'[q] \in S BY <2>1
  <2> HIDE DEF S
  <2>3. parts' \in [1..Len(parts) -> S] BY <1>2, <2>2
  <2>4. parts' \in Seq(S) BY <1>2, <2>3, SeqDef
  <2> QED BY <2>4 DEF S
<1>4. ASSUME p \in PartIds
      PROVE  /\ DOMAIN parts'[p] = PartFields
             /\ \A f \in PartFields : parts'[p][f] = IF f \in DOMAIN g THEN g[f] ELSE parts[p][f]
  BY <1>1, <1>4 DEF With, SittingTypes, PartIds
<1> QED BY <1>2, <1>3, <1>4 DEF SittingTypes, PartFields

Blank(part) == DOMAIN part = PartFields /\ part.paid = 0 /\ part.noted = 0

LEMMA BuiltFields ==
  ASSUME NEW region, NEW continues, NEW parent, NEW stop
  PROVE  Blank(Built(region, continues, parent, stop))
  BY DEF Built, PartFields, Blank

LEMMA GrowFields ==
  ASSUME SittingTypes, NEW T, NEW new \in Seq(T), parts' = parts \o new,
         \A i \in 1..Len(new) : Blank(new[i])
  PROVE  /\ parts' \in Seq({parts'[q] : q \in PartIds'})
         /\ PartIds \subseteq PartIds'
         /\ \A q \in PartIds : parts'[q] = parts[q]
         /\ \A q \in PartIds' \ PartIds : Blank(parts'[q])
         /\ PartIds' = 1..Len(parts) + Len(new)
         /\ \A q \in PartIds' \ PartIds :
              q - Len(parts) \in 1..Len(new) /\ parts'[q] = new[q - Len(parts)]
<1> DEFINE S == {parts[q] : q \in PartIds} \cup T
<1>1. parts \in Seq(S) /\ new \in Seq(S)
  BY SeqMonotonic DEF SittingTypes
<1>2. Len(parts) \in Nat /\ Len(new) \in Nat /\ PartIds = 1..Len(parts)
  BY <1>1, LenProperties DEF PartIds
<1> HIDE DEF S
<1>3. /\ parts' \in Seq(S) /\ Len(parts') = Len(parts) + Len(new)
      /\ \A i \in 1..Len(parts) + Len(new) :
           parts'[i] = IF i <= Len(parts) THEN parts[i] ELSE new[i - Len(parts)]
  BY <1>1, ConcatProperties
<1>4. PartIds' = 1..Len(parts) + Len(new) /\ parts' \in [PartIds' -> S]
  BY <1>2, <1>3, LenProperties DEF PartIds
<1>5. \A q \in PartIds : parts'[q] = parts[q]
  BY <1>2, <1>3
<1>6. \A q \in PartIds' \ PartIds : q - Len(parts) \in 1..Len(new) /\ parts'[q] = new[q - Len(parts)]
  BY <1>2, <1>3, <1>4
<1>7. parts' \in Seq({parts'[q] : q \in PartIds'})
  <2> DEFINE R == {parts'[q] : q \in PartIds'}
  <2>1. \A q \in PartIds' : parts'[q] \in R OBVIOUS
  <2> HIDE DEF R
  <2> DEFINE n == Len(parts) + Len(new)
  <2>2. n \in Nat BY <1>2
  <2>3. PartIds' = 1..n /\ DOMAIN parts' = 1..n /\ parts' = [q \in 1..n |-> parts'[q]]
    BY <1>4
  <2> HIDE DEF n
  <2>4. \A q \in 1..n : parts'[q] \in R BY <2>1, <2>3
  <2>5. parts' \in [1..n -> R] BY <2>3, <2>4
  <2>6. parts' \in Seq(R) BY <2>2, <2>5, SeqDef
  <2> QED BY <2>6 DEF R
<1>8. \A q \in PartIds' \ PartIds : Blank(parts'[q])
  <2> TAKE q \in PartIds' \ PartIds
  <2>1. q - Len(parts) \in 1..Len(new) /\ parts'[q] = new[q - Len(parts)] BY <1>6
  <2> QED BY <2>1
<1>9. PartIds \subseteq PartIds' BY <1>2, <1>4
<1> QED BY <1>4, <1>5, <1>6, <1>7, <1>8, <1>9

-----------------------------------------------------------------------------
(* The sittings: the two lenses, by one argument. *)

Lenses == {"queries", "claims"}

\* Reader d is past the guard of lens l for part p and has not yet marked it; it
\* waits for the model; what the lens has stored; the mark that closes the part.
Working(d, p, l) == IF l = "queries" THEN Reading(d, p) ELSE Noting(d, p)
Calling(d, l) == IF l = "queries" THEN At(d, "asking") ELSE At(d, "noting")
Paid(p, l) == IF l = "queries" THEN parts[p].paid ELSE parts[p].noted
Marked(p, l) == IF l = "queries" THEN parts[p].read ELSE parts[p].distilled

\* Two readers at one part are on record, and so is whoever died between its
\* commits; of any other part what was paid for is marked, or about to be.
LensInv(l) ==
  /\ \A d, e \in Readers : \A p \in {hand[d].part, hand[d].now} :
       d /= e /\ Working(d, p, l) /\ Working(e, p, l) => <<p, l>> \in twice
  /\ \A p \in PartIds : Paid(p, l) \in 0..2
  /\ \A p \in PartIds : <<p, l>> \notin twice =>
       /\ Paid(p, l) <= 1
       /\ Paid(p, l) = 1 => Marked(p, l) \/ \E d \in Readers : Working(d, p, l)
       /\ \A d \in Readers : Working(d, p, l) /\ Calling(d, l) => Paid(p, l) = 0

SittingInv == SittingTypes /\ \A l \in Lenses : LensInv(l)

\* A step that stores and opens nothing.
LEMMA Quiet ==
  ASSUME NEW l \in Lenses, LensInv(l),
         PartIds \subseteq PartIds', twice \subseteq twice',
         \A p \in PartIds : Paid(p, l)' = Paid(p, l) /\ (Marked(p, l) => Marked(p, l)'),
         \A p \in PartIds' \ PartIds : Paid(p, l)' = 0,
         \A d \in Readers : \A p : Working(d, p, l)' =>
            Working(d, p, l) /\ (Calling(d, l)' => Calling(d, l)),
         \A d \in Readers, p \in PartIds : Working(d, p, l) /\ ~Working(d, p, l)' =>
            Calling(d, l) \/ Marked(p, l)' \/ <<p, l>> \in twice'
  PROVE  LensInv(l)'
<1>1. ASSUME NEW d \in Readers, NEW p, Working(d, p, l) PROVE p \in {hand[d].part, hand[d].now}
  BY <1>1 DEF Working, Reading, Noting
<1>2. ASSUME NEW d \in Readers, NEW e \in Readers, NEW p, d /= e, Working(d, p, l)', Working(e, p, l)'
      PROVE  <<p, l>> \in twice'
  <2>1. CASE Working(d, p, l) /\ Working(e, p, l)
    <3>1. p \in {hand[d].part, hand[d].now} BY <1>1, <2>1
    <3> QED BY <1>2, <2>1, <3>1 DEF LensInv
  <2> QED BY <1>2, <2>1
<1>3. \A p \in PartIds' : Paid(p, l)' \in 0..2
  BY DEF LensInv
<1>4. ASSUME NEW p \in PartIds', <<p, l>> \notin twice'
      PROVE  /\ Paid(p, l)' <= 1
             /\ Paid(p, l)' = 1 => Marked(p, l)' \/ \E d \in Readers : Working(d, p, l)'
             /\ \A d \in Readers : Working(d, p, l)' /\ Calling(d, l)' => Paid(p, l)' = 0
  <2>1. CASE p \notin PartIds BY <1>4, <2>1
  <2>2. CASE p \in PartIds
    <3>1. <<p, l>> \notin twice BY <1>4
    <3>2. Paid(p, l)' <= 1 BY <2>2, <3>1 DEF LensInv
    <3>3. \A d \in Readers : Working(d, p, l)' /\ Calling(d, l)' => Paid(p, l)' = 0
      BY <2>2, <3>1 DEF LensInv
    <3>4. ASSUME Paid(p, l)' = 1, ~Marked(p, l)'
          PROVE  \E d \in Readers : Working(d, p, l)'
      <4>1. PICK d \in Readers : Working(d, p, l) BY <2>2, <3>1, <3>4 DEF LensInv
      <4>2. ~Calling(d, l) BY <2>2, <3>1, <3>4, <4>1 DEF LensInv
      <4> QED BY <1>4, <2>2, <3>4, <4>1, <4>2
    <3> QED BY <3>2, <3>3, <3>4
  <2> QED BY <2>1, <2>2
<1> QED BY <1>2, <1>3, <1>4 DEF LensInv

\* A reader passes the guard of a lens: whoever else is past it is on record.
LEMMA Opening ==
  ASSUME NEW l \in Lenses, LensInv(l), NEW d \in Readers, NEW q,
         PartIds' = PartIds, twice \subseteq twice',
         \A p \in PartIds : Paid(p, l)' = Paid(p, l) /\ (Marked(p, l) => Marked(p, l)'),
         q \in PartIds => ~Marked(q, l),
         \A p : ~Working(d, p, l) /\ (Working(d, p, l)' => p = q),
         Working(d, q, l)',
         \A e \in Readers \ {d} : Working(e, q, l) => <<q, l>> \in twice',
         \A e \in Readers \ {d} : \A p :
            Working(e, p, l)' = Working(e, p, l) /\ Calling(e, l)' = Calling(e, l)
  PROVE  LensInv(l)'
<1>1. ASSUME NEW e \in Readers, NEW p, Working(e, p, l) PROVE p \in {hand[e].part, hand[e].now}
  BY <1>1 DEF Working, Reading, Noting
<1>2. ASSUME NEW e \in Readers, NEW o \in Readers, NEW p, e /= o, Working(e, p, l)', Working(o, p, l)'
      PROVE  <<p, l>> \in twice'
  <2>1. CASE Working(e, p, l) /\ Working(o, p, l)
    <3>1. p \in {hand[e].part, hand[e].now} BY <1>1, <2>1
    <3> QED BY <1>2, <2>1, <3>1 DEF LensInv
  <2>2. CASE p = q BY <1>2, <2>2
  <2> QED BY <1>2, <2>1, <2>2
<1>3. \A p \in PartIds' : Paid(p, l)' \in 0..2
  BY DEF LensInv
<1>4. ASSUME NEW p \in PartIds, <<p, l>> \notin twice'
      PROVE  /\ Paid(p, l)' <= 1
             /\ Paid(p, l)' = 1 => Marked(p, l)' \/ \E e \in Readers : Working(e, p, l)'
             /\ \A e \in Readers : Working(e, p, l)' /\ Calling(e, l)' => Paid(p, l)' = 0
  <2>1. <<p, l>> \notin twice BY <1>4
  <2>2. Paid(p, l) <= 1 /\ Paid(p, l) \in 0..2 BY <2>1 DEF LensInv
  <2>3. ASSUME NEW e \in Readers, Working(e, p, l)', Calling(e, l)' PROVE Paid(p, l) = 0
    <3>1. CASE e = d
      <4>1. p = q BY <2>3, <3>1
      <4>2. \A o \in Readers : ~Working(o, p, l) BY <1>4, <4>1
      <4> QED BY <2>1, <2>2, <4>1, <4>2 DEF LensInv
    <3>2. CASE e /= d BY <2>1, <2>3, <3>2 DEF LensInv
    <3> QED BY <3>1, <3>2
  <2>4. Paid(p, l) = 1 => Marked(p, l)' \/ \E e \in Readers : Working(e, p, l)'
    BY <2>1 DEF LensInv
  <2> QED BY <2>2, <2>3, <2>4
<1> QED BY <1>2, <1>3, <1>4 DEF LensInv

\* The answer is stored: for the first time, or by one of several readers.
LEMMA Storing ==
  ASSUME NEW l \in Lenses, LensInv(l), NEW d \in Readers, NEW q,
         PartIds' = PartIds, twice' = twice,
         Working(d, q, l), Calling(d, l), ~Calling(d, l)',
         q \in PartIds => Paid(q, l)' = IF Paid(q, l) = 2 THEN 2 ELSE Paid(q, l) + 1,
         \A p \in PartIds \ {q} : Paid(p, l)' = Paid(p, l),
         \A p \in PartIds : Marked(p, l) => Marked(p, l)',
         \A e \in Readers : \A p : Working(e, p, l)' = Working(e, p, l),
         \A e \in Readers \ {d} : Calling(e, l)' = Calling(e, l)
  PROVE  LensInv(l)'
<1>1. ASSUME NEW e \in Readers, NEW p, Working(e, p, l) PROVE p \in {hand[e].part, hand[e].now}
  BY <1>1 DEF Working, Reading, Noting
<1>2. ASSUME NEW e \in Readers, NEW o \in Readers, NEW p, e /= o, Working(e, p, l), Working(o, p, l)
      PROVE  <<p, l>> \in twice
  <2>1. p \in {hand[e].part, hand[e].now} BY <1>1, <1>2
  <2> QED BY <1>2, <2>1 DEF LensInv
<1>3. ASSUME NEW p \in PartIds
      PROVE  /\ Paid(p, l)' \in 0..2
             /\ <<p, l>> \notin twice' =>
                  /\ Paid(p, l)' <= 1
                  /\ Paid(p, l)' = 1 => Marked(p, l)' \/ \E e \in Readers : Working(e, p, l)'
                  /\ \A e \in Readers : Working(e, p, l)' /\ Calling(e, l)' => Paid(p, l)' = 0
  <2>1. CASE p /= q BY <2>1 DEF LensInv
  <2>2. CASE p = q
    <3>1. Paid(q, l) \in 0..2 BY <2>2 DEF LensInv
    <3>2. Paid(q, l)' \in 0..2 BY <2>2, <3>1
    <3>3. ASSUME <<q, l>> \notin twice PROVE Paid(q, l)' = 1 /\ \A e \in Readers \ {d} : ~Working(e, q, l)
      <4>1. Paid(q, l) = 0 BY <2>2, <3>3 DEF LensInv
      <4> QED BY <1>2, <2>2, <3>3, <4>1
    <3> QED BY <2>2, <3>2, <3>3
  <2> QED BY <2>1, <2>2
<1> QED BY <1>2, <1>3 DEF LensInv

\* A step after which reader d is at no lens, having marked what it had paid for.
LEMMA Turning ==
  ASSUME SittingInv, SittingTypes', NEW d \in Readers,
         PartIds \subseteq PartIds', twice \subseteq twice',
         \A p \in PartIds : /\ parts'[p].paid = parts[p].paid /\ parts'[p].noted = parts[p].noted
                            /\ parts[p].read => parts'[p].read
                            /\ parts[p].distilled => parts'[p].distilled,
         \A p \in PartIds' \ PartIds : parts'[p].paid = 0 /\ parts'[p].noted = 0,
         \A e \in Readers \ {d} : hand'[e] = hand[e],
         hand'[d].step \notin {"asking", "landed", "recorded", "noting", "noted"},
         hand[d].step \in {"landed", "recorded"} /\ hand[d].part \in PartIds =>
            <<hand[d].part, "queries">> \in twice' \/ parts'[hand[d].part].read,
         hand[d].step = "noted" /\ hand[d].now \in PartIds =>
            <<hand[d].now, "claims">> \in twice' \/ parts'[hand[d].now].distilled
  PROVE  SittingInv'
<1>1. LensInv("queries")'
  <2> DEFINE l == "queries"
  <2>1. l \in Lenses /\ LensInv(l) BY DEF SittingInv, Lenses
  <2>2. \A p \in PartIds : Paid(p, l)' = Paid(p, l) /\ (Marked(p, l) => Marked(p, l)')
    BY DEF Paid, Marked
  <2>3. \A p \in PartIds' \ PartIds : Paid(p, l)' = 0 BY DEF Paid
  <2>4. \A e \in Readers : \A p : Working(e, p, l)' =>
           Working(e, p, l) /\ (Calling(e, l)' => Calling(e, l))
    BY DEF Working, Calling, Reading, At
  <2>5. \A e \in Readers, p \in PartIds : Working(e, p, l) /\ ~Working(e, p, l)' =>
           Calling(e, l) \/ Marked(p, l)' \/ <<p, l>> \in twice'
    BY DEF Working, Calling, Reading, At, Marked
  <2> QED BY <2>1, <2>2, <2>3, <2>4, <2>5, Quiet
<1>2. LensInv("claims")'
  <2> DEFINE l == "claims"
  <2>1. l \in Lenses /\ LensInv(l) BY DEF SittingInv, Lenses
  <2>2. \A p \in PartIds : Paid(p, l)' = Paid(p, l) /\ (Marked(p, l) => Marked(p, l)')
    BY DEF Paid, Marked
  <2>3. \A p \in PartIds' \ PartIds : Paid(p, l)' = 0 BY DEF Paid
  <2>4. \A e \in Readers : \A p : Working(e, p, l)' =>
           Working(e, p, l) /\ (Calling(e, l)' => Calling(e, l))
    BY DEF Working, Calling, Noting, At
  <2>5. \A e \in Readers, p \in PartIds : Working(e, p, l) /\ ~Working(e, p, l)' =>
           Calling(e, l) \/ Marked(p, l)' \/ <<p, l>> \in twice'
    BY DEF Working, Calling, Noting, At, Marked
  <2> QED BY <2>1, <2>2, <2>3, <2>4, <2>5, Quiet
<1> QED BY <1>1, <1>2 DEF SittingInv, Lenses

\* A step of nobody's: parts are added, or change in what is left out here.
LEMMA Standing ==
  ASSUME SittingInv, SittingTypes', UNCHANGED <<hand, twice>>, PartIds \subseteq PartIds',
         \A p \in PartIds : /\ parts'[p].paid = parts[p].paid /\ parts'[p].noted = parts[p].noted
                            /\ parts'[p].read = parts[p].read
                            /\ parts'[p].distilled = parts[p].distilled,
         \A p \in PartIds' \ PartIds : parts'[p].paid = 0 /\ parts'[p].noted = 0
  PROVE  SittingInv'
<1>1. ASSUME NEW l \in Lenses PROVE LensInv(l)'
  <2>1. LensInv(l) BY DEF SittingInv
  <2>2. \A p \in PartIds : Paid(p, l)' = Paid(p, l) /\ (Marked(p, l) => Marked(p, l)')
    BY DEF Paid, Marked
  <2>3. \A p \in PartIds' \ PartIds : Paid(p, l)' = 0 BY DEF Paid
  <2>4. \A e \in Readers : \A p : Working(e, p, l)' = Working(e, p, l) /\ Calling(e, l)' = Calling(e, l)
    BY DEF Working, Calling, Noting, Reading, At
  <2> QED BY <2>1, <2>2, <2>3, <2>4, Quiet
<1> QED BY <1>1 DEF SittingInv

-----------------------------------------------------------------------------
(* The sittings: the steps of a reader *)

LEMMA StaysTyped ==
  ASSUME SittingTypes, NEW d \in Readers, NEW g, Goes(d, g), UNCHANGED parts
  PROVE  SittingTypes'
<1>1. /\ DOMAIN hand' = Readers /\ hand' = [e \in Readers |-> hand'[e]]
      /\ \A e \in Readers : DOMAIN hand'[e] = HandFields
  BY GoesFields
<1> QED BY <1>1 DEF SittingTypes, PartIds

LEMMA PutTyped ==
  ASSUME SittingTypes, NEW d \in Readers, NEW g, Goes(d, g), NEW p, NEW h, Put(p, h)
  PROVE  SittingTypes'
<1>1. /\ DOMAIN hand' = Readers /\ hand' = [e \in Readers |-> hand'[e]]
      /\ \A e \in Readers : DOMAIN hand'[e] = HandFields
  BY GoesFields
<1>2. /\ DOMAIN parts' = PartIds /\ parts' \in Seq({parts'[q] : q \in PartIds'})
      /\ \A q \in PartIds : DOMAIN parts'[q] = PartFields
  BY PutFields
<1> QED BY <1>1, <1>2 DEF SittingTypes, PartIds

\* The claims of one part are begun, or found done.
LEMMA BeginsNotes ==
  ASSUME SittingInv, NEW d \in Readers, NEW a, NEW g, Goes(d, g), UNCHANGED parts,
         "step" \in DOMAIN g, g.step = "noting", "now" \in DOMAIN g, g.now = a,
         hand[d].step \notin {"asking", "landed", "recorded", "noting", "noted"},
         ~Distilled(a),
         twice' = twice \cup {<<a, "claims">> : o \in {o \in Others(d) : Noting(o, a)}}
  PROVE  SittingInv'
<1>1. /\ \A e \in Readers \ {d} : hand'[e] = hand[e]
      /\ hand'[d].step = "noting" /\ hand'[d].now = a
  BY GoesFields DEF SittingInv
<1>2. SittingTypes' BY StaysTyped DEF SittingInv
<1>3. PartIds' = PartIds /\ twice \subseteq twice' BY DEF PartIds
<1>4. LensInv("queries")'
  <2> DEFINE l == "queries"
  <2>1. l \in Lenses /\ LensInv(l) BY DEF SittingInv, Lenses
  <2>2. \A p \in PartIds : Paid(p, l)' = Paid(p, l) /\ (Marked(p, l) => Marked(p, l)')
    BY DEF Paid, Marked
  <2>4. \A e \in Readers : \A p : Working(e, p, l)' = Working(e, p, l) /\ Calling(e, l)' = Calling(e, l)
    BY <1>1 DEF Working, Calling, Reading, At
  <2> QED BY <1>3, <2>1, <2>2, <2>4, Quiet
<1>5. LensInv("claims")'
  <2> DEFINE l == "claims"
  <2>1. l \in Lenses /\ LensInv(l) BY DEF SittingInv, Lenses
  <2>2. \A p \in PartIds : Paid(p, l)' = Paid(p, l) /\ (Marked(p, l) => Marked(p, l)')
    BY DEF Paid, Marked
  <2>3. a \in PartIds => ~Marked(a, l) BY DEF Marked, Distilled
  <2>4. \A p : ~Working(d, p, l) /\ (Working(d, p, l)' => p = a)
    BY <1>1 DEF Working, Noting
  <2>5. Working(d, a, l)' BY <1>1 DEF Working, Noting
  <2>6. \A e \in Readers \ {d} : Working(e, a, l) => <<a, l>> \in twice'
    BY DEF Working, Others
  <2>7. \A e \in Readers \ {d} : \A p :
           Working(e, p, l)' = Working(e, p, l) /\ Calling(e, l)' = Calling(e, l)
    BY <1>1 DEF Working, Calling, Noting, At
  <2> QED BY <1>3, <2>1, <2>2, <2>3, <2>4, <2>5, <2>6, <2>7, Opening
<1> QED BY <1>2, <1>4, <1>5 DEF SittingInv, Lenses

\* A step of d's that writes no part and ends at no lens, from none.
LEMMA Wanders ==
  ASSUME SittingInv, NEW d \in Readers, NEW g, Goes(d, g), UNCHANGED <<parts, twice>>,
         "step" \in DOMAIN g => g.step \notin {"asking", "landed", "recorded", "noting", "noted"},
         hand[d].step \notin {"landed", "recorded", "noted"},
         "step" \notin DOMAIN g => hand[d].step \notin {"asking", "noting"}
  PROVE  SittingInv'
<1>1. SittingTypes' BY StaysTyped DEF SittingInv
<1>2. /\ \A e \in Readers \ {d} : hand'[e] = hand[e]
      /\ hand'[d].step = IF "step" \in DOMAIN g THEN g.step ELSE hand[d].step
  BY GoesFields DEF SittingInv
<1>3. PartIds' = PartIds BY DEF PartIds
<1> QED BY <1>1, <1>2, <1>3, Turning

LEMMA NextDebtKeeps ==
  ASSUME SittingInv, NEW d \in Readers, NextDebt(d) PROVE SittingInv'
<1> DEFINE a == CHOOSE a \in hand[d].debts : \A b \in hand[d].debts : a <= b
           rest == hand[d].debts \ {a}
<1>1. /\ hand[d].step = "debts" /\ UNCHANGED parts
      /\ \/ Goes(d, [debts |-> rest]) /\ UNCHANGED twice
         \/ /\ ~Distilled(a) /\ Goes(d, [step |-> "noting", now |-> a, debts |-> rest])
            /\ twice' = twice \cup {<<a, "claims">> : o \in {o \in Others(d) : Noting(o, a)}}
  BY DEF NextDebt, At, storeVars
<1> HIDE DEF a, rest
<1>2. CASE Goes(d, [debts |-> rest]) /\ UNCHANGED twice
  BY <1>1, <1>2, Wanders
<1>3. CASE /\ ~Distilled(a) /\ Goes(d, [step |-> "noting", now |-> a, debts |-> rest])
           /\ twice' = twice \cup {<<a, "claims">> : o \in {o \in Others(d) : Noting(o, a)}}
  BY <1>1, <1>3, BeginsNotes
<1> QED BY <1>1, <1>2, <1>3

LEMMA AsksKeeps ==
  ASSUME SittingInv, NEW d \in Readers, Asks(d) PROVE SittingInv'
<1> DEFINE q == hand[d].part
           g == [step |-> "asking", unpaid |-> {}]
<1>1. /\ hand[d].step = "debts" /\ UNCHANGED parts
      /\ \/ Goes(d, [step |-> "over"]) /\ UNCHANGED twice
         \/ /\ ~Closed(q) /\ Goes(d, g)
            /\ twice' = twice \cup {<<q, "queries">> : o \in {o \in Others(d) : Reading(o, q)}}
  BY DEF Asks, At, storeVars
<1>2. CASE Goes(d, [step |-> "over"]) /\ UNCHANGED twice
  BY <1>1, <1>2, Wanders
<1>3. CASE /\ ~Closed(q) /\ Goes(d, g)
           /\ twice' = twice \cup {<<q, "queries">> : o \in {o \in Others(d) : Reading(o, q)}}
  <2>1. /\ \A e \in Readers \ {d} : hand'[e] = hand[e]
        /\ hand'[d].step = "asking" /\ hand'[d].part = hand[d].part
    BY <1>3, GoesFields DEF SittingInv
  <2>2. SittingTypes' BY <1>1, <1>3, StaysTyped DEF SittingInv
  <2>3. PartIds' = PartIds /\ twice \subseteq twice' BY <1>1, <1>3 DEF PartIds
  <2>4. LensInv("claims")'
    <3> DEFINE l == "claims"
    <3>1. l \in Lenses /\ LensInv(l) BY DEF SittingInv, Lenses
    <3>2. \A p \in PartIds : Paid(p, l)' = Paid(p, l) /\ (Marked(p, l) => Marked(p, l)')
      BY <1>1 DEF Paid, Marked
    <3>3. \A e \in Readers : \A p : Working(e, p, l)' = Working(e, p, l) /\ Calling(e, l)' = Calling(e, l)
      BY <1>1, <2>1 DEF Working, Calling, Noting, At
    <3> QED BY <2>3, <3>1, <3>2, <3>3, Quiet
  <2>5. LensInv("queries")'
    <3> DEFINE l == "queries"
    <3>1. l \in Lenses /\ LensInv(l) BY DEF SittingInv, Lenses
    <3>2. \A p \in PartIds : Paid(p, l)' = Paid(p, l) /\ (Marked(p, l) => Marked(p, l)')
      BY <1>1 DEF Paid, Marked
    <3>3. q \in PartIds => ~Marked(q, l) BY <1>3 DEF Marked, Closed
    <3>4. \A p : ~Working(d, p, l) /\ (Working(d, p, l)' => p = q)
      BY <1>1, <2>1 DEF Working, Reading
    <3>5. Working(d, q, l)' BY <2>1 DEF Working, Reading
    <3>6. \A e \in Readers \ {d} : Working(e, q, l) => <<q, l>> \in twice'
      BY <1>3 DEF Working, Others
    <3>7. \A e \in Readers \ {d} : \A p :
             Working(e, p, l)' = Working(e, p, l) /\ Calling(e, l)' = Calling(e, l)
      BY <2>1 DEF Working, Calling, Reading, At
    <3> QED BY <2>3, <3>1, <3>2, <3>3, <3>4, <3>5, <3>6, <3>7, Opening
  <2> QED BY <2>2, <2>4, <2>5 DEF SittingInv, Lenses
<1> QED BY <1>1, <1>2, <1>3

\* A step of d's that writes one part, pays for nothing and ends at no lens.
LEMMA Leaves ==
  ASSUME SittingInv, NEW d \in Readers, NEW g, Goes(d, g), NEW p, NEW h, Put(p, h),
         "paid" \notin DOMAIN h, "noted" \notin DOMAIN h,
         "read" \in DOMAIN h => h.read = TRUE, "distilled" \in DOMAIN h => h.distilled = TRUE,
         twice \subseteq twice',
         "step" \in DOMAIN g => g.step \notin {"asking", "landed", "recorded", "noting", "noted"},
         "step" \notin DOMAIN g => hand[d].step \notin {"asking", "landed", "recorded", "noting", "noted"},
         hand[d].step \in {"landed", "recorded"} => p = hand[d].part /\ "read" \in DOMAIN h,
         hand[d].step = "noted" => p = hand[d].now /\ "distilled" \in DOMAIN h
  PROVE  SittingInv'
<1>1. SittingTypes' BY PutTyped DEF SittingInv
<1>2. /\ \A e \in Readers \ {d} : hand'[e] = hand[e]
      /\ hand'[d].step = IF "step" \in DOMAIN g THEN g.step ELSE hand[d].step
  BY GoesFields DEF SittingInv
<1>3. /\ DOMAIN parts' = PartIds
      /\ \A q \in PartIds \ {p} : parts'[q] = parts[q]
      /\ p \in PartIds =>
           /\ parts'[p].paid = parts[p].paid /\ parts'[p].noted = parts[p].noted
           /\ parts'[p].read = IF "read" \in DOMAIN h THEN TRUE ELSE parts[p].read
           /\ parts'[p].distilled = IF "distilled" \in DOMAIN h THEN TRUE ELSE parts[p].distilled
  BY PutFields DEF SittingInv
<1>4. \A q \in PartIds : /\ parts'[q].paid = parts[q].paid /\ parts'[q].noted = parts[q].noted
                         /\ parts[q].read => parts'[q].read
                         /\ parts[q].distilled => parts'[q].distilled
  BY <1>3
<1>5. PartIds' = PartIds BY <1>3 DEF PartIds
<1>6. hand[d].step \in {"landed", "recorded"} /\ hand[d].part \in PartIds => parts'[hand[d].part].read
  BY <1>3
<1>7. hand[d].step = "noted" /\ hand[d].now \in PartIds => parts'[hand[d].now].distilled
  BY <1>3
<1> QED BY <1>1, <1>2, <1>4, <1>5, <1>6, <1>7, Turning

LEMMA MarksDistilledKeeps ==
  ASSUME SittingInv, NEW d \in Readers, MarksDistilled(d) PROVE SittingInv'
<1> DEFINE g == [step |-> AfterNotes(d), now |-> 0]
           h == [distilled |-> TRUE]
<1>1. /\ hand[d].step = "noted" /\ Put(hand[d].now, h) /\ Goes(d, g) /\ UNCHANGED twice
  BY DEF MarksDistilled, At
<1>2. /\ DOMAIN g = {"step", "now"} /\ g.step \in {"over", "debts"}
      /\ DOMAIN h = {"distilled"} /\ h.distilled = TRUE
  BY DEF AfterNotes
<1> HIDE DEF g, h
<1> QED BY <1>1, <1>2, Leaves

LEMMA AskFailsKeeps ==
  ASSUME SittingInv, NEW d \in Readers, AskFails(d) PROVE SittingInv'
<1> DEFINE g == [step |-> "failed"]
           h == [runs |-> parts[hand[d].part].runs \cup {"row"}]
<1>1. hand[d].step = "asking" /\ Put(hand[d].part, h) /\ Goes(d, g) /\ UNCHANGED twice
  BY DEF AskFails, At
<1>2. DOMAIN g = {"step"} /\ g.step = "failed" /\ DOMAIN h = {"runs"} OBVIOUS
<1> HIDE DEF g, h
<1> QED BY <1>1, <1>2, Leaves

LEMMA ClaimsFailKeeps ==
  ASSUME SittingInv, NEW d \in Readers, NEW reached \in BOOLEAN, ClaimsFail(d, reached)
  PROVE  SittingInv'
<1> DEFINE over == [step |-> "over", now |-> 0]
           on == [step |-> "debts", now |-> 0, unpaid |-> hand[d].unpaid \cup {hand[d].now}]
           h == [botched |-> TRUE]
<1>1. /\ hand[d].step = "noting" /\ UNCHANGED twice
      /\ (Goes(d, over) \/ Goes(d, on)) /\ (Put(hand[d].now, h) \/ UNCHANGED parts)
  BY DEF ClaimsFail, At
<1>2. PICK g : Goes(d, g) /\ "step" \in DOMAIN g /\ g.step \in {"over", "debts"}
  <2>1. "step" \in DOMAIN over /\ over.step \in {"over", "debts"} OBVIOUS
  <2>2. "step" \in DOMAIN on /\ on.step \in {"over", "debts"} OBVIOUS
  <2> HIDE DEF over, on
  <2> QED BY <1>1, <2>1, <2>2
<1>3. DOMAIN h = {"botched"} OBVIOUS
<1> HIDE DEF h
<1>4. CASE Put(hand[d].now, h) BY <1>1, <1>2, <1>3, <1>4, Leaves
<1>5. CASE UNCHANGED parts BY <1>1, <1>2, <1>5, Wanders
<1> QED BY <1>1, <1>4, <1>5

LEMMA MappingKeeps ==
  ASSUME SittingInv, NEW d \in Readers, Maps(d) \/ StoresOutput(d) \/ MapFails(d)
  PROVE  SittingInv'
<1>1. CASE Maps(d)
  <2>1. /\ hand[d].step = "mapping" /\ UNCHANGED <<parts, twice>>
        /\ \/ Goes(d, [step |-> "over"])
           \/ \E q : Goes(d, [now |-> q, text |-> parts[q].has])
    BY <1>1 DEF Maps, At, storeVars
  <2>2. CASE Goes(d, [step |-> "over"]) BY <2>1, <2>2, Wanders
  <2>3. CASE \E q : Goes(d, [now |-> q, text |-> parts[q].has])
    <3>1. PICK q : Goes(d, [now |-> q, text |-> parts[q].has]) BY <2>3
    <3> QED BY <2>1, <3>1, Wanders
  <2> QED BY <2>1, <2>2, <2>3
<1>2. CASE StoresOutput(d)
  <2> DEFINE g == [now |-> 0, text |-> FALSE]
             h == [cached |-> IF hand[d].text THEN "with" ELSE "without"]
  <2>1. hand[d].step = "mapping" /\ UNCHANGED twice /\ Goes(d, g) /\ Put(hand[d].now, h)
    BY <1>2 DEF StoresOutput, At
  <2>2. DOMAIN g = {"now", "text"} /\ DOMAIN h = {"cached"} OBVIOUS
  <2> HIDE DEF g, h
  <2> QED BY <2>1, <2>2, Leaves
<1>3. CASE MapFails(d)
  <2> DEFINE g == [now |-> 0, text |-> FALSE, unpaid |-> hand[d].unpaid \cup {hand[d].now}]
  <2>1. hand[d].step = "mapping" /\ UNCHANGED <<parts, twice>> /\ Goes(d, g)
    BY <1>3 DEF MapFails, At, storeVars
  <2> QED BY <2>1, Wanders
<1> QED BY <1>1, <1>2, <1>3

LEMMA DiesKeeps ==
  ASSUME SittingInv, NEW d \in Readers, Dies(d) PROVE SittingInv'
<1>1. hand' = [hand EXCEPT ![d] = Idle] /\ UNCHANGED parts BY DEF Dies, Rests, storeVars
<1>2. /\ DOMAIN hand' = Readers /\ hand' = [e \in Readers |-> hand'[e]]
      /\ \A e \in Readers : DOMAIN hand'[e] = HandFields
      /\ \A e \in Readers \ {d} : hand'[e] = hand[e]
      /\ hand'[d].step = "idle"
  BY <1>1, RestsFields, IdleFields DEF SittingInv
<1>3. SittingTypes' BY <1>1, <1>2 DEF SittingInv, SittingTypes, PartIds
<1>4. PartIds' = PartIds /\ twice \subseteq twice' BY <1>1 DEF PartIds, Dies
<1>5. hand[d].step \in {"landed", "recorded"} => <<hand[d].part, "queries">> \in twice'
  BY DEF Dies
<1>6. hand[d].step = "noted" => <<hand[d].now, "claims">> \in twice'
  BY DEF Dies, At
<1> QED BY <1>1, <1>2, <1>3, <1>4, <1>5, <1>6, Turning

LEMMA StoresClaimsKeeps ==
  ASSUME SittingInv, NEW d \in Readers, StoresClaims(d) PROVE SittingInv'
<1>0. PICK q : q = hand[d].now OBVIOUS
<1> DEFINE g == [step |-> "noted"]
           h == [noted |-> IF parts[q].noted = 2 THEN 2 ELSE parts[q].noted + 1]
<1>1. hand[d].step = "noting" /\ Put(q, h) /\ Goes(d, g) /\ UNCHANGED twice
  BY <1>0 DEF StoresClaims, At
<1>2. /\ \A e \in Readers \ {d} : hand'[e] = hand[e]
      /\ hand'[d].step = "noted" /\ hand'[d].now = q /\ hand'[d].part = hand[d].part
  BY <1>0, <1>1, GoesFields DEF SittingInv
<1>3. SittingTypes' BY <1>1, PutTyped DEF SittingInv
<1>4. /\ DOMAIN parts' = PartIds
      /\ \A p \in PartIds \ {q} : parts'[p] = parts[p]
      /\ q \in PartIds =>
           /\ parts'[q].noted = IF parts[q].noted = 2 THEN 2 ELSE parts[q].noted + 1
           /\ parts'[q].paid = parts[q].paid
           /\ parts'[q].read = parts[q].read
           /\ parts'[q].distilled = parts[q].distilled
  <2>1. DOMAIN h = {"noted"} /\ h.noted = IF parts[q].noted = 2 THEN 2 ELSE parts[q].noted + 1 OBVIOUS
  <2> HIDE DEF h
  <2> QED BY <1>1, <2>1, PutFields DEF SittingInv
<1>5. PartIds' = PartIds BY <1>4 DEF PartIds
<1>6. LensInv("queries")'
  <2> DEFINE l == "queries"
  <2>1. l \in Lenses /\ LensInv(l) BY DEF SittingInv, Lenses
  <2>2. \A p \in PartIds : Paid(p, l)' = Paid(p, l) /\ (Marked(p, l) => Marked(p, l)')
    BY <1>4 DEF Paid, Marked
  <2>3. \A e \in Readers : \A p : Working(e, p, l)' = Working(e, p, l) /\ Calling(e, l)' = Calling(e, l)
    BY <1>0, <1>1, <1>2 DEF Working, Calling, Reading, At
  <2> QED BY <1>1, <1>5, <2>1, <2>2, <2>3, Quiet
<1>7. LensInv("claims")'
  <2> DEFINE l == "claims"
  <2>1. l \in Lenses /\ LensInv(l) BY DEF SittingInv, Lenses
  <2>2. Working(d, q, l) /\ Calling(d, l) /\ ~Calling(d, l)'
    BY <1>0, <1>1, <1>2 DEF Working, Noting, Calling, At
  <2>3. q \in PartIds => Paid(q, l)' = IF Paid(q, l) = 2 THEN 2 ELSE Paid(q, l) + 1
    BY <1>4 DEF Paid
  <2>4. /\ \A p \in PartIds \ {q} : Paid(p, l)' = Paid(p, l)
        /\ \A p \in PartIds : Marked(p, l) => Marked(p, l)'
    BY <1>4 DEF Paid, Marked
  <2>5. /\ \A e \in Readers : \A p : Working(e, p, l)' = Working(e, p, l)
        /\ \A e \in Readers \ {d} : Calling(e, l)' = Calling(e, l)
    BY <1>0, <1>1, <1>2 DEF Working, Calling, Noting, At
  <2> QED BY <1>1, <1>5, <2>1, <2>2, <2>3, <2>4, <2>5, Storing
<1> QED BY <1>3, <1>6, <1>7 DEF SittingInv, Lenses

LEMMA LandsKeeps ==
  ASSUME SittingInv, NEW d \in Readers, Lands(d) PROVE SittingInv'
<1>0. PICK q : q = hand[d].part OBVIOUS
<1> DEFINE g == [step |-> "landed"]
           h == [paid |-> IF parts[q].paid = 2 THEN 2 ELSE parts[q].paid + 1]
<1>1. hand[d].step = "asking" /\ Put(q, h) /\ Goes(d, g) /\ UNCHANGED twice
  BY <1>0 DEF Lands, At
<1>2. /\ \A e \in Readers \ {d} : hand'[e] = hand[e]
      /\ hand'[d].step = "landed" /\ hand'[d].now = hand[d].now /\ hand'[d].part = q
  BY <1>0, <1>1, GoesFields DEF SittingInv
<1>3. SittingTypes' BY <1>1, PutTyped DEF SittingInv
<1>4. /\ DOMAIN parts' = PartIds
      /\ \A p \in PartIds \ {q} : parts'[p] = parts[p]
      /\ q \in PartIds =>
           /\ parts'[q].paid = IF parts[q].paid = 2 THEN 2 ELSE parts[q].paid + 1
           /\ parts'[q].noted = parts[q].noted
           /\ parts'[q].read = parts[q].read
           /\ parts'[q].distilled = parts[q].distilled
  <2>1. DOMAIN h = {"paid"} /\ h.paid = IF parts[q].paid = 2 THEN 2 ELSE parts[q].paid + 1 OBVIOUS
  <2> HIDE DEF h
  <2> QED BY <1>1, <2>1, PutFields DEF SittingInv
<1>5. PartIds' = PartIds BY <1>4 DEF PartIds
<1>6. LensInv("claims")'
  <2> DEFINE l == "claims"
  <2>1. l \in Lenses /\ LensInv(l) BY DEF SittingInv, Lenses
  <2>2. \A p \in PartIds : Paid(p, l)' = Paid(p, l) /\ (Marked(p, l) => Marked(p, l)')
    BY <1>4 DEF Paid, Marked
  <2>3. \A e \in Readers : \A p : Working(e, p, l)' = Working(e, p, l) /\ Calling(e, l)' = Calling(e, l)
    BY <1>0, <1>1, <1>2 DEF Working, Calling, Noting, At
  <2> QED BY <1>1, <1>5, <2>1, <2>2, <2>3, Quiet
<1>7. LensInv("queries")'
  <2> DEFINE l == "queries"
  <2>1. l \in Lenses /\ LensInv(l) BY DEF SittingInv, Lenses
  <2>2. Working(d, q, l) /\ Calling(d, l) /\ ~Calling(d, l)'
    BY <1>0, <1>1, <1>2 DEF Working, Reading, Calling, At
  <2>3. q \in PartIds => Paid(q, l)' = IF Paid(q, l) = 2 THEN 2 ELSE Paid(q, l) + 1
    BY <1>4 DEF Paid
  <2>4. /\ \A p \in PartIds \ {q} : Paid(p, l)' = Paid(p, l)
        /\ \A p \in PartIds : Marked(p, l) => Marked(p, l)'
    BY <1>4 DEF Paid, Marked
  <2>5. /\ \A e \in Readers : \A p : Working(e, p, l)' = Working(e, p, l)
        /\ \A e \in Readers \ {d} : Calling(e, l)' = Calling(e, l)
    BY <1>0, <1>1, <1>2 DEF Working, Calling, Reading, At
  <2> QED BY <1>1, <1>5, <2>1, <2>2, <2>3, <2>4, <2>5, Storing
<1> QED BY <1>3, <1>6, <1>7 DEF SittingInv, Lenses

LEMMA RecordsRunKeeps ==
  ASSUME SittingInv, NEW d \in Readers, RecordsRun(d) PROVE SittingInv'
<1> DEFINE g == [step |-> "recorded"]
           h == [runs |-> parts[hand[d].part].runs \cup {"ok"}]
<1>1. hand[d].step = "landed" /\ Put(hand[d].part, h) /\ Goes(d, g) /\ UNCHANGED twice
  BY DEF RecordsRun, At
<1>2. /\ \A e \in Readers \ {d} : hand'[e] = hand[e]
      /\ hand'[d].step = "recorded" /\ hand'[d].now = hand[d].now /\ hand'[d].part = hand[d].part
  BY <1>1, GoesFields DEF SittingInv
<1>3. SittingTypes' BY <1>1, PutTyped DEF SittingInv
<1>4. /\ DOMAIN parts' = PartIds
      /\ \A p \in PartIds : /\ parts'[p].paid = parts[p].paid /\ parts'[p].noted = parts[p].noted
                             /\ parts'[p].read = parts[p].read
                             /\ parts'[p].distilled = parts[p].distilled
  <2>1. DOMAIN h = {"runs"} OBVIOUS
  <2> HIDE DEF h
  <2> QED BY <1>1, <2>1, PutFields, ZenonT(30) DEF SittingInv
<1>5. PartIds' = PartIds BY <1>4 DEF PartIds
<1>6. ASSUME NEW l \in Lenses PROVE LensInv(l)'
  <2>1. LensInv(l) BY DEF SittingInv
  <2>2. \A p \in PartIds : Paid(p, l)' = Paid(p, l) /\ (Marked(p, l) => Marked(p, l)')
    BY <1>4 DEF Paid, Marked
  <2>3. \A e \in Readers : \A p : Working(e, p, l)' = Working(e, p, l) /\ (Calling(e, l)' => Calling(e, l))
    BY <1>1, <1>2 DEF Working, Calling, Reading, Noting, At
  <2> QED BY <1>1, <1>5, <2>1, <2>2, <2>3, Quiet
<1> QED BY <1>3, <1>6 DEF SittingInv

LEMMA MarksKeeps ==
  ASSUME SittingInv, NEW d \in Readers, Marks(d) PROVE SittingInv'
<1>0. PICK q : q = hand[d].part OBVIOUS
<1> DEFINE g == [step |-> "noting", now |-> q]
           h == [read |-> TRUE]
<1>1. /\ hand[d].step = "recorded" /\ Put(q, h)
      /\ \/ Goes(d, [step |-> "over"]) /\ UNCHANGED twice
         \/ /\ ~Distilled(q) /\ Goes(d, g)
            /\ twice' = twice \cup {<<q, "claims">> : o \in {o \in Others(d) : Noting(o, q)}}
  BY <1>0 DEF Marks, At, MarksRead, Notes
<1>2. CASE Goes(d, [step |-> "over"]) /\ UNCHANGED twice
  <2> DEFINE o == [step |-> "over"]
  <2>1. Goes(d, o) /\ DOMAIN o = {"step"} /\ o.step = "over" BY <1>2
  <2>2. DOMAIN h = {"read"} /\ h.read = TRUE OBVIOUS
  <2> HIDE DEF o, h
  <2> QED BY <1>0, <1>1, <1>2, <2>1, <2>2, Leaves
<1>3. CASE /\ ~Distilled(q) /\ Goes(d, g)
           /\ twice' = twice \cup {<<q, "claims">> : o \in {o \in Others(d) : Noting(o, q)}}
  <2>1. /\ \A e \in Readers \ {d} : hand'[e] = hand[e]
        /\ hand'[d].step = "noting" /\ hand'[d].now = q
    BY <1>3, GoesFields DEF SittingInv
  <2>2. SittingTypes' BY <1>1, <1>3, PutTyped DEF SittingInv
  <2>3. /\ DOMAIN parts' = PartIds
        /\ \A p \in PartIds \ {q} : parts'[p] = parts[p]
        /\ q \in PartIds =>
             /\ parts'[q].paid = parts[q].paid /\ parts'[q].noted = parts[q].noted
             /\ parts'[q].read = TRUE
             /\ parts'[q].distilled = parts[q].distilled
    <3>1. DOMAIN h = {"read"} /\ h.read = TRUE OBVIOUS
    <3> HIDE DEF h
    <3> QED BY <1>1, <3>1, PutFields DEF SittingInv
  <2>4. PartIds' = PartIds /\ twice \subseteq twice' BY <1>3, <2>3 DEF PartIds
  <2>5. LensInv("queries")'
    <3> DEFINE l == "queries"
    <3>1. l \in Lenses /\ LensInv(l) BY DEF SittingInv, Lenses
    <3>2. \A p \in PartIds : Paid(p, l)' = Paid(p, l) /\ (Marked(p, l) => Marked(p, l)')
      BY <2>3 DEF Paid, Marked
    <3>3. \A e \in Readers : \A p : Working(e, p, l)' =>
             Working(e, p, l) /\ (Calling(e, l)' => Calling(e, l))
      BY <2>1 DEF Working, Calling, Reading, At
    <3>4. \A e \in Readers, p \in PartIds : Working(e, p, l) /\ ~Working(e, p, l)' => Marked(p, l)'
      BY <1>0, <1>1, <2>1, <2>3 DEF Working, Reading, Marked
    <3> QED BY <2>4, <3>1, <3>2, <3>3, <3>4, Quiet
  <2>6. LensInv("claims")'
    <3> DEFINE l == "claims"
    <3>1. l \in Lenses /\ LensInv(l) BY DEF SittingInv, Lenses
    <3>2. \A p \in PartIds : Paid(p, l)' = Paid(p, l) /\ (Marked(p, l) => Marked(p, l)')
      BY <2>3 DEF Paid, Marked
    <3>3. q \in PartIds => ~Marked(q, l) BY <1>3 DEF Marked, Distilled
    <3>4. \A p : ~Working(d, p, l) /\ (Working(d, p, l)' => p = q)
      BY <1>1, <2>1 DEF Working, Noting
    <3>5. Working(d, q, l)' BY <2>1 DEF Working, Noting
    <3>6. \A e \in Readers \ {d} : Working(e, q, l) => <<q, l>> \in twice'
      BY <1>3 DEF Working, Others
    <3>7. \A e \in Readers \ {d} : \A p :
             Working(e, p, l)' = Working(e, p, l) /\ Calling(e, l)' = Calling(e, l)
      BY <2>1 DEF Working, Calling, Noting, At
    <3> QED BY <2>4, <3>1, <3>2, <3>3, <3>4, <3>5, <3>6, <3>7, Opening
  <2> QED BY <2>2, <2>5, <2>6 DEF SittingInv, Lenses
<1> QED BY <1>1, <1>2, <1>3

LEMMA ReaderKeeps ==
  ASSUME SittingInv, NEW d \in Readers, Reads(d) \/ ReadFails(d) \/ Dies(d)
  PROVE  SittingInv'
  BY NextDebtKeeps, StoresClaimsKeeps, MarksDistilledKeeps, AsksKeeps, LandsKeeps, RecordsRunKeeps,
     MarksKeeps, MappingKeeps, AskFailsKeeps, ClaimsFailKeeps, DiesKeeps
  DEF Reads, ReadFails

-----------------------------------------------------------------------------
(* The sittings: the steps of the rail and of the user *)

\* The hand is put down, and at most a run is on record.
LEMMA Rested ==
  ASSUME SittingInv, NEW d \in Readers, Rests(d), UNCHANGED twice, NEW p, NEW h,
         UNCHANGED parts \/ Put(p, h), DOMAIN h = {"runs"},
         hand[d].step \notin {"landed", "recorded", "noted"}
  PROVE  SittingInv'
<1>1. hand' = [hand EXCEPT ![d] = Idle] BY DEF Rests
<1>2. /\ DOMAIN hand' = Readers /\ hand' = [e \in Readers |-> hand'[e]]
      /\ \A e \in Readers : DOMAIN hand'[e] = HandFields
      /\ \A e \in Readers \ {d} : hand'[e] = hand[e]
      /\ hand'[d].step = "idle"
  BY <1>1, RestsFields, IdleFields DEF SittingInv
<1>3. /\ PartIds' = PartIds /\ parts' \in Seq({parts'[q] : q \in PartIds'})
      /\ \A q \in PartIds : /\ DOMAIN parts'[q] = PartFields
                             /\ parts'[q].paid = parts[q].paid /\ parts'[q].noted = parts[q].noted
                             /\ parts'[q].read = parts[q].read
                             /\ parts'[q].distilled = parts[q].distilled
  <2>1. CASE UNCHANGED parts BY <2>1 DEF SittingInv, SittingTypes, PartIds
  <2>2. CASE Put(p, h)
    <3>1. DOMAIN parts' = PartIds /\ parts' \in Seq({parts'[q] : q \in PartIds'})
      BY <2>2, PutFields DEF SittingInv
    <3>2. \A q \in PartIds \ {p} : parts'[q] = parts[q]
      BY <2>2, PutFields DEF SittingInv
    <3>3. p \in PartIds =>
            /\ parts'[p].paid = parts[p].paid /\ parts'[p].noted = parts[p].noted
            /\ parts'[p].read = parts[p].read /\ parts'[p].distilled = parts[p].distilled
      BY <2>2, PutFields DEF SittingInv
    <3>4. \A q \in PartIds : DOMAIN parts'[q] = PartFields
      BY <2>2, PutFields DEF SittingInv
    <3> QED BY <3>1, <3>2, <3>3, <3>4 DEF PartIds
  <2> QED BY <2>1, <2>2
<1>4. SittingTypes' BY <1>2, <1>3 DEF SittingTypes
<1> QED BY <1>2, <1>3, <1>4, Turning

\* Parts are added, by nobody or by a reader who has nothing in hand.
LEMMA Added ==
  ASSUME SittingInv, UNCHANGED twice, NEW T, NEW new \in Seq(T), parts' = parts \o new,
         \A i \in 1..Len(new) : Blank(new[i]),
         \/ UNCHANGED hand
         \/ \E d \in Readers : \E g :
              /\ Goes(d, g) /\ "step" \in DOMAIN g /\ g.step = "built"
              /\ hand[d].step \notin {"landed", "recorded", "noted"}
  PROVE  SittingInv'
<1>1. /\ parts' \in Seq({parts'[q] : q \in PartIds'})
      /\ PartIds \subseteq PartIds'
      /\ \A q \in PartIds : parts'[q] = parts[q]
      /\ \A q \in PartIds' \ PartIds : Blank(parts'[q])
  BY GrowFields DEF SittingInv
<1>2. /\ \A q \in PartIds' : DOMAIN parts'[q] = PartFields
      /\ \A q \in PartIds' \ PartIds : parts'[q].paid = 0 /\ parts'[q].noted = 0
  BY <1>1 DEF SittingInv, SittingTypes, Blank
<1>3. CASE UNCHANGED hand
  <2>1. SittingTypes' BY <1>1, <1>2, <1>3 DEF SittingInv, SittingTypes
  <2> QED BY <1>1, <1>2, <1>3, <2>1, Standing
<1>4. ASSUME NEW d \in Readers, NEW g, Goes(d, g), "step" \in DOMAIN g, g.step = "built",
             hand[d].step \notin {"landed", "recorded", "noted"}
      PROVE  SittingInv'
  <2>1. /\ DOMAIN hand' = Readers /\ hand' = [e \in Readers |-> hand'[e]]
        /\ \A e \in Readers : DOMAIN hand'[e] = HandFields
        /\ \A e \in Readers \ {d} : hand'[e] = hand[e]
        /\ hand'[d].step = "built"
    BY <1>4, GoesFields DEF SittingInv
  <2>2. SittingTypes' BY <1>1, <1>2, <2>1 DEF SittingTypes
  <2> QED BY <1>1, <1>2, <1>4, <2>1, <2>2, Turning
<1> QED BY <1>3, <1>4

LEMMA OnePart ==
  ASSUME SittingInv, NEW b, Blank(b), parts' = Append(parts, b)
  PROVE  /\ <<b>> \in Seq({b}) /\ parts' = parts \o <<b>>
         /\ \A i \in 1..Len(<<b>>) : Blank(<<b>>[i])
<1>1. parts \in Seq({parts[p] : p \in PartIds} \cup {b})
  BY SeqMonotonic DEF SittingInv, SittingTypes
<1>2. parts' = parts \o <<b>>
  BY <1>1, AppendIsConcat
<1> QED BY <1>2

LEMMA OpensKeeps ==
  ASSUME SittingInv, NEW d \in Readers, NEW p, NEW known, Opens(d, p, known), UNCHANGED <<parts, twice>>,
         hand[d].step \notin {"landed", "recorded", "noted"}
  PROVE  SittingInv'
<1> DEFINE g == [Idle EXCEPT !.step = "debts", !.part = p, !.debts = Debtors(p), !.known = known]
<1>1. Goes(d, g) BY DEF Opens
<1>2. "step" \in DOMAIN g /\ g.step = "debts" BY DEF Idle
<1> HIDE DEF g
<1> QED BY <1>1, <1>2, Wanders

LEMMA ActsKeeps == ASSUME SittingInv, Acts PROVE SittingInv'
<1> DEFINE of == hand["rail"].part
           next == Len(parts) + 1
<1>1. hand["rail"].step = "picked" /\ UNCHANGED twice /\ "rail" \in Readers
  BY DEF Acts, At, Readers
<1>2. CASE Opens("rail", of, hand["rail"].known) /\ UNCHANGED parts
  BY <1>1, <1>2, OpensKeeps
<1>3. ASSUME NEW n, NEW stop, Grows(of, stop), Goes("rail", [step |-> "built", part |-> next])
      PROVE  SittingInv'
  <2> DEFINE b == Grown(of, stop)
             g == [step |-> "built", part |-> next]
  <2>1. Blank(b) BY BuiltFields DEF Grown
  <2>2. parts' = Append(parts, b) BY <1>3 DEF Grows
  <2>3. Goes("rail", g) /\ "step" \in DOMAIN g /\ g.step = "built" BY <1>3
  <2> HIDE DEF b, g
  <2>4. /\ <<b>> \in Seq({b}) /\ parts' = parts \o <<b>>
        /\ \A i \in 1..Len(<<b>>) : Blank(<<b>>[i])
    BY <2>1, <2>2, OnePart
  <2> QED BY <1>1, <2>3, <2>4, Added
<1>4. ASSUME Fractures(of, 2), Goes("rail", [step |-> "built", part |-> next, known |-> FALSE])
      PROVE  SittingInv'
  <2> DEFINE new == Subs(of, 2)
             g == [step |-> "built", part |-> next, known |-> FALSE]
  <2>1. new \in Seq({new[i] : i \in 1..2}) /\ Len(new) = 2
    BY DEF Subs
  <2>2. \A i \in 1..2 : new[i] = Built(Len(parts) + i, 0, of, "saturation") BY DEF Subs
  <2>3. \A i \in 1..2 : Blank(new[i]) BY <2>2, BuiltFields
  <2>4. parts' = parts \o new BY <1>4 DEF Fractures
  <2>5. Goes("rail", g) /\ "step" \in DOMAIN g /\ g.step = "built" BY <1>4
  <2> HIDE DEF new, g
  <2> QED BY <1>1, <2>1, <2>3, <2>4, <2>5, Added
<1>5. \/ Opens("rail", of, hand["rail"].known) /\ UNCHANGED parts
      \/ \E stop : Grows(of, stop) /\ Goes("rail", [step |-> "built", part |-> next])
      \/ Fractures(of, 2) /\ Goes("rail", [step |-> "built", part |-> next, known |-> FALSE])
  BY DEF Acts
<1> QED BY <1>2, <1>3, <1>4, <1>5

LEMMA RailKeeps ==
  ASSUME SittingInv, Picks \/ Acts \/ Reaches \/ ActFails \/ PassEnds \/ Cools
  PROVE  SittingInv'
<1>0. "rail" \in Readers BY DEF Readers
<1>1. CASE Picks
  <2>1. PICK c : Goes("rail", [step |-> "picked", claim |-> c.channel, part |-> c.of,
                               known |-> parts[c.of].region \in arrived])
    BY <1>1 DEF Picks
  <2>2. hand["rail"].step = "idle" /\ UNCHANGED <<parts, twice>> BY <1>1 DEF Picks, At, storeVars
  <2> QED BY <1>0, <2>1, <2>2, Wanders
<1>2. CASE Reaches
  <2>1. /\ hand["rail"].step = "built" /\ UNCHANGED <<parts, twice>>
        /\ Opens("rail", hand["rail"].part, hand["rail"].known)
    BY <1>2 DEF Reaches, At, storeVars
  <2> QED BY <1>0, <2>1, OpensKeeps
<1>3. CASE ActFails
  <2> DEFINE h == [runs |-> parts[hand["rail"].part].runs \cup {"row"}]
  <2>1. /\ hand["rail"].step = "picked" /\ UNCHANGED twice /\ Rests("rail")
        /\ Put(hand["rail"].part, h)
    BY <1>3 DEF ActFails, At
  <2>2. DOMAIN h = {"runs"} OBVIOUS
  <2> HIDE DEF h
  <2> QED BY <1>0, <2>1, <2>2, Rested
<1>4. CASE PassEnds
  <2> DEFINE p == hand["rail"].part
             h == [runs |-> parts[p].runs \cup {"row"}]
  <2>1. /\ hand["rail"].step \in {"over", "failed"} /\ UNCHANGED twice /\ Rests("rail")
        /\ UNCHANGED parts \/ Put(p, h)
    BY <1>4 DEF PassEnds
  <2>2. DOMAIN h = {"runs"} OBVIOUS
  <2> HIDE DEF p, h
  <2> QED BY <1>0, <2>1, <2>2, Rested
<1>5. CASE Cools
  <2>1. UNCHANGED <<parts, hand, twice>> BY <1>5 DEF Cools, storeVars, readerVars
  <2>2. SittingTypes' /\ PartIds' = PartIds BY <2>1 DEF SittingInv, SittingTypes, PartIds
  <2> QED BY <2>1, <2>2, Standing
<1> QED BY <1>1, <1>2, <1>3, <1>4, <1>5, ActsKeeps

LEMMA ForgetsTyped ==
  ASSUME SittingInv, NEW emptied, Forgets(emptied), UNCHANGED <<hand, twice>>
  PROVE  SittingInv'
<1>1. parts' = [p \in PartIds |->
                  IF parts[p].has THEN With(parts[p], Purged(p, emptied)) ELSE parts[p]]
  BY DEF Forgets
<1>2. /\ DOMAIN parts' = PartIds /\ PartIds = 1..Len(parts) /\ Len(parts) \in Nat
      /\ parts' = [q \in PartIds |-> parts'[q]]
  BY <1>1, LenProperties DEF SittingInv, SittingTypes, PartIds
<1>3. \A q \in PartIds :
        /\ DOMAIN parts'[q] = PartFields
        /\ parts'[q].paid = parts[q].paid /\ parts'[q].noted = parts[q].noted
        /\ parts'[q].read = parts[q].read /\ parts'[q].distilled = parts[q].distilled
  <2> TAKE q \in PartIds
  <2>0. DOMAIN parts[q] = PartFields BY DEF SittingInv, SittingTypes
  <2>1. CASE parts[q].has
    <3> DEFINE g == Purged(q, emptied)
    <3>1. parts'[q] = With(parts[q], g) BY <1>1, <2>1
    <3>2. DOMAIN g = {"has", "empty", "cached"} BY DEF Purged
    <3> HIDE DEF g
    <3>3. /\ DOMAIN parts'[q] = PartFields
          /\ \A f \in PartFields : parts'[q][f] = IF f \in DOMAIN g THEN g[f] ELSE parts[q][f]
      BY <2>0, <3>1 DEF With
    <3> QED BY <3>2, <3>3 DEF PartFields
  <2>2. CASE ~parts[q].has
    <3>1. parts'[q] = parts[q] BY <1>1, <2>2
    <3> QED BY <2>0, <3>1
  <2> QED BY <2>1, <2>2
<1>4. parts' \in Seq({parts'[q] : q \in PartIds'})
  <2> DEFINE S == {parts'[q] : q \in PartIds'}
  <2>1. PartIds' = PartIds BY <1>2 DEF PartIds
  <2>2. \A q \in PartIds : parts'[q] \in S BY <2>1
  <2> HIDE DEF S
  <2>3. parts' \in [1..Len(parts) -> S] BY <1>2, <2>2
  <2>4. parts' \in Seq(S) BY <1>2, <2>3, SeqDef
  <2> QED BY <2>4 DEF S
<1>5. PartIds' = PartIds BY <1>2 DEF PartIds
<1>6. SittingTypes' BY <1>3, <1>4, <1>5 DEF SittingInv, SittingTypes
<1> QED BY <1>3, <1>5, <1>6, Standing

LEMMA UserKeeps ==
  ASSUME SittingInv, User \/ ToolEnds PROVE SittingInv'
<1>0. "tool" \in Readers BY DEF Readers
<1>1. CASE Previews
  <2>1. PICK stop : BuildsRoot(stop) BY <1>1 DEF Previews
  <2> DEFINE b == Built(Topic, 0, 0, stop)
  <2>2. Blank(b) BY BuiltFields
  <2>3. parts' = Append(parts, b) /\ UNCHANGED <<hand, twice>>
    BY <1>1, <2>1 DEF BuildsRoot, Previews, readerVars
  <2> HIDE DEF b
  <2>4. /\ <<b>> \in Seq({b}) /\ parts' = parts \o <<b>>
        /\ \A i \in 1..Len(<<b>>) : Blank(<<b>>[i])
    BY <2>2, <2>3, OnePart
  <2> QED BY <2>3, <2>4, Added
<1>2. ASSUME NEW p, ToolReads(p) PROVE SittingInv'
  <2>1. /\ hand["tool"].step = "idle" /\ UNCHANGED <<parts, twice>>
        /\ Opens("tool", p, parts[p].region \in arrived)
    BY <1>2 DEF ToolReads, Asked, At, storeVars
  <2> QED BY <1>0, <2>1, OpensKeeps
<1>3. ASSUME NEW p, ToolNotes(p) PROVE SittingInv'
  <2> DEFINE g == [Idle EXCEPT !.step = "noting", !.part = p, !.now = p]
  <2>1. /\ hand["tool"].step = "idle" /\ UNCHANGED parts /\ ~Distilled(p) /\ Goes("tool", g)
        /\ twice' = twice \cup {<<p, "claims">> : o \in {o \in Others("tool") : Noting(o, p)}}
    BY <1>3 DEF ToolNotes, Asked, At, storeVars
  <2>2. "step" \in DOMAIN g /\ g.step = "noting" /\ "now" \in DOMAIN g /\ g.now = p BY DEF Idle
  <2> HIDE DEF g
  <2> QED BY <1>0, <2>1, <2>2, BeginsNotes
<1>4. ASSUME NEW p, ToolMaps(p) PROVE SittingInv'
  <2> DEFINE g == [Idle EXCEPT !.step = "mapping", !.part = p]
  <2>1. hand["tool"].step = "idle" /\ UNCHANGED <<parts, twice>> /\ Goes("tool", g)
    BY <1>4 DEF ToolMaps, Asked, At, storeVars
  <2>2. "step" \in DOMAIN g /\ g.step = "mapping" BY DEF Idle
  <2> HIDE DEF g
  <2> QED BY <1>0, <2>1, <2>2, Wanders
<1>5. CASE ToolForgets
  BY <1>5, ForgetsTyped DEF ToolForgets
<1>6. CASE ToolEnds
  <2>1. /\ hand["tool"].step \in {"over", "failed"} /\ UNCHANGED <<parts, twice>> /\ Rests("tool")
    BY <1>6 DEF ToolEnds, storeVars
  <2>2. DOMAIN [runs |-> {}] = {"runs"} OBVIOUS
  <2> QED BY <1>0, <2>1, <2>2, Rested
<1> QED BY <1>1, <1>2, <1>3, <1>4, <1>5, <1>6 DEF User

LEMMA ArrivesKeeps ==
  ASSUME SittingInv, UNCHANGED <<parts, hand, twice>> PROVE SittingInv'
<1>1. SittingTypes' /\ PartIds' = PartIds BY DEF SittingInv, SittingTypes, PartIds
<1> QED BY <1>1, Standing

LEMMA SittingInit == Init => SittingInv
<1> SUFFICES ASSUME Init PROVE SittingInv OBVIOUS
<1>1. PartIds = {} /\ parts = <<>> BY DEF Init, PartIds
<1>2. hand = [e \in Readers |-> Idle] /\ \A d \in Readers : hand[d] = Idle BY DEF Init
<1>3. SittingTypes
  <2>1. DOMAIN hand = Readers /\ hand = [d \in Readers |-> hand[d]]
    <3>1. hand = [d \in Readers |-> Idle] BY <1>2
    <3> QED BY <3>1
  <2>3. \A d \in Readers : DOMAIN hand[d] = HandFields
    BY <1>2, IdleFields, Zenon
  <2> DEFINE S == {parts[p] : p \in PartIds}
  <2> HIDE DEF S
  <2>2. parts \in Seq(S) BY <1>1
  <2> QED BY <1>1, <2>1, <2>2, <2>3 DEF SittingTypes, S
<1>4. ASSUME NEW l \in Lenses PROVE LensInv(l)
  BY <1>1, <1>2, IdleFields DEF LensInv, Working, Reading, Noting
<1> QED BY <1>3, <1>4 DEF SittingInv

LEMMA SittingNext == SittingInv /\ [Next]_vars => SittingInv'
<1> SUFFICES ASSUME SittingInv, [Next]_vars PROVE SittingInv' OBVIOUS
<1>1. CASE RailStep BY <1>1, RailKeeps, ReaderKeeps DEF RailStep, Readers
<1>2. CASE ToolStep BY <1>2, UserKeeps, ReaderKeeps DEF ToolStep, Readers
<1>3. CASE Cools \/ ActFails BY <1>3, RailKeeps
<1>4. CASE User BY <1>4, UserKeeps
<1>5. ASSUME NEW d \in Readers, Fails(d) PROVE SittingInv'
  BY <1>5, ReaderKeeps DEF Fails
<1>6. ASSUME NEW r \in Regions, Arrives(r), UNCHANGED readerVars PROVE SittingInv'
  BY <1>6, ArrivesKeeps DEF Arrives, readerVars
<1>7. CASE UNCHANGED vars
  BY <1>7, ArrivesKeeps DEF vars, storeVars, readerVars
<1> QED BY <1>1, <1>2, <1>3, <1>4, <1>5, <1>6, <1>7 DEF Next

\* A part is paid for once per lens, unless two readers had it in hand at once or one died
\* between its commits (read_sitting and read_claims, whoever calls them).
THEOREM PaysOnce == FrontierSpec => []PaidOnce
<1>1. FrontierInit => SittingInv BY SittingInit DEF FrontierInit
<1>2. SittingInv /\ [FrontierNext]_frontierVars => SittingInv'
  <2>1. [FrontierNext]_frontierVars => [Next]_vars BY DEF FrontierNext, frontierVars
  <2> QED BY <2>1, SittingNext
<1>3. SittingInv => PaidOnce
  <2> SUFFICES ASSUME SittingInv, NEW p \in PartIds
               PROVE  /\ parts[p].paid <= 1 \/ <<p, "queries">> \in twice
                      /\ parts[p].noted <= 1 \/ <<p, "claims">> \in twice
    BY DEF PaidOnce
  <2>1. LensInv("queries") /\ LensInv("claims") BY DEF SittingInv, Lenses
  <2> QED BY <2>1 DEF LensInv, Paid
<1> QED BY <1>1, <1>2, <1>3, PTL DEF FrontierSpec

-----------------------------------------------------------------------------
(* The sittings: the notebook *)

LEMMA Least ==
  ASSUME NEW n \in Nat, NEW S, S \subseteq 0..n, S /= {}
  PROVE  \E m \in S : \A k \in S : m <= k
<1> DEFINE R == OpToRel(<, Nat)
<1>1. \A a, b \in Nat : a < b => <<a, b>> \in R BY DEF OpToRel
<1>2. IsWellFoundedOn(R, Nat) BY NatLessThanWellFounded
<1> HIDE DEF R
<1>3. S \subseteq Nat OBVIOUS
<1>4. PICK m \in S : \A k \in S : ~(<<k, m>> \in R) BY <1>2, <1>3, WFMin
<1>5. \A k \in S : ~(k < m) BY <1>1, <1>3, <1>4
<1> QED BY <1>3, <1>5

LEMMA Largest ==
  ASSUME NEW n \in Nat, NEW S, S \subseteq 1..n, S /= {}
  PROVE  \E m \in S : \A k \in S : k <= m
<1> DEFINE T == {n - k : k \in S}
<1>1. T \subseteq 0..n /\ T /= {}
  <2>1. \A k \in S : n - k \in 0..n OBVIOUS
  <2> QED BY <2>1
<1>2. \A k \in S : n - k \in T BY DEF T
<1> HIDE DEF T
<1>3. PICK x \in T : \A y \in T : x <= y BY <1>1, Least
<1>4. PICK m \in S : x = n - m BY DEF T
<1>5. \A k \in S : n - m <= n - k BY <1>2, <1>3, <1>4
<1> QED BY <1>5

\* Nothing more is to be had from the claims of a part.
Settled(a) == parts[a].distilled \/ parts[a].botched \/ parts[a].empty

\* A forget empties parts at most once.
NoneEmptied == ~gone => \A p \in PartIds : ~parts[p].empty

\* A part is built upon what was read (or has nothing to be read), in its own region,
\* and what it holds of its ancestors is what the walk would find.
Lineage ==
  \A p \in PartIds :
    /\ parts[p].continues \in PartIds \cup {0}
    /\ Ancestors(p) = Walk(parts[p].continues)
    /\ \A a \in Ancestors(p) :
         a \in PartIds /\ a < p /\ parts[a].region = parts[p].region /\ Closed(a)

InHand == \A d \in Readers : hand[d].step /= "idle" => hand[d].part \in PartIds

\* The rail builds upon such a part only.
PickedClosed ==
  hand["rail"].step = "picked" /\ hand["rail"].claim \in {"new_mass", "remainder"} =>
    Closed(hand["rail"].part)

\* A reader on its way through the debts of a part: every ancestor is settled, or still
\* to come, or failed in this pass, or at hand.
Ritual(d) ==
  \/ hand[d].step = "debts"
  \/ hand[d].step \in {"noting", "noted"} /\ hand[d].now /= hand[d].part
Owed(d) ==
  /\ hand[d].debts \subseteq Ancestors(hand[d].part)
  /\ hand[d].step /= "debts" => hand[d].now \in Ancestors(hand[d].part)
  /\ \A a \in Ancestors(hand[d].part) :
       \/ Settled(a) \/ a \in hand[d].debts \/ a \in hand[d].unpaid
       \/ hand[d].step /= "debts" /\ a = hand[d].now

InDebt == \A d \in Readers : Ritual(d) => Owed(d)

NotebookInv == NoneEmptied /\ Lineage /\ InHand /\ PickedClosed /\ InDebt

\* What no step takes back.
Kept ==
  /\ PartIds \subseteq PartIds'
  /\ \A p \in PartIds :
       /\ parts'[p].continues = parts[p].continues /\ parts'[p].ancestors = parts[p].ancestors
       /\ parts'[p].region = parts[p].region
       /\ parts[p].read => parts'[p].read
       /\ parts[p].distilled => parts'[p].distilled
       /\ parts[p].botched => parts'[p].botched
       /\ parts[p].empty => parts'[p].empty

LEMMA Numbered ==
  ASSUME SittingTypes PROVE PartIds = 1..Len(parts) /\ Len(parts) \in Nat /\ 0 \notin PartIds
<1>1. PartIds = 1..Len(parts) /\ Len(parts) \in Nat
  BY LenProperties DEF SittingTypes, PartIds
<1> QED BY <1>1

LEMMA LineageKeeps ==
  ASSUME Lineage, Kept, 0 \notin PartIds, 0 \notin PartIds',
         \A p \in PartIds' \ PartIds :
           \/ parts'[p].continues = 0 /\ parts'[p].ancestors = {}
           \/ LET o == parts'[p].continues
              IN  /\ o \in PartIds /\ o < p /\ o \in Int /\ p \in Int /\ PartIds \subseteq Int
                  /\ parts'[p].ancestors = {o} \cup parts[o].ancestors
                  /\ parts'[p].region = parts[o].region /\ Closed(o)
  PROVE  Lineage'
<1>0. \A a \in PartIds : Closed(a) => Closed(a)' BY DEF Kept, Closed
<1>1. ASSUME NEW p \in PartIds, NEW o, o = parts'[p].continues
      PROVE  /\ o \in PartIds' \cup {0}
             /\ Ancestors(p)' = Walk(o)'
             /\ \A a \in Ancestors(p)' :
                  a \in PartIds' /\ a < p /\ parts'[a].region = parts'[p].region /\ Closed(a)'
  <2>1. o \in PartIds \cup {0} /\ Ancestors(p)' = Walk(o)
    BY <1>1 DEF Lineage, Kept, Ancestors
  <2>2. Walk(o)' = Walk(o) BY <1>1, <2>1 DEF Kept, Walk
  <2>3. Ancestors(p)' = Ancestors(p) BY DEF Kept, Ancestors
  <2> QED BY <1>0, <2>1, <2>2, <2>3 DEF Lineage, Kept
<1>2. ASSUME NEW p \in PartIds' \ PartIds, NEW o, o = parts'[p].continues
      PROVE  /\ o \in PartIds' \cup {0}
             /\ Ancestors(p)' = Walk(o)'
             /\ \A a \in Ancestors(p)' :
                  a \in PartIds' /\ a < p /\ parts'[a].region = parts'[p].region /\ Closed(a)'
  <2>1. CASE o = 0 /\ parts'[p].ancestors = {}
    BY <2>1 DEF Ancestors, Walk
  <2>2. CASE /\ o \in PartIds /\ o < p /\ o \in Int /\ p \in Int /\ PartIds \subseteq Int
             /\ parts'[p].ancestors = {o} \cup parts[o].ancestors
             /\ parts'[p].region = parts[o].region /\ Closed(o)
    <3>1. o \in PartIds' /\ parts'[o].ancestors = parts[o].ancestors /\ o /= 0
      BY <2>2 DEF Kept
    <3>2. Ancestors(p)' = {o} \cup parts[o].ancestors /\ Walk(o)' = {o} \cup parts[o].ancestors
      BY <2>2, <3>1 DEF Ancestors, Walk
    <3>3. ASSUME NEW a \in {o} \cup parts[o].ancestors
          PROVE  a \in PartIds /\ a < p /\ parts[a].region = parts[o].region /\ Closed(a)
      <4>1. CASE a = o BY <2>2, <4>1
      <4>2. CASE a \in parts[o].ancestors
        <5>1. a \in PartIds /\ a < o /\ parts[a].region = parts[o].region /\ Closed(a)
          BY <2>2, <4>2 DEF Lineage, Ancestors
        <5> QED BY <2>2, <5>1
      <4> QED BY <3>3, <4>1, <4>2
    <3>4. \A a \in Ancestors(p)' : a \in PartIds' /\ a < p /\ parts'[a].region = parts'[p].region
      BY <2>2, <3>2, <3>3 DEF Kept
    <3>5. \A a \in Ancestors(p)' : Closed(a)' BY <1>0, <3>2, <3>3
    <3> QED BY <3>1, <3>2, <3>4, <3>5
  <2> QED BY <1>2, <2>1, <2>2
<1> QED BY <1>1, <1>2 DEF Lineage

\* A reader who is left alone owes no more than before.
LEMMA OwedKeeps ==
  ASSUME Lineage, InHand, Kept, NEW d \in Readers, hand'[d] = hand[d], Ritual(d) => Owed(d)
  PROVE  Ritual(d)' => Owed(d)'
<1> SUFFICES ASSUME Ritual(d)' PROVE Owed(d)' OBVIOUS
<1>1. Ritual(d) BY DEF Ritual
<1>2. hand[d].part \in PartIds BY <1>1 DEF Ritual, InHand
<1>3. Ancestors(hand[d].part)' = Ancestors(hand[d].part) BY <1>2 DEF Kept, Ancestors
<1>4. \A a \in Ancestors(hand[d].part) : Settled(a) => Settled(a)'
  BY <1>2 DEF Lineage, Kept, Settled
<1> QED BY <1>1, <1>3, <1>4 DEF Owed

\* Parts are marked, and none is built or emptied.
Steady ==
  /\ Kept /\ PartIds' = PartIds /\ gone' = gone
  /\ \A p \in PartIds : parts'[p].empty = parts[p].empty

\* What a reader writes into a part.
Marking(h) ==
  /\ DOMAIN h \cap {"continues", "ancestors", "region", "empty"} = {}
  /\ "read" \in DOMAIN h => h.read = TRUE
  /\ "distilled" \in DOMAIN h => h.distilled = TRUE
  /\ "botched" \in DOMAIN h => h.botched = TRUE

LEMMA PutSteady ==
  ASSUME SittingTypes, gone' = gone, NEW p, NEW h, Put(p, h), Marking(h)
  PROVE  /\ Steady
         /\ p \in PartIds /\ "distilled" \in DOMAIN h => parts'[p].distilled
<1>1. parts' = [parts EXCEPT ![p] = With(parts[p], h)] BY DEF Put
<1>2. PartIds' = PartIds /\ \A q \in PartIds \ {p} : parts'[q] = parts[q]
  BY PutFields DEF PartIds
<1>3. ASSUME p \in PartIds
      PROVE  \A f \in PartFields : parts'[p][f] = IF f \in DOMAIN h THEN h[f] ELSE parts[p][f]
  BY <1>1, <1>3 DEF With, SittingTypes, PartIds
<1>4. ASSUME p \in PartIds
      PROVE  /\ parts'[p].continues = parts[p].continues /\ parts'[p].ancestors = parts[p].ancestors
             /\ parts'[p].region = parts[p].region /\ parts'[p].empty = parts[p].empty
    BY <1>3, <1>4 DEF PartFields, Marking
<1>5. ASSUME p \in PartIds
      PROVE  /\ parts[p].read => parts'[p].read
             /\ parts[p].distilled => parts'[p].distilled
             /\ parts[p].botched => parts'[p].botched
             /\ "distilled" \in DOMAIN h => parts'[p].distilled
    BY <1>3, <1>5 DEF PartFields, Marking
<1>6. ASSUME NEW q \in PartIds
      PROVE  /\ parts'[q].continues = parts[q].continues /\ parts'[q].ancestors = parts[q].ancestors
             /\ parts'[q].region = parts[q].region /\ parts'[q].empty = parts[q].empty
             /\ parts[q].read => parts'[q].read
             /\ parts[q].distilled => parts'[q].distilled
             /\ parts[q].botched => parts'[q].botched
  <2>1. CASE q = p BY <1>4, <1>5, <2>1
  <2>2. CASE q /= p BY <1>2, <2>2
  <2> QED BY <2>1, <2>2
<1> QED BY <1>2, <1>5, <1>6 DEF Steady, Kept

LEMMA SameSteady == ASSUME UNCHANGED <<parts, gone>> PROVE Steady
  BY DEF Steady, Kept, PartIds

LEMMA GoesHand ==
  ASSUME SittingTypes, NEW d \in Readers, NEW g, Goes(d, g)
  PROVE  /\ \A e \in Readers \ {d} : hand'[e] = hand[e]
         /\ hand'[d].step = IF "step" \in DOMAIN g THEN g.step ELSE hand[d].step
         /\ hand'[d].part = IF "part" \in DOMAIN g THEN g.part ELSE hand[d].part
         /\ hand'[d].now = IF "now" \in DOMAIN g THEN g.now ELSE hand[d].now
         /\ hand'[d].debts = IF "debts" \in DOMAIN g THEN g.debts ELSE hand[d].debts
         /\ hand'[d].unpaid = IF "unpaid" \in DOMAIN g THEN g.unpaid ELSE hand[d].unpaid
         /\ hand'[d].claim = IF "claim" \in DOMAIN g THEN g.claim ELSE hand[d].claim
<1>1. hand' = [hand EXCEPT ![d] = With(hand[d], g)] BY DEF Goes
<1>2. hand'[d] = With(hand[d], g) BY <1>1 DEF SittingTypes
<1>3. \A f \in HandFields : hand'[d][f] = IF f \in DOMAIN g THEN g[f] ELSE hand[d][f]
  BY <1>2 DEF With, SittingTypes
<1> QED BY <1>1, <1>3 DEF SittingTypes, HandFields

\* A step of d's that builds no part.
LEMMA HandMoves ==
  ASSUME SittingTypes, NotebookInv, NEW d \in Readers,
         \A e \in Readers \ {d} : hand'[e] = hand[e],
         Steady,
         hand'[d].step /= "idle" => hand'[d].part \in PartIds,
         hand'[d].step = "picked" /\ hand'[d].claim \in {"new_mass", "remainder"} =>
           \E p \in PartIds : p = hand'[d].part /\ Closed(p),
         Ritual(d)' => Owed(d)'
  PROVE  NotebookInv'
<1>1. NoneEmptied' BY DEF NotebookInv, NoneEmptied, Steady
<1>2. Lineage'
  <2>1. 0 \notin PartIds BY Numbered
  <2> QED BY <2>1, LineageKeeps DEF NotebookInv, Steady
<1>3. InHand' BY DEF NotebookInv, InHand, Steady
<1>4. PickedClosed'
  <2>1. \A p \in PartIds : Closed(p) => Closed(p)' BY DEF Kept, Closed, Steady
  <2>2. "rail" \in Readers BY DEF Readers
  <2>3. ASSUME hand'["rail"].step = "picked", hand'["rail"].claim \in {"new_mass", "remainder"}
        PROVE  \E p \in PartIds : p = hand'["rail"].part /\ Closed(p)
    <3>1. CASE d = "rail" BY <2>3, <3>1
    <3>2. CASE d /= "rail" BY <2>2, <2>3, <3>2 DEF NotebookInv, PickedClosed, InHand
    <3> QED BY <3>1, <3>2
  <2> QED BY <2>1, <2>3 DEF PickedClosed, Closed
<1>5. InDebt'
  <2>1. ASSUME NEW e \in Readers PROVE Ritual(e)' => Owed(e)'
    BY OwedKeeps DEF NotebookInv, InDebt, Steady
  <2> QED BY <2>1 DEF InDebt
<1> QED BY <1>1, <1>2, <1>3, <1>4, <1>5 DEF NotebookInv

\* A step of d's that ends at no debt.
LEMMA Elsewhere ==
  ASSUME SittingTypes, NotebookInv, NEW d \in Readers, NEW g, Goes(d, g), Steady,
         "part" \notin DOMAIN g, hand[d].step /= "idle",
         "step" \in DOMAIN g => g.step \notin {"debts", "noting", "noted", "picked"},
         "step" \notin DOMAIN g => hand[d].step \notin {"debts", "noting", "noted", "picked"}
  PROVE  NotebookInv'
<1>1. /\ \A e \in Readers \ {d} : hand'[e] = hand[e]
      /\ hand'[d].step \notin {"debts", "noting", "noted", "picked"}
      /\ hand'[d].part = hand[d].part
  BY GoesHand
<1>2. ~Ritual(d)' BY <1>1 DEF Ritual
<1>3. hand[d].part \in PartIds BY DEF NotebookInv, InHand
<1> QED BY <1>1, <1>2, <1>3, HandMoves

LEMMA RestsWhole ==
  ASSUME SittingTypes, NotebookInv, NEW d \in Readers, Rests(d), Steady
  PROVE  NotebookInv'
<1>1. hand' = [hand EXCEPT ![d] = Idle] BY DEF Rests
<1>2. \A e \in Readers \ {d} : hand'[e] = hand[e] BY <1>1 DEF SittingTypes
<1>3. hand'[d] = Idle BY <1>1 DEF SittingTypes
<1>4. hand'[d].step = "idle" BY <1>3, IdleFields
<1>5. ~Ritual(d)' BY <1>4 DEF Ritual
<1> QED BY <1>2, <1>4, <1>5, HandMoves

\* The debtors are listed: every other ancestor is settled, or was never read and is empty.
LEMMA OpensWhole ==
  ASSUME SittingTypes, NotebookInv, NEW d \in Readers, NEW p \in PartIds, NEW known,
         Opens(d, p, known), UNCHANGED <<parts, gone>>
  PROVE  NotebookInv'
<1> DEFINE g == [Idle EXCEPT !.step = "debts", !.part = p, !.debts = Debtors(p), !.known = known]
<1>1. Goes(d, g) BY DEF Opens
<1>2. /\ {"step", "part", "debts"} \subseteq DOMAIN g
      /\ g.step = "debts" /\ g.part = p /\ g.debts = Debtors(p)
  BY DEF Idle
<1> HIDE DEF g
<1>3. /\ \A e \in Readers \ {d} : hand'[e] = hand[e]
      /\ hand'[d].step = "debts" /\ hand'[d].part = p /\ hand'[d].debts = Debtors(p)
  BY <1>1, <1>2, GoesHand
<1>4. ASSUME NEW a \in Ancestors(p) PROVE Settled(a) \/ a \in Debtors(p)
  <2>1. Closed(a) BY DEF NotebookInv, Lineage
  <2> QED BY <2>1 DEF Closed, Settled, Debtors, CalledAndFailed
<1>5. \A a : Settled(a)' = Settled(a) BY DEF Settled
<1>6. Ancestors(p)' = Ancestors(p) /\ Debtors(p) \subseteq Ancestors(p) BY DEF Ancestors, Debtors
<1>7. Owed(d)' BY <1>3, <1>4, <1>5, <1>6 DEF Owed
<1> QED BY <1>3, <1>7, HandMoves, SameSteady

LEMMA NextDebtWhole ==
  ASSUME SittingTypes, NotebookInv, NEW d \in Readers, NextDebt(d), UNCHANGED gone
  PROVE  NotebookInv'
<1> DEFINE a == CHOOSE a \in hand[d].debts : \A b \in hand[d].debts : a <= b
           rest == hand[d].debts \ {a}
<1>0. PICK p : p = hand[d].part OBVIOUS
<1>1. /\ hand[d].step = "debts" /\ UNCHANGED parts /\ hand[d].debts /= {}
      /\ \/ Distilled(a) /\ Goes(d, [debts |-> rest])
         \/ Goes(d, [step |-> "noting", now |-> a, debts |-> rest])
  BY DEF NextDebt, At, storeVars
<1>2. p \in PartIds /\ Owed(d) BY <1>0, <1>1 DEF NotebookInv, InHand, InDebt, Ritual
<1>3. a \in hand[d].debts
  <2>1. hand[d].debts \subseteq 0..Len(parts) /\ Len(parts) \in Nat
    BY <1>0, <1>2, Numbered DEF Owed, NotebookInv, Lineage
  <2>2. \E m \in hand[d].debts : \A b \in hand[d].debts : m <= b BY <1>1, <2>1, Least
  <2> QED BY <2>2
<1> HIDE DEF a, rest
<1>4. \A b : Settled(b)' = Settled(b) BY <1>1 DEF Settled
<1>5. Ancestors(p)' = Ancestors(p) BY <1>1 DEF Ancestors
<1>6. CASE Distilled(a) /\ Goes(d, [debts |-> rest])
  <2>1. /\ \A e \in Readers \ {d} : hand'[e] = hand[e]
        /\ hand'[d].step = "debts" /\ hand'[d].part = p /\ hand'[d].debts = rest
        /\ hand'[d].unpaid = hand[d].unpaid
    BY <1>0, <1>1, <1>6, GoesHand
  <2>2. Settled(a) BY <1>6 DEF Distilled, Settled
  <2>3. Owed(d)' BY <1>0, <1>1, <1>2, <1>4, <1>5, <2>1, <2>2 DEF Owed, rest
  <2> QED BY <1>1, <1>2, <2>1, <2>3, HandMoves, SameSteady
<1>7. CASE Goes(d, [step |-> "noting", now |-> a, debts |-> rest])
  <2>1. /\ \A e \in Readers \ {d} : hand'[e] = hand[e]
        /\ hand'[d].step = "noting" /\ hand'[d].part = p /\ hand'[d].debts = rest
        /\ hand'[d].unpaid = hand[d].unpaid /\ hand'[d].now = a
    BY <1>0, <1>7, GoesHand
  <2>2. Owed(d)' BY <1>0, <1>1, <1>2, <1>3, <1>4, <1>5, <2>1 DEF Owed, rest
  <2> QED BY <1>1, <1>2, <2>1, <2>2, HandMoves, SameSteady
<1> QED BY <1>1, <1>6, <1>7

\* The claims of a debtor come in, are marked, or fail, and the ritual goes on.
LEMMA ClaimsWhole ==
  ASSUME SittingTypes, NotebookInv, NEW d \in Readers, UNCHANGED gone,
         StoresClaims(d) \/ MarksDistilled(d) \/ \E reached \in BOOLEAN : ClaimsFail(d, reached)
  PROVE  NotebookInv'
<1>0. PICK p, a : p = hand[d].part /\ a = hand[d].now OBVIOUS
<1>1. /\ hand[d].step \in {"noting", "noted"} /\ p \in PartIds
      /\ AfterNotes(d) = IF a = p THEN "over" ELSE "debts"
  BY <1>0 DEF StoresClaims, MarksDistilled, ClaimsFail, At, NotebookInv, InHand, AfterNotes
<1>2. a /= p => Owed(d) BY <1>0, <1>1 DEF NotebookInv, InDebt, Ritual
<1>3. ASSUME Kept, NEW b \in Ancestors(p), Settled(b) PROVE Settled(b)'
  BY <1>0, <1>1, <1>3 DEF NotebookInv, Lineage, Kept, Settled
<1>4. Kept => Ancestors(p)' = Ancestors(p) BY <1>0, <1>1 DEF Kept, Ancestors
<1>5. CASE StoresClaims(d)
  <2> DEFINE h == [noted |-> IF parts[a].noted = 2 THEN 2 ELSE parts[a].noted + 1]
  <2>1. Put(a, h) /\ Goes(d, [step |-> "noted"]) /\ hand[d].step = "noting"
    BY <1>0, <1>5 DEF StoresClaims, At
  <2>2. Marking(h) BY DEF Marking
  <2> HIDE DEF h
  <2>3. Steady BY <1>0, <2>1, <2>2, PutSteady
  <2>4. /\ \A e \in Readers \ {d} : hand'[e] = hand[e]
        /\ hand'[d].step = "noted" /\ hand'[d].part = p /\ hand'[d].now = a
        /\ hand'[d].debts = hand[d].debts /\ hand'[d].unpaid = hand[d].unpaid
    BY <1>0, <2>1, GoesHand
  <2>5. a /= p => Owed(d)' BY <1>0, <1>2, <1>3, <1>4, <2>1, <2>3, <2>4 DEF Owed, Steady
  <2>6. Ritual(d)' => Owed(d)' BY <1>0, <2>4, <2>5 DEF Ritual
  <2> QED BY <1>0, <1>1, <2>3, <2>4, <2>6, HandMoves
<1>6. CASE MarksDistilled(d)
  <2> DEFINE h == [distilled |-> TRUE]
             g == [step |-> AfterNotes(d), now |-> 0]
  <2>1. Put(a, h) /\ Goes(d, g) /\ hand[d].step = "noted" BY <1>0, <1>6 DEF MarksDistilled, At
  <2>2. Marking(h) /\ "distilled" \in DOMAIN h BY DEF Marking
  <2>3. {"step", "now"} = DOMAIN g /\ g.step = AfterNotes(d) OBVIOUS
  <2> HIDE DEF g, h
  <2>4. Steady /\ (a \in PartIds => parts'[a].distilled) BY <1>0, <2>1, <2>2, PutSteady
  <2>5. /\ \A e \in Readers \ {d} : hand'[e] = hand[e]
        /\ hand'[d].step = AfterNotes(d) /\ hand'[d].part = p
        /\ hand'[d].debts = hand[d].debts /\ hand'[d].unpaid = hand[d].unpaid
    BY <1>0, <2>1, <2>3, GoesHand
  <2>6. ASSUME a /= p PROVE Owed(d)'
    <3>1. a \in PartIds BY <1>0, <1>1, <1>2, <2>1, <2>6 DEF Owed, NotebookInv, Lineage
    <3>2. Settled(a)' BY <1>0, <2>4, <3>1 DEF Settled
    <3> QED BY <1>0, <1>1, <1>2, <1>3, <1>4, <2>1, <2>4, <2>5, <2>6, <3>2 DEF Owed, Steady
  <2>7. Ritual(d)' => Owed(d)' BY <1>0, <1>1, <2>5, <2>6 DEF Ritual
  <2> QED BY <1>0, <1>1, <2>4, <2>5, <2>7, HandMoves
<1>7. ASSUME NEW reached \in BOOLEAN, ClaimsFail(d, reached) PROVE NotebookInv'
  <2> DEFINE h == [botched |-> TRUE]
             over == [step |-> "over", now |-> 0]
             on == [step |-> "debts", now |-> 0, unpaid |-> hand[d].unpaid \cup {a}]
  <2>1. /\ hand[d].step = "noting" /\ (Put(a, h) \/ UNCHANGED parts)
        /\ IF a = p THEN Goes(d, over) ELSE Goes(d, on)
    BY <1>0, <1>1, <1>7 DEF ClaimsFail, At
  <2>2. Marking(h) BY DEF Marking
  <2> HIDE DEF h
  <2>3. Steady BY <1>0, <2>1, <2>2, PutSteady, SameSteady
  <2>4. CASE a = p
    BY <1>0, <1>1, <2>1, <2>3, <2>4, Elsewhere
  <2>5. CASE a /= p
    <3>1. /\ \A e \in Readers \ {d} : hand'[e] = hand[e]
          /\ hand'[d].step = "debts" /\ hand'[d].part = p
          /\ hand'[d].debts = hand[d].debts /\ hand'[d].unpaid = hand[d].unpaid \cup {a}
      BY <1>0, <2>1, <2>5, GoesHand
    <3>2. Owed(d)' BY <1>0, <1>2, <1>3, <1>4, <2>3, <2>5, <3>1 DEF Owed, Steady
    <3> QED BY <1>0, <1>1, <2>3, <3>1, <3>2, HandMoves
  <2> QED BY <1>0, <2>4, <2>5
<1> QED BY <1>0, <1>5, <1>6, <1>7

\* The queries of the part itself, and the lenses, owe nothing.
LEMMA QueriesWhole ==
  ASSUME SittingTypes, NotebookInv, NEW d \in Readers, UNCHANGED gone,
         Asks(d) \/ Lands(d) \/ RecordsRun(d) \/ AskFails(d)
  PROVE  NotebookInv'
<1>1. CASE Asks(d)
  <2>1. /\ hand[d].step = "debts" /\ UNCHANGED parts
        /\ \/ Goes(d, [step |-> "over"])
           \/ Goes(d, [step |-> "asking", unpaid |-> {}])
    BY <1>1 DEF Asks, At, storeVars
  <2> QED BY <2>1, SameSteady, Elsewhere
<1>2. CASE Lands(d)
  <2> DEFINE h == [paid |-> IF parts[hand[d].part].paid = 2 THEN 2 ELSE parts[hand[d].part].paid + 1]
  <2>1. Put(hand[d].part, h) /\ Goes(d, [step |-> "landed"]) /\ hand[d].step = "asking"
    BY <1>2 DEF Lands, At
  <2>2. Marking(h) BY DEF Marking
  <2> HIDE DEF h
  <2> QED BY <2>1, <2>2, PutSteady, Elsewhere
<1>3. CASE RecordsRun(d)
  <2> DEFINE h == [runs |-> parts[hand[d].part].runs \cup {"ok"}]
  <2>1. Put(hand[d].part, h) /\ Goes(d, [step |-> "recorded"]) /\ hand[d].step = "landed"
    BY <1>3 DEF RecordsRun, At
  <2>2. Marking(h) BY DEF Marking
  <2> HIDE DEF h
  <2> QED BY <2>1, <2>2, PutSteady, Elsewhere
<1>4. CASE AskFails(d)
  <2> DEFINE h == [runs |-> parts[hand[d].part].runs \cup {"row"}]
  <2>1. Put(hand[d].part, h) /\ Goes(d, [step |-> "failed"]) /\ hand[d].step = "asking"
    BY <1>4 DEF AskFails, At
  <2>2. Marking(h) BY DEF Marking
  <2> HIDE DEF h
  <2> QED BY <2>1, <2>2, PutSteady, Elsewhere
<1> QED BY <1>1, <1>2, <1>3, <1>4

\* The part is marked; its own claims are the last thing, and no debt.
LEMMA MarksWhole ==
  ASSUME SittingTypes, NotebookInv, NEW d \in Readers, UNCHANGED gone, Marks(d)
  PROVE  NotebookInv'
<1> DEFINE h == [read |-> TRUE]
<1>0. PICK p : p = hand[d].part OBVIOUS
<1>1. /\ hand[d].step = "recorded" /\ Put(p, h)
      /\ \/ Goes(d, [step |-> "over"])
         \/ Goes(d, [step |-> "noting", now |-> p])
  BY <1>0 DEF Marks, MarksRead, Notes, At
<1>2. Marking(h) BY DEF Marking
<1> HIDE DEF h
<1>3. Steady /\ p \in PartIds BY <1>0, <1>1, <1>2, PutSteady DEF NotebookInv, InHand
<1>4. CASE Goes(d, [step |-> "over"]) BY <1>1, <1>3, <1>4, Elsewhere
<1>5. CASE Goes(d, [step |-> "noting", now |-> p])
  <2>1. /\ \A e \in Readers \ {d} : hand'[e] = hand[e]
        /\ hand'[d].step = "noting" /\ hand'[d].now = p /\ hand'[d].part = p
    BY <1>0, <1>5, GoesHand
  <2>2. ~Ritual(d)' BY <2>1 DEF Ritual
  <2> QED BY <1>3, <2>1, <2>2, HandMoves
<1> QED BY <1>1, <1>4, <1>5

LEMMA LensWhole ==
  ASSUME SittingTypes, NotebookInv, NEW d \in Readers, UNCHANGED gone,
         Maps(d) \/ StoresOutput(d) \/ MapFails(d)
  PROVE  NotebookInv'
<1>1. CASE Maps(d)
  <2>1. /\ hand[d].step = "mapping" /\ UNCHANGED parts
        /\ \/ Goes(d, [step |-> "over"])
           \/ \E q : Goes(d, [now |-> q, text |-> parts[q].has])
    BY <1>1 DEF Maps, At, storeVars
  <2>2. CASE Goes(d, [step |-> "over"]) BY <2>1, <2>2, SameSteady, Elsewhere
  <2>3. CASE \E q : Goes(d, [now |-> q, text |-> parts[q].has])
    <3>1. PICK q : Goes(d, [now |-> q, text |-> parts[q].has]) BY <2>3
    <3> QED BY <2>1, <3>1, SameSteady, Elsewhere
  <2> QED BY <2>1, <2>2, <2>3
<1>2. CASE StoresOutput(d)
  <2> DEFINE h == [cached |-> IF hand[d].text THEN "with" ELSE "without"]
  <2>1. Put(hand[d].now, h) /\ Goes(d, [now |-> 0, text |-> FALSE]) /\ hand[d].step = "mapping"
    BY <1>2 DEF StoresOutput, At
  <2>2. Marking(h) BY DEF Marking
  <2> HIDE DEF h
  <2> QED BY <2>1, <2>2, PutSteady, Elsewhere
<1>3. CASE MapFails(d)
  <2> DEFINE g == [now |-> 0, text |-> FALSE, unpaid |-> hand[d].unpaid \cup {hand[d].now}]
  <2>1. UNCHANGED parts /\ Goes(d, g) /\ hand[d].step = "mapping"
    BY <1>3 DEF MapFails, At, storeVars
  <2>2. DOMAIN g = {"now", "text", "unpaid"} OBVIOUS
  <2> HIDE DEF g
  <2> QED BY <2>1, <2>2, SameSteady, Elsewhere
<1> QED BY <1>1, <1>2, <1>3

LEMMA ReaderWhole ==
  ASSUME SittingTypes, NotebookInv, NEW d \in Readers, Reads(d) \/ ReadFails(d) \/ Dies(d)
  PROVE  NotebookInv'
<1>1. UNCHANGED gone
  BY DEF Reads, ReadFails, Dies, NextDebt, StoresClaims, MarksDistilled, Asks, Lands, RecordsRun,
         Marks, Maps, StoresOutput, AskFails, ClaimsFail, MapFails, storeVars
<1>2. CASE Dies(d)
  BY <1>2, RestsWhole, SameSteady DEF Dies, storeVars
<1> QED BY <1>1, <1>2, NextDebtWhole, ClaimsWhole, QueriesWhole, MarksWhole, LensWhole
        DEF Reads, ReadFails

\* A new part continues nothing, or what is closed.
Descends(part) ==
  /\ Blank(part) /\ ~part.empty
  /\ \/ part.continues = 0 /\ part.ancestors = {}
     \/ /\ part.continues \in PartIds
        /\ part.ancestors = {part.continues} \cup parts[part.continues].ancestors
        /\ part.region = parts[part.continues].region /\ Closed(part.continues)

\* Whoever built it will read it.
Builder(d, g) ==
  Goes(d, g) /\ {"step", "part"} \subseteq DOMAIN g /\ g.step = "built" /\ g.part = Len(parts) + 1

\* Parts are built, by nobody's hand or by a reader who will read the first of them.
LEMMA BuildsWhole ==
  ASSUME SittingTypes, NotebookInv, UNCHANGED gone, NEW T, NEW new \in Seq(T), Len(new) >= 1,
         parts' = parts \o new,
         \A i \in 1..Len(new) : Descends(new[i]),
         UNCHANGED hand \/ \E d \in Readers : \E g : Builder(d, g)
  PROVE  NotebookInv'
<1>1. /\ PartIds \subseteq PartIds'
      /\ \A q \in PartIds : parts'[q] = parts[q]
      /\ PartIds' = 1..Len(parts) + Len(new)
      /\ \A q \in PartIds' \ PartIds :
           q - Len(parts) \in 1..Len(new) /\ parts'[q] = new[q - Len(parts)]
  BY GrowFields DEF Descends
<1>2. PartIds = 1..Len(parts) /\ Len(parts) \in Nat /\ Len(new) \in Nat
  BY Numbered, LenProperties
<1>3. Kept BY <1>1 DEF Kept
<1>4. ASSUME NEW q \in PartIds' \ PartIds
      PROVE  /\ ~parts'[q].empty
             /\ \/ parts'[q].continues = 0 /\ parts'[q].ancestors = {}
                \/ LET o == parts'[q].continues
                   IN  /\ o \in PartIds /\ o < q /\ o \in Int /\ q \in Int /\ PartIds \subseteq Int
                       /\ parts'[q].ancestors = {o} \cup parts[o].ancestors
                       /\ parts'[q].region = parts[o].region /\ Closed(o)
  <2>1. PICK i \in 1..Len(new) : parts'[q] = new[i] BY <1>1
  <2>2. q \in Int /\ q > Len(parts) /\ PartIds \subseteq Int BY <1>1, <1>2
  <2>3. \A o \in PartIds : o < q /\ o \in Int BY <1>2, <2>2
  <2>4. Descends(new[i]) OBVIOUS
  <2> QED BY <2>1, <2>2, <2>3, <2>4 DEF Descends
<1>5. Lineage'
  <2>1. 0 \notin PartIds /\ 0 \notin PartIds' BY <1>1, <1>2
  <2> QED BY <1>3, <1>4, <2>1, LineageKeeps DEF NotebookInv
<1>6. NoneEmptied' BY <1>1, <1>4 DEF NotebookInv, NoneEmptied
<1>7. CASE UNCHANGED hand
  <2>1. InHand' BY <1>1, <1>7 DEF NotebookInv, InHand
  <2>2. PickedClosed' BY <1>1, <1>7 DEF NotebookInv, PickedClosed, InHand, Closed, Readers
  <2>3. InDebt'
    <3>1. ASSUME NEW e \in Readers PROVE Ritual(e)' => Owed(e)'
      BY <1>3, <1>7, OwedKeeps DEF NotebookInv, InDebt
    <3> QED BY <3>1 DEF InDebt
  <2> QED BY <1>5, <1>6, <2>1, <2>2, <2>3 DEF NotebookInv
<1>8. ASSUME NEW d \in Readers, NEW g, Builder(d, g) PROVE NotebookInv'
  <2>1. /\ \A e \in Readers \ {d} : hand'[e] = hand[e]
        /\ hand'[d].step = "built" /\ hand'[d].part = Len(parts) + 1
    BY <1>8, GoesHand DEF Builder
  <2>2. InHand' BY <1>1, <1>2, <2>1 DEF NotebookInv, InHand
  <2>3. PickedClosed'
    <3>1. "rail" \in Readers BY DEF Readers
    <3>2. hand'["rail"].step = "picked" => hand'["rail"] = hand["rail"] BY <2>1, <3>1
    <3>3. ASSUME hand'["rail"] = hand["rail"], hand["rail"].step = "picked",
                 hand["rail"].claim \in {"new_mass", "remainder"}
          PROVE  Closed(hand["rail"].part)'
      <4>1. PICK p : p = hand["rail"].part OBVIOUS
      <4>2. p \in PartIds /\ Closed(p)
        BY <3>1, <3>3, <4>1 DEF NotebookInv, PickedClosed, InHand
      <4>3. parts'[p] = parts[p] BY <1>1, <4>2
      <4> QED BY <3>3, <4>1, <4>2, <4>3 DEF Closed
    <3> QED BY <3>2, <3>3 DEF PickedClosed
  <2>4. InDebt'
    <3>1. ASSUME NEW e \in Readers PROVE Ritual(e)' => Owed(e)'
      <4>1. CASE e = d
        <5>1. ~Ritual(d)' BY <2>1 DEF Ritual
        <5> QED BY <4>1, <5>1
      <4>2. CASE e /= d BY <1>3, <2>1, <4>2, OwedKeeps DEF NotebookInv, InDebt
      <4> QED BY <4>1, <4>2
    <3> QED BY <3>1 DEF InDebt
  <2> QED BY <1>5, <1>6, <2>2, <2>3, <2>4 DEF NotebookInv
<1> QED BY <1>7, <1>8

LEMMA PicksWhole ==
  ASSUME SittingTypes, NotebookInv, Picks PROVE NotebookInv'
<1>1. PICK c \in Claims : Goes("rail", [step |-> "picked", claim |-> c.channel, part |-> c.of,
                                       known |-> parts[c.of].region \in arrived])
  BY DEF Picks
<1>2. UNCHANGED <<parts, gone>> /\ "rail" \in Readers BY DEF Picks, storeVars, Readers
<1>3. c.of \in PartIds /\ (c.channel \in {"new_mass", "remainder"} => Closed(c.of))
  <2>1. CASE c \in [channel : {"pointed"}, of : Pointed] BY <2>1 DEF Pointed
  <2>2. CASE c \in [channel : {"sub_region"}, of : SubRegion] BY <2>2 DEF SubRegion
  <2>3. CASE c \in [channel : {"remainder"}, of : Remainder] BY <2>3 DEF Remainder, Closed
  <2>4. CASE c \in [channel : {"new_mass"}, of : {Newest(r) : r \in NewMass}]
    <3>1. PICK r \in NewMass : c.of = Newest(r) BY <2>4
    <3>2. RegionParts(r) /= {} /\ RegionParts(r) \subseteq 1..Len(parts) /\ Len(parts) \in Nat
      BY <3>1, Numbered DEF NewMass, RegionParts
    <3>3. c.of \in RegionParts(r)
      <4>1. \E m \in RegionParts(r) : \A k \in RegionParts(r) : k <= m BY <3>2, Largest
      <4> QED BY <3>1, <4>1 DEF Newest
    <3>4. Closed(c.of) BY <3>1, <3>3 DEF NewMass, Pending, Unread, Closed
    <3> QED BY <3>3, <3>4 DEF RegionParts
  <2> QED BY <2>1, <2>2, <2>3, <2>4 DEF Claims
<1>4. /\ \A e \in Readers \ {"rail"} : hand'[e] = hand[e]
      /\ hand'["rail"].step = "picked" /\ hand'["rail"].part = c.of
      /\ hand'["rail"].claim = c.channel
  BY <1>1, <1>2, GoesHand
<1>5. ~Ritual("rail")' BY <1>4 DEF Ritual
<1> QED BY <1>2, <1>3, <1>4, <1>5, SameSteady, HandMoves

LEMMA ActsWhole == ASSUME SittingTypes, NotebookInv, Acts PROVE NotebookInv'
<1> DEFINE next == Len(parts) + 1
<1>0. PICK of : of = hand["rail"].part OBVIOUS
<1>1. /\ hand["rail"].step = "picked" /\ "rail" \in Readers /\ UNCHANGED gone
      /\ of \in PartIds
      /\ hand["rail"].claim \in {"new_mass", "remainder"} => Closed(of)
  BY <1>0 DEF Acts, At, Readers, NotebookInv, InHand, PickedClosed
<1>2. CASE Opens("rail", of, hand["rail"].known) /\ UNCHANGED parts
  BY <1>1, <1>2, OpensWhole
<1>3. ASSUME NEW stop, Closed(of), Grows(of, stop), Goes("rail", [step |-> "built", part |-> next])
      PROVE  NotebookInv'
  <2> DEFINE b == Grown(of, stop)
             g == [step |-> "built", part |-> next]
  <2>1. Blank(b) BY BuiltFields DEF Grown
  <2>2. parts' = Append(parts, b) BY <1>3 DEF Grows
  <2>3. /\ b.continues = of /\ b.ancestors = Walk(of) /\ b.region = parts[of].region
        /\ ~b.empty
    BY DEF Grown, Built
  <2>4. Walk(of) = {of} \cup parts[of].ancestors BY <1>1, Numbered DEF Walk
  <2>5. Goes("rail", g) /\ {"step", "part"} \subseteq DOMAIN g /\ g.step = "built" /\ g.part = next
    BY <1>3
  <2> HIDE DEF b, g, next
  <2>6. <<b>> \in Seq({b}) /\ parts' = parts \o <<b>> /\ Len(<<b>>) = 1 /\ <<b>>[1] = b
    <3>1. parts \in Seq({parts[p] : p \in PartIds} \cup {b})
      BY SeqMonotonic DEF SittingTypes
    <3> QED BY <2>2, <3>1, AppendIsConcat
  <2>7. Builder("rail", g) BY <2>5 DEF next, Builder
  <2> DEFINE new == <<b>>
  <2>8. new \in Seq({b}) /\ parts' = parts \o new /\ Len(new) >= 1 BY <2>6
  <2>9. \A i \in 1..Len(new) : Descends(new[i])
    BY <1>1, <1>3, <2>1, <2>3, <2>4, <2>6 DEF Descends
  <2> HIDE DEF new
  <2> QED BY <1>1, <2>7, <2>8, <2>9, BuildsWhole
<1>4. ASSUME Fractures(of, 2), Goes("rail", [step |-> "built", part |-> next, known |-> FALSE])
      PROVE  NotebookInv'
  <2> DEFINE new == Subs(of, 2)
             g == [step |-> "built", part |-> next, known |-> FALSE]
  <2>1. new \in Seq({new[i] : i \in 1..2}) /\ Len(new) = 2 BY DEF Subs
  <2>2. \A i \in 1..2 : new[i] = Built(Len(parts) + i, 0, of, "saturation") BY DEF Subs
  <2>3. \A i \in 1..2 : Descends(new[i])
    BY <2>2, BuiltFields DEF Built, Walk, Descends
  <2>4. parts' = parts \o new BY <1>4 DEF Fractures
  <2>5. Builder("rail", g) BY <1>4 DEF Builder
  <2> HIDE DEF new, g, next
  <2>6. Len(new) >= 1 /\ \A i \in 1..Len(new) : Descends(new[i]) BY <2>1, <2>3
  <2> QED BY <1>1, <2>1, <2>4, <2>5, <2>6, BuildsWhole
<1>5. \/ Opens("rail", of, hand["rail"].known) /\ UNCHANGED parts
      \/ \E stop : Closed(of) /\ Grows(of, stop) /\ Goes("rail", [step |-> "built", part |-> next])
      \/ Fractures(of, 2) /\ Goes("rail", [step |-> "built", part |-> next, known |-> FALSE])
  BY <1>0, <1>1 DEF Acts
<1> QED BY <1>2, <1>3, <1>4, <1>5

LEMMA RailWhole ==
  ASSUME SittingTypes, NotebookInv, Reaches \/ ActFails \/ PassEnds PROVE NotebookInv'
<1>0. "rail" \in Readers BY DEF Readers
<1>1. CASE Reaches
  <2>1. /\ hand["rail"].part \in PartIds /\ UNCHANGED <<parts, gone>>
        /\ Opens("rail", hand["rail"].part, hand["rail"].known)
    BY <1>0, <1>1 DEF Reaches, At, storeVars, NotebookInv, InHand
  <2> QED BY <1>0, <2>1, OpensWhole
<1> DEFINE h == [runs |-> parts[hand["rail"].part].runs \cup {"row"}]
<1>2. CASE ActFails \/ PassEnds
  <2>1. /\ Put(hand["rail"].part, h) \/ UNCHANGED parts
        /\ Rests("rail") /\ UNCHANGED gone
    BY <1>2 DEF ActFails, PassEnds
  <2>2. Marking(h) BY DEF Marking
  <2> HIDE DEF h
  <2>3. Steady BY <2>1, <2>2, PutSteady, SameSteady
  <2> QED BY <1>0, <2>1, <2>3, RestsWhole
<1> QED BY <1>1, <1>2

\* What a forget changes is not what the notebook is about, and nothing was empty before.
LEMMA ForgetsWhole ==
  ASSUME SittingTypes, NotebookInv, NEW emptied, Forgets(emptied), UNCHANGED hand
  PROVE  NotebookInv'
<1>1. /\ ~gone /\ gone' = TRUE
      /\ parts' = [p \in PartIds |->
                     IF parts[p].has THEN With(parts[p], Purged(p, emptied)) ELSE parts[p]]
  BY DEF Forgets
<1>2. PartIds' = PartIds BY <1>1 DEF PartIds
<1>3. ASSUME NEW q \in PartIds
      PROVE  /\ ~parts[q].empty
             /\ parts'[q].continues = parts[q].continues /\ parts'[q].ancestors = parts[q].ancestors
             /\ parts'[q].region = parts[q].region /\ parts'[q].read = parts[q].read
             /\ parts'[q].distilled = parts[q].distilled /\ parts'[q].botched = parts[q].botched
  <2>0. DOMAIN parts[q] = PartFields /\ ~parts[q].empty
    BY <1>1 DEF SittingTypes, NotebookInv, NoneEmptied
  <2>1. CASE parts[q].has
    <3> DEFINE g == Purged(q, emptied)
    <3>1. parts'[q] = With(parts[q], g) BY <1>1, <2>1
    <3>2. DOMAIN g = {"has", "empty", "cached"} BY DEF Purged
    <3> HIDE DEF g
    <3>3. \A f \in PartFields : parts'[q][f] = IF f \in DOMAIN g THEN g[f] ELSE parts[q][f]
      BY <2>0, <3>1 DEF With
    <3> QED BY <2>0, <3>2, <3>3 DEF PartFields
  <2>2. CASE ~parts[q].has
    <3>1. parts'[q] = parts[q] BY <1>1, <2>2
    <3> QED BY <2>0, <3>1
  <2> QED BY <2>1, <2>2
<1>4. Kept BY <1>2, <1>3 DEF Kept
<1>5. Lineage'
  <2>1. 0 \notin PartIds BY Numbered
  <2> QED BY <1>2, <1>4, <2>1, LineageKeeps DEF NotebookInv
<1>6. NoneEmptied' BY <1>1 DEF NoneEmptied
<1>7. InHand' BY <1>2 DEF NotebookInv, InHand
<1>8. PickedClosed'
  <2>1. "rail" \in Readers BY DEF Readers
  <2>2. ASSUME hand["rail"].step = "picked", hand["rail"].claim \in {"new_mass", "remainder"}
        PROVE  Closed(hand["rail"].part)'
    <3>1. PICK p : p = hand["rail"].part OBVIOUS
    <3>2. p \in PartIds /\ Closed(p) BY <2>1, <2>2, <3>1 DEF NotebookInv, PickedClosed, InHand
    <3>3. parts'[p].read = parts[p].read /\ ~parts[p].empty BY <1>3, <3>2
    <3> QED BY <3>1, <3>2, <3>3 DEF Closed
  <2> QED BY <2>2 DEF PickedClosed
<1>9. InDebt'
  <2>1. ASSUME NEW e \in Readers PROVE Ritual(e)' => Owed(e)'
    BY <1>4, OwedKeeps DEF NotebookInv, InDebt
  <2> QED BY <2>1 DEF InDebt
<1> QED BY <1>5, <1>6, <1>7, <1>8, <1>9 DEF NotebookInv

\* Nobody's part and nobody's hand changes.
LEMMA StillWhole ==
  ASSUME SittingTypes, NotebookInv, UNCHANGED <<parts, hand, gone>> PROVE NotebookInv'
<1>1. Steady BY SameSteady
<1>2. InHand' BY <1>1 DEF NotebookInv, InHand, Steady
<1>3. PickedClosed' BY DEF NotebookInv, PickedClosed, Closed
<1>4. InDebt'
  <2>1. ASSUME NEW e \in Readers PROVE Ritual(e)' => Owed(e)'
    BY <1>1, OwedKeeps DEF NotebookInv, InDebt, Steady
  <2> QED BY <2>1 DEF InDebt
<1>5. NoneEmptied' BY <1>1 DEF NotebookInv, NoneEmptied, Steady
<1>6. Lineage'
  <2>1. 0 \notin PartIds BY Numbered
  <2> QED BY <1>1, <2>1, LineageKeeps DEF NotebookInv, Steady
<1> QED BY <1>2, <1>3, <1>4, <1>5, <1>6 DEF NotebookInv

LEMMA UserWhole ==
  ASSUME SittingTypes, NotebookInv, User \/ ToolEnds PROVE NotebookInv'
<1>0. "tool" \in Readers BY DEF Readers
<1>1. CASE Previews
  <2>1. PICK stop : BuildsRoot(stop) BY <1>1 DEF Previews
  <2> DEFINE b == Built(Topic, 0, 0, stop)
             new == <<b>>
  <2>2. Blank(b) /\ ~b.empty /\ b.continues = 0 /\ b.ancestors = {}
    BY BuiltFields DEF Built, Walk
  <2>3. Descends(b) BY <2>2 DEF Descends
  <2>4. parts' = Append(parts, b) /\ UNCHANGED <<hand, gone>>
    BY <1>1, <2>1 DEF BuildsRoot, Previews, readerVars
  <2> HIDE DEF b
  <2>5. parts \in Seq({parts[p] : p \in PartIds} \cup {b})
    BY SeqMonotonic DEF SittingTypes
  <2>6. new \in Seq({b}) /\ parts' = parts \o new /\ Len(new) >= 1
    BY <2>4, <2>5, AppendIsConcat
  <2>7. \A i \in 1..Len(new) : Descends(new[i]) BY <2>3
  <2> HIDE DEF new
  <2> QED BY <2>4, <2>6, <2>7, BuildsWhole
<1>2. ASSUME NEW p \in PartIds, ToolReads(p) PROVE NotebookInv'
  <2>1. UNCHANGED <<parts, gone>> /\ Opens("tool", p, parts[p].region \in arrived)
    BY <1>2 DEF ToolReads, storeVars
  <2> QED BY <1>0, <2>1, OpensWhole
<1>3. ASSUME NEW p \in PartIds, ToolNotes(p) PROVE NotebookInv'
  <2> DEFINE g == [Idle EXCEPT !.step = "noting", !.part = p, !.now = p]
  <2>1. UNCHANGED <<parts, gone>> /\ Goes("tool", g) BY <1>3 DEF ToolNotes, storeVars
  <2>2. {"step", "part", "now"} \subseteq DOMAIN g /\ g.step = "noting" /\ g.part = p /\ g.now = p
    BY DEF Idle
  <2> HIDE DEF g
  <2>3. /\ \A e \in Readers \ {"tool"} : hand'[e] = hand[e]
        /\ hand'["tool"].step = "noting" /\ hand'["tool"].part = p /\ hand'["tool"].now = p
    BY <1>0, <2>1, <2>2, GoesHand
  <2>4. ~Ritual("tool")' BY <2>3 DEF Ritual
  <2> QED BY <1>0, <2>1, <2>3, <2>4, SameSteady, HandMoves
<1>4. ASSUME NEW p \in PartIds, ToolMaps(p) PROVE NotebookInv'
  <2> DEFINE g == [Idle EXCEPT !.step = "mapping", !.part = p]
  <2>1. UNCHANGED <<parts, gone>> /\ Goes("tool", g) BY <1>4 DEF ToolMaps, storeVars
  <2>2. {"step", "part"} \subseteq DOMAIN g /\ g.step = "mapping" /\ g.part = p BY DEF Idle
  <2> HIDE DEF g
  <2>3. /\ \A e \in Readers \ {"tool"} : hand'[e] = hand[e]
        /\ hand'["tool"].step = "mapping" /\ hand'["tool"].part = p
    BY <1>0, <2>1, <2>2, GoesHand
  <2>4. ~Ritual("tool")' BY <2>3 DEF Ritual
  <2> QED BY <1>0, <2>1, <2>3, <2>4, SameSteady, HandMoves
<1>5. CASE ToolForgets BY <1>5, ForgetsWhole DEF ToolForgets
<1>6. CASE ToolEnds
  <2>1. UNCHANGED <<parts, gone>> /\ Rests("tool") BY <1>6 DEF ToolEnds, storeVars
  <2> QED BY <1>0, <2>1, SameSteady, RestsWhole
<1> QED BY <1>1, <1>2, <1>3, <1>4, <1>5, <1>6 DEF User

LEMMA NotebookInit == Init => NotebookInv
<1> SUFFICES ASSUME Init PROVE NotebookInv OBVIOUS
<1>1. PartIds = {} BY DEF Init, PartIds
<1>2. \A d \in Readers : hand[d] = Idle BY DEF Init
<1>3. \A d \in Readers : hand[d].step = "idle" BY <1>2, IdleFields, Zenon
<1>4. "rail" \in Readers BY DEF Readers
<1> QED BY <1>1, <1>3, <1>4
        DEF NotebookInv, NoneEmptied, Lineage, InHand, PickedClosed, InDebt, Ritual

LEMMA NotebookNext == SittingTypes /\ NotebookInv /\ [Next]_vars => NotebookInv'
<1> SUFFICES ASSUME SittingTypes, NotebookInv, [Next]_vars PROVE NotebookInv' OBVIOUS
<1>0. "rail" \in Readers /\ "tool" \in Readers BY DEF Readers
<1>1. CASE RailStep
  BY <1>0, <1>1, PicksWhole, ActsWhole, RailWhole, ReaderWhole DEF RailStep
<1>2. CASE ToolStep BY <1>0, <1>2, UserWhole, ReaderWhole DEF ToolStep
<1>3. CASE ActFails BY <1>3, RailWhole
<1>4. CASE Cools BY <1>4, StillWhole DEF Cools, storeVars, readerVars
<1>5. CASE User BY <1>5, UserWhole
<1>6. ASSUME NEW d \in Readers, Fails(d) PROVE NotebookInv' BY <1>6, ReaderWhole DEF Fails
<1>7. ASSUME NEW r \in Regions, Arrives(r), UNCHANGED readerVars PROVE NotebookInv'
  BY <1>7, StillWhole DEF Arrives, readerVars
<1>8. CASE UNCHANGED vars BY <1>8, StillWhole DEF vars, storeVars, readerVars
<1> QED BY <1>1, <1>2, <1>3, <1>4, <1>5, <1>6, <1>7, <1>8 DEF Next

LEMMA AsksNothing ==
  ASSUME SittingTypes, NEW d \in Readers, hand[d].step = "debts",
         NEW e \in Readers, NEW g, Goes(e, g), "step" \in DOMAIN g => g.step /= "asking"
  PROVE  hand'[d].step /= "asking"
<1>1. CASE d = e BY <1>1, GoesHand
<1>2. CASE d /= e BY <1>2, GoesHand
<1> QED BY <1>1, <1>2

LEMMA RestsAsksNothing ==
  ASSUME SittingTypes, NEW d \in Readers, hand[d].step = "debts", NEW e \in Readers, Rests(e)
  PROVE  hand'[d].step /= "asking"
<1>1. hand' = [hand EXCEPT ![e] = Idle] BY DEF Rests
<1>2. hand'[d] = IF d = e THEN Idle ELSE hand[d] BY <1>1 DEF SittingTypes
<1> QED BY <1>2, IdleFields

LEMMA OpensAsksNothing ==
  ASSUME SittingTypes, NEW d \in Readers, hand[d].step = "debts",
         NEW e \in Readers, NEW p, NEW known, Opens(e, p, known)
  PROVE  hand'[d].step /= "asking"
<1> DEFINE g == [Idle EXCEPT !.step = "debts", !.part = p, !.debts = Debtors(p), !.known = known]
<1>1. Goes(e, g) BY DEF Opens
<1>2. g.step /= "asking" BY DEF Idle
<1> HIDE DEF g
<1> QED BY <1>1, <1>2, AsksNothing

\* The queries are asked when the debts are dealt with, and not before.
LEMMA AsksLast ==
  ASSUME SittingTypes, NEW d \in Readers, [Next]_vars,
         hand[d].step = "debts", hand'[d].step = "asking"
  PROVE  hand[d].debts = {}
<1>0. "rail" \in Readers /\ "tool" \in Readers BY DEF Readers
<1>1. ASSUME NEW e \in Readers, Reads(e) \/ ReadFails(e) \/ Dies(e) PROVE hand[d].debts = {}
  <2>1. CASE NextDebt(e)
    <3>1. PICK a : \/ Goes(e, [debts |-> hand[e].debts \ {a}])
                   \/ Goes(e, [step |-> "noting", now |-> a, debts |-> hand[e].debts \ {a}])
      BY <2>1 DEF NextDebt
    <3> QED BY <3>1, AsksNothing
  <2>2. CASE StoresClaims(e) \/ Lands(e) \/ RecordsRun(e) \/ AskFails(e)
    BY <2>2, AsksNothing DEF StoresClaims, Lands, RecordsRun, AskFails
  <2>3. CASE MarksDistilled(e) BY <2>3, AsksNothing DEF MarksDistilled, AfterNotes
  <2>4. CASE \E reached \in BOOLEAN : ClaimsFail(e, reached)
    <3>1. \/ Goes(e, [step |-> "over", now |-> 0])
          \/ Goes(e, [step |-> "debts", now |-> 0, unpaid |-> hand[e].unpaid \cup {hand[e].now}])
      BY <2>4 DEF ClaimsFail
    <3> QED BY <3>1, AsksNothing
  <2>5. CASE Asks(e)
    <3>1. CASE e = d BY <2>5, <3>1 DEF Asks
    <3>2. CASE e /= d
      <4>1. Goes(e, [step |-> "over"]) \/ Goes(e, [step |-> "asking", unpaid |-> {}])
        BY <2>5 DEF Asks
      <4> QED BY <3>2, <4>1, GoesHand
    <3> QED BY <3>1, <3>2
  <2>6. CASE Marks(e)
    <3>1. Goes(e, [step |-> "over"]) \/ Goes(e, [step |-> "noting", now |-> hand[e].part])
      BY <2>6 DEF Marks, Notes
    <3> QED BY <3>1, AsksNothing
  <2>7. CASE Maps(e)
    <3>1. PICK q : Goes(e, [step |-> "over"]) \/ Goes(e, [now |-> q, text |-> parts[q].has])
      BY <2>7 DEF Maps
    <3> QED BY <3>1, AsksNothing
  <2>8. CASE StoresOutput(e) BY <2>8, AsksNothing DEF StoresOutput
  <2>9. CASE MapFails(e) BY <2>9, AsksNothing DEF MapFails
  <2>10. CASE Dies(e) BY <2>10, RestsAsksNothing DEF Dies
  <2> QED BY <1>1, <2>1, <2>2, <2>3, <2>4, <2>5, <2>6, <2>7, <2>8, <2>9, <2>10
          DEF Reads, ReadFails
<1>2. CASE Picks
  <2>1. PICK c : Goes("rail", [step |-> "picked", claim |-> c.channel, part |-> c.of,
                               known |-> parts[c.of].region \in arrived])
    BY <1>2 DEF Picks
  <2> QED BY <1>0, <2>1, AsksNothing
<1>3. CASE Acts
  <2>1. \/ Opens("rail", hand["rail"].part, hand["rail"].known)
        \/ Goes("rail", [step |-> "built", part |-> Len(parts) + 1])
        \/ Goes("rail", [step |-> "built", part |-> Len(parts) + 1, known |-> FALSE])
    BY <1>3 DEF Acts
  <2>2. CASE Opens("rail", hand["rail"].part, hand["rail"].known)
    BY <1>0, <2>2, OpensAsksNothing
  <2> QED BY <1>0, <2>1, <2>2, AsksNothing
<1>4. CASE Reaches BY <1>0, <1>4, OpensAsksNothing DEF Reaches
<1>5. CASE PassEnds \/ ActFails BY <1>0, <1>5, RestsAsksNothing DEF PassEnds, ActFails
<1>6. CASE ToolEnds BY <1>0, <1>6, RestsAsksNothing DEF ToolEnds
<1>7. CASE User
  <2>1. CASE Previews BY <2>1 DEF Previews, readerVars
  <2>2. CASE ToolForgets BY <2>2 DEF ToolForgets
  <2>3. ASSUME NEW p, ToolReads(p) PROVE FALSE
    BY <1>0, <2>3, OpensAsksNothing DEF ToolReads
  <2>4. ASSUME NEW p, ToolNotes(p) PROVE FALSE
    <3> DEFINE g == [Idle EXCEPT !.step = "noting", !.part = p, !.now = p]
    <3>1. Goes("tool", g) BY <2>4 DEF ToolNotes
    <3>2. g.step /= "asking" BY DEF Idle
    <3> HIDE DEF g
    <3> QED BY <1>0, <3>1, <3>2, AsksNothing
  <2>5. ASSUME NEW p, ToolMaps(p) PROVE FALSE
    <3> DEFINE g == [Idle EXCEPT !.step = "mapping", !.part = p]
    <3>1. Goes("tool", g) BY <2>5 DEF ToolMaps
    <3>2. g.step /= "asking" BY DEF Idle
    <3> HIDE DEF g
    <3> QED BY <1>0, <3>1, <3>2, AsksNothing
  <2> QED BY <1>7, <2>1, <2>2, <2>3, <2>4, <2>5 DEF User
<1>8. CASE Cools \/ UNCHANGED vars BY <1>8 DEF Cools, vars, readerVars
<1>9. ASSUME NEW r \in Regions, UNCHANGED readerVars PROVE hand[d].debts = {}
  BY <1>9 DEF readerVars
<1> QED BY <1>0, <1>1, <1>2, <1>3, <1>4, <1>5, <1>6, <1>7, <1>8, <1>9
        DEF Next, RailStep, ToolStep, Fails

\* Material arrives for regions there are.
LEMMA ArrivedKeeps ==
  ASSUME arrived \subseteq Regions, [Next]_vars PROVE arrived' \subseteq Regions
<1>1. ASSUME NEW d \in Readers, Reads(d) \/ Fails(d) PROVE arrived' = arrived
  BY <1>1 DEF Reads, Fails, ReadFails, Dies, NextDebt, StoresClaims, MarksDistilled, Asks, Lands,
              RecordsRun, Marks, Maps, StoresOutput, AskFails, ClaimsFail, MapFails, storeVars
<1>2. CASE RailStep \/ ToolStep \/ Cools \/ ActFails
  BY <1>1, <1>2 DEF RailStep, ToolStep, Readers, Picks, Acts, Reaches, PassEnds, ToolEnds, Cools,
                    ActFails, storeVars
<1>3. CASE User
  BY <1>3 DEF User, Previews, ToolReads, ToolNotes, ToolMaps, ToolForgets, Forgets, storeVars
<1>4. ASSUME NEW r \in Regions, Arrives(r) PROVE arrived' \subseteq Regions
  BY <1>4 DEF Arrives
<1>5. CASE UNCHANGED vars BY <1>5 DEF vars, storeVars
<1> QED BY <1>1, <1>2, <1>3, <1>4, <1>5 DEF Next

LEMMA WholeInv == FrontierSpec => [](SittingTypes /\ NotebookInv /\ arrived \subseteq Regions)
<1> DEFINE Inv == SittingInv /\ NotebookInv /\ arrived \subseteq Regions
<1>1. FrontierInit => Inv
  <2>1. Init => arrived \subseteq Regions BY DEF Init
  <2> QED BY <2>1, SittingInit, NotebookInit DEF FrontierInit
<1>2. Inv /\ [FrontierNext]_frontierVars => Inv'
  <2>1. [FrontierNext]_frontierVars => [Next]_vars BY DEF FrontierNext, frontierVars
  <2>2. SittingInv => SittingTypes BY DEF SittingInv
  <2>3. Regions' = Regions BY DEF Regions
  <2> QED BY <2>1, <2>2, <2>3, SittingNext, NotebookNext, ArrivedKeeps
<1>3. Inv => SittingTypes /\ NotebookInv /\ arrived \subseteq Regions BY DEF SittingInv
<1> QED BY <1>1, <1>2, <1>3, PTL DEF FrontierSpec

\* What a part is asked about comes with the claims of everything before it that was read,
\* unless they failed in this pass or are known to be futile (collect_notebook_debt, which
\* both doors of read_part go through).
THEOREM NotebookComesWhole == FrontierSpec => NotebookWhole
<1> DEFINE Whole ==
      \A d \in Readers :
        At(d, "debts") /\ hand'[d].step = "asking" =>
          \A a \in Ancestors(hand[d].part) :
            parts[a].read => parts[a].distilled \/ parts[a].botched \/ parts[a].empty
                             \/ a \in hand[d].unpaid \/ AtWork(a)
<1>1. SittingTypes /\ NotebookInv /\ [FrontierNext]_frontierVars => [Whole]_vars
  <2> SUFFICES ASSUME SittingTypes, NotebookInv, [FrontierNext]_frontierVars PROVE Whole
    OBVIOUS
  <2>1. [Next]_vars BY DEF FrontierNext, frontierVars
  <2>2. SUFFICES ASSUME NEW d \in Readers, At(d, "debts"), hand'[d].step = "asking",
                        NEW a \in Ancestors(hand[d].part)
                 PROVE  Settled(a) \/ a \in hand[d].unpaid
    BY DEF Settled
  <2>3. hand[d].step = "debts" BY <2>2 DEF At
  <2>4. hand[d].debts = {} BY <2>1, <2>2, <2>3, AsksLast
  <2>5. Owed(d) BY <2>3 DEF NotebookInv, InDebt, Ritual
  <2> QED BY <2>2, <2>3, <2>4, <2>5 DEF Owed
<1> HIDE DEF Whole
<1>2. FrontierSpec => [][Whole]_vars
  <2>1. FrontierSpec => [][FrontierNext]_frontierVars BY DEF FrontierSpec
  <2> QED BY <1>1, <2>1, WholeInv, PTL
<1> QED BY <1>2 DEF NotebookWhole, Whole

\* When the queue is empty and nobody is at work, what a region has gained has been read,
\* but for what the three exceptions name (_new_mass_claims and the other channels).
THEOREM GainsAreRead == FrontierSpec => []GainedIsRead
<1>1. SittingTypes /\ NotebookInv /\ arrived \subseteq Regions => GainedIsRead
  <2> SUFFICES ASSUME SittingTypes, NotebookInv, arrived \subseteq Regions, Claims = {}, NEW r \in arrived,
                      NEW q \in RegionParts(r), parts[q].read,
                      \A p \in RegionParts(r) : ~Orphan(p),
                      ~Overlooked(r)
               PROVE  \E p \in RegionParts(r) : parts[p].lot /\ (parts[p].read \/ parts[p].empty)
    BY DEF GainedIsRead
  <2>1. Pointed = {} /\ SubRegion = {} /\ NewMass = {}
    <3>1. \A p \in Pointed : [channel |-> "pointed", of |-> p] \in Claims BY DEF Claims
    <3>2. \A p \in SubRegion : [channel |-> "sub_region", of |-> p] \in Claims BY DEF Claims
    <3>3. \A s \in NewMass : [channel |-> "new_mass", of |-> Newest(s)] \in Claims BY DEF Claims
    <3> QED BY <3>1, <3>2, <3>3
  <2>2. \A p \in RegionParts(r) : p \in PartIds /\ ~Unread(p) /\ Closed(p)
    BY <2>1 DEF Orphan, Unread, Closed, RegionParts
  <2>3. ~Pending(r) BY <2>2 DEF Pending
  <2>4. CASE r \in seen
    <3>1. PICK p \in RegionParts(r) : parts[p].lot /\ parts[p].read BY <2>4 DEF Overlooked
    <3> QED BY <3>1
  <2>5. CASE r \notin seen
    <3>1. ~Gained(r) BY <2>1, <2>3 DEF NewMass
    <3>2. PICK p \in Chain(Newest(r)) : parts[p].lot BY <2>5, <3>1 DEF Gained
    <3>3. Newest(r) \in RegionParts(r)
      <4>1. RegionParts(r) /= {} /\ RegionParts(r) \subseteq 1..Len(parts) /\ Len(parts) \in Nat
        BY Numbered DEF RegionParts
      <4>2. \E m \in RegionParts(r) : \A k \in RegionParts(r) : k <= m BY <4>1, Largest
      <4> QED BY <4>2 DEF Newest
    <3>4. p \in RegionParts(r)
      BY <3>2, <3>3 DEF Chain, RegionParts, NotebookInv, Lineage
    <3> QED BY <2>2, <3>2, <3>4 DEF Closed
  <2> QED BY <2>4, <2>5
<1> QED BY <1>1, WholeInv, PTL

\* What a part holds of its ancestors is what the walk up `continues` would find, whenever
\* it is made, and it stays in the region of the part (ancestors in sitting_store.py,
\* chain_atom_ids in sitting_builder.py).
THEOREM ChainsAreWalked ==
  FrontierSpec => [](\A p \in PartIds :
                       /\ Ancestors(p) = Walk(parts[p].continues)
                       /\ Ancestors(p) \subseteq RegionParts(parts[p].region))
<1>1. NotebookInv => \A p \in PartIds :
                       /\ Ancestors(p) = Walk(parts[p].continues)
                       /\ Ancestors(p) \subseteq RegionParts(parts[p].region)
  BY DEF NotebookInv, Lineage, RegionParts
<1> QED BY <1>1, WholeInv, PTL

-----------------------------------------------------------------------------
(* The watchlist: how far back a pair is asked for *)

Ages == {Never} \cup Nat
Back(age) == IF age = Never THEN 0 ELSE age

PassFields == {"step", "rows", "lag", "requests", "of", "found"}

PassTyped(r) ==
  /\ DOMAIN r = PassFields /\ r.lag \in Nat
  /\ \A p \in DOMAIN r.rows : r.rows[p] \in Ages
  /\ r.step \in {"idle", "starting"} => DOMAIN r.rows = {}

\* What is out and not stored is in the window that pass r is still to ask for, and will
\* be in the next one once r stamps what it asked for, unless the answer left it out.
Covers(r) ==
  item.at = "out" =>
    /\ watch.followed \in DOMAIN r.rows =>
         item.age <= r.lag + Overlap + Back(r.rows[watch.followed])
    /\ /\ r.of = watch.followed /\ r.found /= "omitted"
       /\ r.step = "stored" \/ (r.step = "found" /\ r.found /= "item")
       => item.age <= r.lag + Overlap

\* It is younger than the last pull, but for the overlap; and so is what the source has
\* not indexed, whatever was pulled since.
Recent ==
  item.at = "out" =>
    /\ pulled[watch.followed] /= Never /\ item.age <= pulled[watch.followed] + Overlap
    /\ ~item.indexed => item.age <= Overlap

WatchTypes ==
  /\ watch \in Watches
  /\ pulled \in [Pairs -> Ages]
  /\ item \in [at : {"none", "out", "omitted", "stored"}, age : Nat, indexed : BOOLEAN]
  /\ DOMAIN passes = Executors /\ passes = [d \in Executors |-> passes[d]]

WindowInv == WatchTypes /\ Recent /\ \A d \in Executors : PassTyped(passes[d]) /\ Covers(passes[d])

LEMMA MinPair == ASSUME NEW a \in Int, NEW b \in Int PROVE Min({a, b}) = IF a <= b THEN a ELSE b
  BY DEF Min

LEMMA MaxPair == ASSUME NEW a \in Int, NEW b \in Int PROVE Max({a, b}) = IF a <= b THEN b ELSE a
  BY DEF Max

LEMMA OlderAge ==
  ASSUME NEW age \in Ages
  PROVE  /\ Older(age) \in Ages /\ (Older(age) = Never <=> age = Never)
         /\ age /= Never => Older(age) = IF MaxWindow <= age + 1 THEN MaxWindow ELSE age + 1
<1>1. MaxWindow \in Nat BY WatchPassAssumption
<1>2. CASE age = Never BY <1>2 DEF Older
<1>3. CASE age /= Never
  <2>1. age \in Nat /\ age + 1 \in Int /\ Never = -1 BY <1>3 DEF Ages, Never, None
  <2>2. Older(age) = IF MaxWindow <= age + 1 THEN MaxWindow ELSE age + 1
    BY <1>1, <1>3, <2>1, MinPair DEF Older
  <2> QED BY <1>1, <1>3, <2>1, <2>2 DEF Ages
<1> QED BY <1>2, <1>3

\* The window of a pair reaches past its last pull by the overlap, whatever its floor.
LEMMA WindowReach ==
  ASSUME WatchTypes, NEW age \in Ages
  PROVE  /\ Since(watch.followed, age) \in Nat
         /\ age /= Never => Since(watch.followed, age) >= age + Overlap
<1>1. /\ Overlap \in Nat /\ FirstPull \in Nat
      /\ watch.followed \in watch.queries \X watch.sources
      /\ watch.floor \in [watch.sources -> Nat]
  BY WatchPassAssumption DEF WatchTypes
<1>2. watch.floor[SourceOf(watch.followed)] \in Nat BY <1>1 DEF SourceOf
<1>3. SinceFor(age) \in Nat /\ (age /= Never => SinceFor(age) = age + Overlap)
  BY <1>1 DEF SinceFor, Ages, Never, None
<1> QED BY <1>2, <1>3, MaxPair DEF Since

LEMMA RestingCovers == PassTyped(Resting) /\ Covers(Resting)
<1>1. DOMAIN Resting.rows = {} /\ Resting.lag = 0 /\ Resting.step = "idle" /\ DOMAIN Resting = PassFields
  BY DEF Resting, PassFields
<1> QED BY <1>1 DEF PassTyped, Covers

LEMMA StartingCovers ==
  ASSUME NEW of
  PROVE  LET r == [Resting EXCEPT !.step = "starting", !.of = of] IN PassTyped(r) /\ Covers(r)
<1> DEFINE r == [Resting EXCEPT !.step = "starting", !.of = of]
<1>1. DOMAIN r.rows = {} /\ r.lag = 0 /\ r.step = "starting" /\ DOMAIN r = PassFields
  BY DEF Resting, PassFields
<1> HIDE DEF r
<1>2. PassTyped(r) /\ Covers(r) BY <1>1 DEF PassTyped, Covers
<1> QED BY <1>2 DEF r

\* A pass changes, and nothing that is out there does.
LEMMA PassMoves ==
  ASSUME WindowInv, UNCHANGED <<watch, pulled, item>>, NEW d \in Executors, NEW r,
         passes' = [passes EXCEPT ![d] = r], PassTyped(r), Covers(r)
  PROVE  WindowInv'
<1>1. /\ DOMAIN passes' = Executors /\ passes' = [e \in Executors |-> passes'[e]]
      /\ passes'[d] = r /\ \A e \in Executors \ {d} : passes'[e] = passes[e]
  BY DEF WindowInv, WatchTypes
<1>2. WatchTypes' BY <1>1 DEF WindowInv, WatchTypes, Pairs, Queries
<1>3. Recent' BY DEF WindowInv, Recent
<1>4. ASSUME NEW e \in Executors PROVE (PassTyped(passes[e]) /\ Covers(passes[e]))'
  <2>1. PICK x : x = passes'[e] OBVIOUS
  <2>2. PassTyped(x) /\ Covers(x) BY <1>1, <2>1 DEF WindowInv
  <2>3. Covers(x)' BY <2>2 DEF Covers
  <2> QED BY <2>1, <2>2, <2>3
<1> QED BY <1>2, <1>3, <1>4 DEF WindowInv

LEMMA NoPassMoves ==
  ASSUME WindowInv, UNCHANGED <<watch, pulled, item, passes>> PROVE WindowInv'
  BY DEF WindowInv, WatchTypes, Recent, PassTyped, Covers, Pairs, Queries

LEMMA MovesWith ==
  ASSUME NEW d \in Executors, NEW g, Moves(d, g)
  PROVE  passes' = [passes EXCEPT ![d] = With(passes[d], g)]
  BY DEF Moves, With

\* The fields of a pass after a move of its own.
LEMMA MovedFields ==
  ASSUME WindowInv, NEW d \in Executors, NEW g
  PROVE  LET r == With(passes[d], g)
         IN  /\ DOMAIN r = PassFields
             /\ r.lag = IF "lag" \in DOMAIN g THEN g.lag ELSE passes[d].lag
             /\ r.step = IF "step" \in DOMAIN g THEN g.step ELSE passes[d].step
             /\ r.rows = IF "rows" \in DOMAIN g THEN g.rows ELSE passes[d].rows
             /\ r.of = IF "of" \in DOMAIN g THEN g.of ELSE passes[d].of
             /\ r.found = IF "found" \in DOMAIN g THEN g.found ELSE passes[d].found
  BY DEF With, WindowInv, PassTyped, PassFields

LEMMA WithoutRows ==
  ASSUME WindowInv, NEW d \in Executors, NEW p, NEW rows, rows = Without(d, p)
  PROVE  /\ DOMAIN rows = DOMAIN passes[d].rows \ {p}
         /\ \A o \in DOMAIN rows : rows[o] = passes[d].rows[o] /\ rows[o] \in Ages
  BY DEF Without, Restrict, Left, WindowInv, PassTyped

LEMMA PassKeeps ==
  ASSUME WindowInv, NEW d \in Executors,
         Skips(d) \/ Searches(d) \/ Stores(d) \/ Stamps(d) \/ Ends(d) \/ SearchFails(d) \/ PassDies(d)
  PROVE  WindowInv'
<1>0. PassTyped(passes[d]) /\ Covers(passes[d]) /\ Overlap \in Nat
  BY WatchPassAssumption DEF WindowInv
<1>1. ASSUME NEW p \in Left(d), NEW g, Moves(d, g), "step" \notin DOMAIN g, "lag" \notin DOMAIN g,
             "rows" \in DOMAIN g, g.rows = Without(d, p), "of" \notin DOMAIN g, "found" \notin DOMAIN g,
             UNCHANGED <<watch, pulled, item>>
      PROVE  WindowInv'
  <2>1. PICK r : r = With(passes[d], g) OBVIOUS
  <2>2. /\ DOMAIN r = PassFields /\ r.lag = passes[d].lag /\ r.step = passes[d].step
        /\ r.rows = Without(d, p) /\ r.of = passes[d].of /\ r.found = passes[d].found
    BY <1>1, <2>1, MovedFields
  <2>3. /\ DOMAIN r.rows = DOMAIN passes[d].rows \ {p}
        /\ \A o \in DOMAIN r.rows : r.rows[o] = passes[d].rows[o] /\ r.rows[o] \in Ages
    BY <2>2, WithoutRows
  <2>4. PassTyped(r) BY <1>0, <2>2, <2>3 DEF PassTyped
  <2>5. Covers(r) BY <1>0, <2>2, <2>3 DEF Covers
  <2> QED BY <1>1, <2>1, <2>4, <2>5, PassMoves, MovesWith
<1>2. CASE Skips(d)
  <2>1. PICK p \in Left(d) : Moves(d, [rows |-> Without(d, p)]) BY <1>2 DEF Skips
  <2> DEFINE g == [rows |-> Without(d, p)]
  <2>2. Moves(d, g) /\ DOMAIN g = {"rows"} /\ g.rows = Without(d, p) BY <2>1
  <2> HIDE DEF g
  <2> QED BY <1>1, <1>2, <2>2 DEF Skips
<1>3. CASE SearchFails(d)
  <2>1. PICK p \in Left(d) :
          /\ Moves(d, [rows |-> Without(d, p), requests |-> passes[d].requests + 1])
          /\ pulled' = AfterError(d, p)
    BY <1>3 DEF SearchFails
  <2> DEFINE g == [rows |-> Without(d, p), requests |-> passes[d].requests + 1]
  <2>2. Moves(d, g) /\ DOMAIN g = {"rows", "requests"} /\ g.rows = Without(d, p) BY <2>1
  <2> HIDE DEF g
  <2> QED BY <1>1, <1>3, <2>1, <2>2 DEF SearchFails, AfterError
<1>4. CASE Searches(d)
  <2>0. PICK p \in Left(d) : \E answer \in Answers(d, p) :
          Moves(d, [step |-> "found", of |-> p, rows |-> Without(d, p),
                    requests |-> passes[d].requests + 1, found |-> answer])
    BY <1>4 DEF Searches
  <2>1. PICK answer \in Answers(d, p) :
          Moves(d, [step |-> "found", of |-> p, rows |-> Without(d, p),
                    requests |-> passes[d].requests + 1, found |-> answer])
    BY <2>0
  <2> DEFINE g == [step |-> "found", of |-> p, rows |-> Without(d, p),
                   requests |-> passes[d].requests + 1, found |-> answer]
  <2>2. /\ Moves(d, g) /\ DOMAIN g = {"step", "of", "rows", "requests", "found"}
        /\ g.step = "found" /\ g.of = p /\ g.rows = Without(d, p) /\ g.found = answer
        /\ answer /= "item" /\ answer /= "omitted" => ~Found(d, p)
    BY <2>1 DEF Answers
  <2> HIDE DEF g
  <2>3. PICK r : r = With(passes[d], g) OBVIOUS
  <2>4. /\ DOMAIN r = PassFields /\ r.lag = passes[d].lag /\ r.step = "found" /\ r.of = p
        /\ r.rows = Without(d, p) /\ r.found = answer
    BY <2>2, <2>3, MovedFields
  <2>5. PassTyped(r) BY <1>0, <2>4, WithoutRows DEF PassTyped
  <2>6. ASSUME item.at = "out", watch.followed \in DOMAIN r.rows
        PROVE  item.age <= r.lag + Overlap + Back(r.rows[watch.followed])
    <3>1. /\ DOMAIN r.rows = DOMAIN passes[d].rows \ {p}
          /\ \A o \in DOMAIN r.rows : r.rows[o] = passes[d].rows[o]
      <4>1. r.rows = Without(d, p) BY <2>4
      <4> QED BY <4>1, WithoutRows
    <3> QED BY <1>0, <2>4, <2>6, <3>1 DEF Covers
  <2>7. ASSUME item.at = "out", p = watch.followed, ~Found(d, p)
        PROVE  item.age <= r.lag + Overlap
    <3>1. passes[d].rows[p] \in Ages /\ passes[d].lag \in Nat BY <1>0 DEF PassTyped, Left
    <3>2. item.age <= passes[d].lag + Overlap + Back(passes[d].rows[p]) BY <1>0, <2>7 DEF Covers, Left
    <3>3. item.age \in Nat BY DEF WindowInv, WatchTypes
    <3>4. CASE passes[d].rows[p] = Never BY <2>4, <3>1, <3>2, <3>3, <3>4, <1>0 DEF Back
    <3>5. CASE ~item.indexed
      <4>1. item.age <= Overlap BY <2>7, <3>5 DEF WindowInv, Recent
      <4> QED BY <1>0, <2>4, <3>1, <3>3, <4>1
    <3>6. CASE passes[d].rows[p] /= Never /\ item.indexed
      <4>1. /\ Since(p, passes[d].rows[p]) \in Nat
            /\ Since(p, passes[d].rows[p]) >= passes[d].rows[p] + Overlap
        BY <2>7, <3>1, <3>6, WindowReach DEF WindowInv
      <4>2. ~(item.age <= Since(p, passes[d].rows[p]) + passes[d].lag)
        BY <2>7, <3>6, Zenon DEF Found
      <4> QED BY <1>0, <3>1, <3>2, <3>3, <3>6, <4>1, <4>2 DEF Back, Ages
    <3> QED BY <3>4, <3>5, <3>6
  <2>8. Covers(r) BY <2>2, <2>4, <2>6, <2>7 DEF Covers
  <2> QED BY <1>4, <2>2, <2>3, <2>5, <2>8, PassMoves, MovesWith DEF Searches
<1>5. CASE Stores(d)
  <2> DEFINE g == [step |-> "stored"]
  <2>1. /\ Stands(d, "found") /\ Moves(d, g) /\ UNCHANGED <<watch, pulled>>
        /\ DOMAIN g = {"step"} /\ g.step = "stored"
        /\ item' = IF passes[d].found = "item" THEN [at |-> "stored", age |-> 0, indexed |-> TRUE] ELSE item
    BY <1>5 DEF Stores
  <2> HIDE DEF g
  <2>2. PICK r : r = With(passes[d], g) OBVIOUS
  <2>3. /\ DOMAIN r = PassFields /\ r.lag = passes[d].lag /\ r.step = "stored" /\ r.of = passes[d].of
        /\ r.rows = passes[d].rows /\ r.found = passes[d].found
    BY <2>1, <2>2, MovedFields
  <2>4. PassTyped(r) BY <1>0, <2>3 DEF PassTyped
  <2>5. CASE passes[d].found /= "item"
    <3>1. Covers(r) BY <1>0, <2>1, <2>3, <2>5 DEF Covers, Stands
    <3> QED BY <2>1, <2>2, <2>4, <2>5, <3>1, PassMoves, MovesWith
  <2>6. CASE passes[d].found = "item"
    <3>1. item'.at = "stored" /\ item' \in [at : {"none", "out", "omitted", "stored"}, age : Nat, indexed : BOOLEAN]
      BY <2>1, <2>6
    <3>2. passes' = [passes EXCEPT ![d] = r] BY <2>1, <2>2, MovesWith
    <3>3. DOMAIN passes' = Executors /\ passes' = [e \in Executors |-> passes'[e]]
      BY <3>2 DEF WindowInv, WatchTypes
    <3>4. WatchTypes' BY <2>1, <3>1, <3>3 DEF WindowInv, WatchTypes, Pairs, Queries
    <3>5. \A e \in Executors : PassTyped(passes'[e]) BY <2>4, <3>2 DEF WindowInv, WatchTypes
    <3>6. Recent' /\ \A e \in Executors : Covers(passes[e])' BY <3>1 DEF Recent, Covers
    <3> QED BY <3>4, <3>5, <3>6 DEF WindowInv, PassTyped
  <2> QED BY <2>5, <2>6
<1>6. CASE Stamps(d)
  <2> DEFINE g == [step |-> "next", of |-> NoPair, found |-> "none"]
             left == passes[d].found = "omitted" /\ item.at = "out"
  <2>1. /\ Stands(d, "stored") /\ Moves(d, g) /\ UNCHANGED watch
        /\ item' = IF left THEN [item EXCEPT !.at = "omitted"] ELSE item
        /\ DOMAIN g = {"step", "of", "found"} /\ g.step = "next"
        /\ pulled' = [pulled EXCEPT ![passes[d].of] = passes[d].lag]
    BY <1>6 DEF Stamps
  <2> HIDE DEF g
  <2>2. PICK r : r = With(passes[d], g) OBVIOUS
  <2>3. /\ DOMAIN r = PassFields /\ r.lag = passes[d].lag /\ r.step = "next"
        /\ r.rows = passes[d].rows
    BY <2>1, <2>2, MovedFields
  <2>4. PassTyped(r) /\ Covers(r) BY <1>0, <2>1, <2>3 DEF PassTyped, Covers, Stands
  <2>12. /\ item' \in [at : {"none", "out", "omitted", "stored"}, age : Nat, indexed : BOOLEAN]
         /\ item'.at = "out" => item' = item /\ passes[d].found /= "omitted"
    BY <2>1 DEF WindowInv, WatchTypes
  <2> HIDE DEF left
  <2>5. passes' = [passes EXCEPT ![d] = r] BY <2>1, <2>2, MovesWith
  <2>6. passes[d].lag \in Nat BY <1>0 DEF PassTyped
  <2>7. pulled' \in [Pairs -> Ages] BY <2>1, <2>6 DEF WindowInv, WatchTypes, Ages
  <2>8. /\ DOMAIN passes' = Executors /\ passes' = [e \in Executors |-> passes'[e]]
        /\ passes'[d] = r /\ \A e \in Executors \ {d} : passes'[e] = passes[e]
    BY <2>5 DEF WindowInv, WatchTypes
  <2>9. WatchTypes' BY <2>1, <2>7, <2>8, <2>12 DEF WindowInv, WatchTypes, Pairs, Queries
  <2>10. Recent'
    <3>1. watch.followed \in Pairs BY WatchPassAssumption DEF WindowInv, WatchTypes, Pairs, Queries
    <3>2. CASE passes[d].of = watch.followed
      <4>1. pulled'[watch.followed] = passes[d].lag BY <2>1, <3>1, <3>2 DEF WindowInv, WatchTypes
      <4>2. item'.at = "out" => item.at = "out" /\ item.age <= passes[d].lag + Overlap
        BY <1>0, <2>1, <2>12, <3>2 DEF Covers, Stands
      <4>3. Recent BY DEF WindowInv
      <4>4. pulled'[watch.followed] /= Never BY <2>6, <4>1 DEF Never, None
      <4> QED BY <2>1, <2>12, <4>1, <4>2, <4>3, <4>4 DEF Recent
    <3>3. CASE passes[d].of /= watch.followed
      <4>1. pulled'[watch.followed] = pulled[watch.followed] BY <2>1, <3>1, <3>3 DEF WindowInv, WatchTypes
      <4> QED BY <2>1, <2>12, <4>1 DEF WindowInv, Recent
    <3> QED BY <3>2, <3>3
  <2>11. ASSUME NEW e \in Executors PROVE (PassTyped(passes[e]) /\ Covers(passes[e]))'
    <3>1. PICK x : x = passes'[e] OBVIOUS
    <3>2. PassTyped(x) /\ Covers(x) BY <2>4, <2>8, <3>1 DEF WindowInv
    <3>3. Covers(x)' BY <2>1, <2>12, <3>2 DEF Covers
    <3> QED BY <3>1, <3>2, <3>3
  <2> QED BY <2>9, <2>10, <2>11 DEF WindowInv
<1>7. CASE Ends(d)
  BY <1>7, RestingCovers, PassMoves DEF Ends
<1>8. CASE PassDies(d)
  BY <1>8, RestingCovers, PassMoves DEF PassDies
<1> QED BY <1>2, <1>3, <1>4, <1>5, <1>6, <1>7, <1>8

LEMMA BeginsCovers ==
  ASSUME WindowInv, NEW due \in SUBSET Pairs
  PROVE  LET r == [Resting EXCEPT !.step = "next", !.rows = [p \in due |-> pulled[p]]]
         IN  PassTyped(r) /\ Covers(r)
<1> DEFINE r == [Resting EXCEPT !.step = "next", !.rows = [p \in due |-> pulled[p]]]
<1>1. /\ r.rows = [p \in due |-> pulled[p]] /\ r.lag = 0 /\ r.step = "next" /\ DOMAIN r = PassFields
  BY DEF Resting, PassFields
<1> HIDE DEF r
<1>2. DOMAIN r.rows = due /\ \A p \in due : r.rows[p] = pulled[p] /\ pulled[p] \in Ages
  BY <1>1 DEF WindowInv, WatchTypes
<1>3. PassTyped(r) BY <1>1, <1>2 DEF PassTyped
<1>4. Overlap \in Nat /\ item.age \in Nat BY WatchPassAssumption DEF WindowInv, WatchTypes
<1>5. Covers(r) BY <1>1, <1>2, <1>4 DEF Covers, Back, WindowInv, Recent, Ages
<1> QED BY <1>3, <1>5 DEF r

LEMMA BeginningKeeps == ASSUME WindowInv, RailBegins \/ FirstBegins PROVE WindowInv'
<1>0. "rail" \in Executors /\ "first" \in Executors BY DEF Executors
<1>1. CASE RailBegins
  <2> DEFINE due == {p \in Pairs : QueryOf(p) \in Queries /\ Due(p)}
             r == [Resting EXCEPT !.step = "next", !.rows = [p \in due |-> pulled[p]]]
  <2>1. passes' = [passes EXCEPT !["rail"] = r] /\ UNCHANGED <<watch, pulled, item>>
    BY <1>1 DEF RailBegins, Begins
  <2>2. PassTyped(r) /\ Covers(r) BY BeginsCovers
  <2> HIDE DEF r
  <2> QED BY <1>0, <2>1, <2>2, PassMoves
<1>2. CASE FirstBegins
  <2> DEFINE due == {p \in Pairs : QueryOf(p) = QueryOf(passes["first"].of) /\ Due(p)}
             r == [Resting EXCEPT !.step = "next", !.rows = [p \in due |-> pulled[p]]]
  <2>1. /\ passes' = [passes EXCEPT !["first"] = IF due = {} THEN Resting ELSE r]
        /\ UNCHANGED <<watch, pulled, item>>
    BY <1>2 DEF FirstBegins
  <2>2. PassTyped(r) /\ Covers(r) BY BeginsCovers
  <2> HIDE DEF r, due
  <2>3. CASE due = {} BY <1>0, <2>1, <2>3, RestingCovers, PassMoves
  <2>4. CASE due /= {} BY <1>0, <2>1, <2>2, <2>4, PassMoves
  <2> QED BY <2>3, <2>4
<1> QED BY <1>1, <1>2

LEMMA AddsKeeps == ASSUME WindowInv, NEW q, Adds(q) PROVE WindowInv'
<1> DEFINE r == [Resting EXCEPT !.step = "starting", !.of = <<q, "none">>]
<1>1. /\ UNCHANGED <<watch, pulled, item>>
      /\ UNCHANGED passes \/ passes' = [passes EXCEPT !["first"] = r]
  BY DEF Adds
<1>2. PassTyped(r) /\ Covers(r) BY StartingCovers
<1> HIDE DEF r
<1> QED BY <1>1, <1>2, PassMoves, NoPassMoves DEF Executors

\* What is published or indexed is news to nobody's window.
LEMMA ItemKeeps == ASSUME WindowInv, Publishes \/ Indexes PROVE WindowInv'
<1>1. /\ UNCHANGED <<watch, pulled, passes>>
      /\ item' \in [at : {"none", "out", "omitted", "stored"}, age : Nat, indexed : BOOLEAN]
      /\ item'.at = "out" => /\ pulled[watch.followed] /= Never
                             /\ item'.age = 0 \/ (item.at = "out" /\ item'.age = item.age)
      /\ item.at = "out" => item'.age = item.age \/ item'.age = 0
      /\ item'.at = "out" /\ ~item'.indexed => item'.age = 0
  <2>1. item \in [at : {"none", "out", "omitted", "stored"}, age : Nat, indexed : BOOLEAN]
    BY DEF WindowInv, WatchTypes
  <2>2. CASE Publishes
    <3>1. /\ item' = [at |-> "out", age |-> 0, indexed |-> FALSE] /\ pulled[watch.followed] /= Never
          /\ UNCHANGED <<watch, pulled, passes>>
      BY <2>2 DEF Publishes
    <3>2. item' \in [at : {"none", "out", "omitted", "stored"}, age : Nat, indexed : BOOLEAN] BY <3>1, Zenon
    <3> QED BY <3>1, <3>2
  <2>3. CASE Indexes
    <3>1. /\ item' = [item EXCEPT !.indexed = TRUE] /\ item.at = "out"
          /\ UNCHANGED <<watch, pulled, passes>>
      BY <2>3 DEF Indexes
    <3>2. item' \in [at : {"none", "out", "omitted", "stored"}, age : Nat, indexed : BOOLEAN] BY <2>1, <3>1
    <3>3. item'.age = item.age /\ item'.indexed = TRUE BY <2>1, <3>1
    <3> QED BY <3>1, <3>2, <3>3 DEF WindowInv, Recent
  <2> QED BY <2>2, <2>3
<1>2. Overlap \in Nat /\ watch.followed \in Pairs
  BY WatchPassAssumption DEF WindowInv, WatchTypes, Pairs, Queries
<1>3. WatchTypes' BY <1>1 DEF WindowInv, WatchTypes, Pairs, Queries
<1>4. pulled[watch.followed] \in Ages BY <1>2 DEF WindowInv, WatchTypes
<1>5. Recent' BY <1>1, <1>2, <1>4 DEF WindowInv, Recent, Ages
<1>6. ASSUME NEW e \in Executors PROVE (PassTyped(passes[e]) /\ Covers(passes[e]))'
  <2>1. PICK x : x = passes'[e] OBVIOUS
  <2>2. PassTyped(x) /\ Covers(x) BY <1>1, <2>1 DEF WindowInv
  <2>3. watch.followed \in DOMAIN x.rows => Back(x.rows[watch.followed]) \in Nat
    BY <2>2 DEF PassTyped, Back, Ages
  <2>4. Covers(x)' BY <1>1, <1>2, <2>2, <2>3 DEF Covers, PassTyped
  <2> QED BY <2>1, <2>2, <2>4
<1> QED BY <1>3, <1>5, <1>6 DEF WindowInv

\* A day goes by for all ages at once.
LEMMA TickKeeps == ASSUME WindowInv, Tick PROVE WindowInv'
<1>1. /\ UNCHANGED watch
      /\ pulled' = [p \in Pairs |-> Older(pulled[p])]
      /\ item' = IF item.at \in {"out", "omitted"} THEN [item EXCEPT !.age = Older(@)] ELSE item
      /\ item.at = "out" /\ ~item.indexed => item.age < Overlap
      /\ passes' = [d \in Executors |-> IF Running(d) THEN [passes[d] EXCEPT !.lag = @ + 1] ELSE passes[d]]
  BY DEF Tick
<1>2. Overlap \in Nat /\ MaxWindow \in Nat /\ watch.followed \in Pairs /\ Never = -1
  BY WatchPassAssumption DEF WindowInv, WatchTypes, Pairs, Queries, Never, None
<1>3. pulled' \in [Pairs -> Ages]
  BY <1>1, OlderAge DEF WindowInv, WatchTypes
<1>4. item.age \in Nat /\ item.age \in Ages /\ item.age /= Never
  BY <1>2 DEF WindowInv, WatchTypes, Ages
<1>5. /\ Older(item.age) \in Nat /\ Older(item.age) <= item.age + 1 /\ Older(item.age) <= MaxWindow
      /\ Older(item.age) = IF MaxWindow <= item.age + 1 THEN MaxWindow ELSE item.age + 1
  BY <1>2, <1>4, OlderAge
<1>6. /\ item' \in [at : {"none", "out", "omitted", "stored"}, age : Nat, indexed : BOOLEAN]
      /\ item'.at = item.at /\ item'.indexed = item.indexed
      /\ item.at = "out" => item'.age = Older(item.age)
  BY <1>1, <1>5 DEF WindowInv, WatchTypes
<1>7. WatchTypes'
  <2>1. DOMAIN passes' = Executors /\ passes' = [d \in Executors |-> passes'[d]] BY <1>1
  <2> QED BY <1>1, <1>3, <1>6, <2>1 DEF WindowInv, WatchTypes, Pairs, Queries
<1>8. Recent'
  <2> SUFFICES ASSUME item'.at = "out" PROVE
        /\ pulled'[watch.followed] /= Never /\ item'.age <= pulled'[watch.followed] + Overlap
        /\ ~item'.indexed => item'.age <= Overlap
    BY <1>1 DEF Recent
  <2>1. /\ pulled[watch.followed] /= Never /\ item.age <= pulled[watch.followed] + Overlap
    BY <1>6 DEF WindowInv, Recent
  <2>2. pulled[watch.followed] \in Ages /\ pulled[watch.followed] \in Nat
    BY <1>2, <2>1 DEF WindowInv, WatchTypes, Ages
  <2>3. /\ pulled'[watch.followed] /= Never
        /\ pulled'[watch.followed] = IF MaxWindow <= pulled[watch.followed] + 1 THEN MaxWindow
                                     ELSE pulled[watch.followed] + 1
    BY <1>1, <1>2, <2>1, <2>2, OlderAge
  <2>4. item'.age <= pulled'[watch.followed] + Overlap
    BY <1>2, <1>4, <1>5, <1>6, <2>1, <2>2, <2>3
  <2>5. ~item'.indexed => item'.age <= Overlap BY <1>1, <1>2, <1>4, <1>5, <1>6
  <2> QED BY <2>3, <2>4, <2>5
<1>9. ASSUME NEW e \in Executors PROVE (PassTyped(passes[e]) /\ Covers(passes[e]))'
  <2>1. PICK x : x = passes'[e] OBVIOUS
  <2>2. PICK o : o = passes[e] OBVIOUS
  <2>3. PassTyped(o) /\ Covers(o) BY <2>2 DEF WindowInv
  <2>4. x = IF Running(e) THEN [o EXCEPT !.lag = o.lag + 1] ELSE o BY <1>1, <2>1, <2>2
  <2>5. /\ DOMAIN x = PassFields /\ x.rows = o.rows /\ x.step = o.step /\ x.of = o.of /\ x.found = o.found
        /\ x.lag = IF Running(e) THEN o.lag + 1 ELSE o.lag
    BY <2>3, <2>4 DEF PassTyped, PassFields
  <2>6. PassTyped(x) BY <2>3, <2>5 DEF PassTyped
  <2>7. ~Running(e) => o.step \in {"idle", "starting"} /\ DOMAIN o.rows = {}
    BY <2>2, <2>3 DEF Running, Stands, PassTyped
  <2>8. watch.followed \in DOMAIN x.rows => Back(x.rows[watch.followed]) \in Nat
    BY <2>6 DEF PassTyped, Back, Ages
  <2>9. o.lag \in Nat BY <2>3 DEF PassTyped
  <2>10. Covers(x)' BY <1>1, <1>2, <1>4, <1>5, <1>6, <2>3, <2>5, <2>7, <2>8, <2>9 DEF Covers
  <2> QED BY <2>1, <2>6, <2>10
<1> QED BY <1>7, <1>8, <1>9 DEF WindowInv

LEMMA WindowInit == WatchInit => WindowInv
<1> SUFFICES ASSUME WatchInit PROVE WindowInv OBVIOUS
<1>1. /\ passes = [d \in Executors |-> Resting] /\ item = [at |-> "none", age |-> 0, indexed |-> FALSE]
      /\ pulled = [p \in Pairs |-> Never] /\ watch \in Watches
  BY DEF WatchInit
<1>2. WatchTypes
  <2>1. item \in [at : {"none", "out", "omitted", "stored"}, age : Nat, indexed : BOOLEAN] BY <1>1, Zenon
  <2>2. pulled \in [Pairs -> Ages] BY <1>1 DEF Ages
  <2> QED BY <1>1, <2>1, <2>2 DEF WatchTypes
<1>3. Recent BY <1>1 DEF Recent
<1>4. \A d \in Executors : PassTyped(passes[d]) /\ Covers(passes[d]) BY <1>1, RestingCovers
<1> QED BY <1>2, <1>3, <1>4 DEF WindowInv

LEMMA WindowNext == WindowInv /\ [WatchNext]_watchVars => WindowInv'
<1> SUFFICES ASSUME WindowInv, [WatchNext]_watchVars PROVE WindowInv' OBVIOUS
<1>1. ASSUME NEW q, Adds(q) PROVE WindowInv' BY <1>1, AddsKeeps
<1>2. ASSUME NEW q, Drops(q) \/ BringsBack(q) PROVE WindowInv'
  BY <1>2, NoPassMoves DEF Drops, BringsBack
<1>3. ASSUME NEW g, NEW by, StartsRead(g, by) PROVE WindowInv'
  BY <1>3, NoPassMoves DEF StartsRead, ReadBegins
<1>4. CASE EndsRead \/ LosesRead
  BY <1>4, NoPassMoves DEF EndsRead, LosesRead, Answered, ReadLost
<1>5. CASE RailBegins \/ FirstBegins BY <1>5, BeginningKeeps
<1>6. ASSUME NEW d \in Executors, Passes(d) \/ SearchFails(d) \/ PassDies(d) PROVE WindowInv'
  BY <1>6, PassKeeps DEF Passes
<1>7. CASE Tick BY <1>7, TickKeeps
<1>8. CASE Publishes \/ Indexes BY <1>8, ItemKeeps
<1>9. CASE UNCHANGED watchVars BY <1>9, NoPassMoves DEF watchVars
<1> QED BY <1>1, <1>2, <1>3, <1>4, <1>5, <1>6, <1>7, <1>8, <1>9 DEF WatchNext

\* Failures, deaths, two passes over one pair and a pass that runs past midnight leave no
\* gap between what a pair was asked for and what it will be ("Stamp ONLY on success"); what
\* an answer had within its window and left out is told apart.
THEOREM NoGaps == FrontierSpec => []NothingSkipped
<1>1. FrontierInit => WindowInv BY WindowInit DEF FrontierInit
<1>2. WindowInv /\ [FrontierNext]_frontierVars => WindowInv'
  <2>1. [FrontierNext]_frontierVars => [WatchNext]_watchVars BY DEF FrontierNext, frontierVars
  <2> QED BY <2>1, WindowNext
<1>3. WindowInv => NothingSkipped
  <2> SUFFICES ASSUME WindowInv, item.at = "out"
               PROVE  item.age <= Since(watch.followed, pulled[watch.followed])
    BY DEF NothingSkipped
  <2>1. watch.followed \in Pairs /\ Overlap \in Nat
    BY WatchPassAssumption DEF WindowInv, WatchTypes, Pairs, Queries
  <2>2. pulled[watch.followed] \in Ages /\ item.age \in Nat BY <2>1 DEF WindowInv, WatchTypes
  <2>3. pulled[watch.followed] /= Never /\ item.age <= pulled[watch.followed] + Overlap
    BY DEF WindowInv, Recent
  <2>4. /\ Since(watch.followed, pulled[watch.followed]) \in Nat
        /\ Since(watch.followed, pulled[watch.followed]) >= pulled[watch.followed] + Overlap
    BY <2>2, <2>3, WindowReach DEF WindowInv
  <2> QED BY <2>1, <2>2, <2>3, <2>4 DEF Ages
<1> QED BY <1>1, <1>2, <1>3, PTL DEF FrontierSpec

-----------------------------------------------------------------------------
(* The watchlist: how slowly a query is run *)

\* What the table does to a row.
Voted(r) == /\ DOMAIN r = {"status", "speed", "claims"} /\ DOMAIN r.claims = Generators
            /\ r.speed = Fewest(Votes(r.claims))

SpeedInv == DOMAIN queries = Queries /\ \A q \in Queries : Voted(queries[q])

LEMMA SyncVoted ==
  ASSUME NEW r, DOMAIN r = {"status", "speed", "claims"}, DOMAIN r.claims = Generators
  PROVE  Voted(Sync(r))
<1>1. /\ DOMAIN Sync(r) = {"status", "speed", "claims"} /\ Sync(r).claims = r.claims
      /\ Sync(r).speed = Fewest(Votes(r.claims))
  BY DEF Sync
<1> QED BY <1>1 DEF Voted

LEMMA UpsertedVoted == ASSUME NEW r, Voted(r), NEW g PROVE Voted(Upserted(r, g))
<1> DEFINE x == [r EXCEPT !.status = IF @ = "none" THEN "active" ELSE @, !.claims[g] = 0]
<1>1. DOMAIN x = {"status", "speed", "claims"} /\ DOMAIN x.claims = Generators BY DEF Voted
<1> HIDE DEF x
<1>2. Voted(Sync(x)) BY <1>1, SyncVoted
<1> QED BY <1>2 DEF Upserted, x

LEMMA JudgedVoted == ASSUME NEW r, Voted(r), NEW g, NEW drop PROVE Voted(Judged(r, g, drop))
<1> DEFINE x == [r EXCEPT !.claims[g] = IF drop THEN Min({MaxMisses, @ + 1}) ELSE 0]
<1>1. DOMAIN x = {"status", "speed", "claims"} /\ DOMAIN x.claims = Generators BY DEF Voted
<1> HIDE DEF x
<1>2. Voted(Sync(x)) BY <1>1, SyncVoted
<1> QED BY <1>2 DEF Judged, x

LEMMA StatusVoted == ASSUME NEW r, Voted(r), NEW s PROVE Voted([r EXCEPT !.status = s])
<1> DEFINE x == [r EXCEPT !.status = s]
<1>1. DOMAIN x = {"status", "speed", "claims"} /\ x.claims = r.claims /\ x.speed = r.speed BY DEF Voted
<1> HIDE DEF x
<1>2. Voted(x) BY <1>1 DEF Voted
<1> QED BY <1>2 DEF x

\* Rows change by what the table does to them, or not at all.
LEMMA RowsKeep ==
  ASSUME SpeedInv, UNCHANGED watch, DOMAIN queries' = Queries,
         \A q \in Queries : \/ queries'[q] = queries[q]
                            \/ \E g : queries'[q] = Upserted(queries[q], g)
                            \/ \E g, drop : queries'[q] = Judged(queries[q], g, drop)
                            \/ \E s : queries'[q] = [queries[q] EXCEPT !.status = s]
  PROVE  SpeedInv'
<1>1. ASSUME NEW q \in Queries PROVE Voted(queries'[q])
  <2>1. Voted(queries[q]) BY DEF SpeedInv
  <2> QED BY <2>1, UpsertedVoted, JudgedVoted, StatusVoted
<1>2. Queries' = Queries BY DEF Queries
<1>3. ASSUME NEW q \in Queries PROVE Voted(queries[q])'
  <2>1. PICK r : r = queries'[q] OBVIOUS
  <2>2. Voted(r) BY <1>1, <2>1
  <2>3. Voted(r)' BY <2>2 DEF Voted, Votes, Generators, Voters
  <2> QED BY <2>1, <2>3
<1> QED BY <1>2, <1>3 DEF SpeedInv

LEMMA SpeedInit == WatchInit => SpeedInv
<1> SUFFICES ASSUME WatchInit, NEW q \in Queries PROVE Voted(queries[q])
  BY DEF SpeedInv, WatchInit, Queries
<1>1. queries[q] = NoQuery(watch) BY DEF WatchInit, Queries
<1> DEFINE r == NoQuery(watch)
<1>2. /\ DOMAIN r = {"status", "speed", "claims"} /\ DOMAIN r.claims = Generators
      /\ r.speed = 0 /\ \A g \in Generators : r.claims[g] = None
  BY DEF NoQuery, Generators, Voters
<1> HIDE DEF r
<1>3. Votes(r.claims) = {} BY <1>2 DEF Votes, Generators
<1>4. Voted(r) BY <1>2, <1>3 DEF Voted, Fewest
<1> QED BY <1>1, <1>4 DEF r

LEMMA SpeedNext == SpeedInv /\ [WatchNext]_watchVars => SpeedInv'
<1> SUFFICES ASSUME SpeedInv, [WatchNext]_watchVars PROVE SpeedInv' OBVIOUS
<1>0. DOMAIN queries = Queries BY DEF SpeedInv
<1>1. ASSUME NEW q, Adds(q) PROVE SpeedInv'
  <2>1. queries' = [queries EXCEPT ![q] = Upserted(@, Owner)] /\ UNCHANGED watch
    BY <1>1 DEF Adds, AddUserQuery
  <2> QED BY <1>0, <2>1, RowsKeep
<1>2. ASSUME NEW q, Drops(q) PROVE SpeedInv'
  <2>1. queries' = [queries EXCEPT ![q].status = "retired"] /\ UNCHANGED watch
    BY <1>2 DEF Drops, Retire
  <2> QED BY <1>0, <2>1, RowsKeep
<1>3. ASSUME NEW q, BringsBack(q) PROVE SpeedInv'
  <2>1. queries' = [queries EXCEPT ![q].status = "active"] /\ UNCHANGED watch
    BY <1>3 DEF BringsBack, Unretire
  <2> QED BY <1>0, <2>1, RowsKeep
<1>4. CASE EndsRead
  <2>1. PICK keep, drop, new : Answered(keep, drop, new) BY <1>4 DEF EndsRead
  <2>2. UNCHANGED watch /\ DOMAIN queries' = Queries BY <2>1 DEF Answered
  <2>3. ASSUME NEW q \in Queries
        PROVE  \/ queries'[q] = queries[q]
               \/ \E g : queries'[q] = Upserted(queries[q], g)
               \/ \E g, judged : queries'[q] = Judged(queries[q], g, judged)
    <3>1. \/ queries'[q] = Upserted(queries[q], reader.of)
          \/ queries'[q] = Judged(queries[q], reader.of, q \in drop)
          \/ queries'[q] = queries[q]
      BY <2>1 DEF Answered
    <3> QED BY <3>1
  <2> QED BY <2>2, <2>3, RowsKeep
<1>5. ASSUME UNCHANGED <<watch, queries>> PROVE SpeedInv'
  BY <1>0, <1>5, RowsKeep
<1>6. ASSUME NEW g, NEW by, StartsRead(g, by) PROVE SpeedInv' BY <1>5, <1>6 DEF StartsRead, ReadBegins
<1>7. CASE LosesRead BY <1>5, <1>7 DEF LosesRead, ReadLost
<1>8. CASE RailBegins \/ FirstBegins BY <1>5, <1>8 DEF RailBegins, FirstBegins
<1>9. ASSUME NEW d \in Executors, Passes(d) \/ SearchFails(d) \/ PassDies(d) PROVE SpeedInv'
  BY <1>5, <1>9 DEF Passes, Skips, Searches, Stores, Stamps, Ends, SearchFails, PassDies
<1>10. CASE Tick \/ Publishes \/ Indexes BY <1>5, <1>10 DEF Tick, Publishes, Indexes
<1>11. CASE UNCHANGED watchVars BY <1>5, <1>11 DEF watchVars
<1> QED BY <1>1, <1>2, <1>3, <1>4, <1>6, <1>7, <1>8, <1>9, <1>10, <1>11 DEF WatchNext

\* A query runs at the speed of the region that wants it most, whatever verdicts come from
\* lists that are out of date (frontier_queries._sync_speed).
THEOREM FastestVoterRules == FrontierSpec => []SpeedVoted
<1>1. FrontierInit => SpeedInv BY SpeedInit DEF FrontierInit
<1>2. SpeedInv /\ [FrontierNext]_frontierVars => SpeedInv'
  <2>1. [FrontierNext]_frontierVars => [WatchNext]_watchVars BY DEF FrontierNext, frontierVars
  <2> QED BY <2>1, SpeedNext
<1>3. SpeedInv => SpeedVoted BY DEF SpeedInv, SpeedVoted, Voted
<1> QED BY <1>1, <1>2, <1>3, PTL DEF FrontierSpec
=============================================================================
