------------------------------ MODULE LeaseProofs ------------------------------
(***************************************************************************)
(* That the lease of pipeline/sync_lock.py excludes, for any TTL: of the   *)
(* processes that work under it at most one has been named by its row      *)
(* within the TTL.  What makes it inductive is that such a process is the  *)
(* one the row names now, with the heartbeat it has itself written: the    *)
(* row cannot be taken from it before its age is past the TTL.             *)
(* That the registry claims of a pair only what is stored, or was skipped  *)
(* by a stamp.  And that a subscription which forget has ended leaves no   *)
(* registration, for which the lease is needed again.                      *)
(***************************************************************************)
EXTENDS OracleRefresh, TLAPS

\* Whoever was named within the TTL is named now, and the heartbeat is its own.
ProvenIsNamed ==
  \A p \in Holders :
    Holding(p) /\ proof[p] <= TTL => lock.holder = p /\ lock.age = proof[p]

LeaseInv == LeaseTypeOK /\ ProvenIsNamed

LeaseNext == LeaseTick \/ \E p \in Holders : Acquire(p) \/ Beat(p) \/ Release(p) \/ Abandon(p)

LEMMA LeaseStarts == LeaseInit => LeaseInv
  BY LeaseAssumption DEF LeaseInit, LeaseInv, LeaseTypeOK, ProvenIsNamed, Holding, Epochs, Ages

LEMMA NextEpochType == ASSUME LeaseTypeOK PROVE NextEpoch \in Epochs /\ NextEpoch /= 0
  BY LeaseAssumption DEF LeaseTypeOK, NextEpoch, Epochs

\* Every operation of the lease keeps the invariant.
LEMMA LeaseKeeps == ASSUME LeaseInv, [LeaseNext]_leaseVars PROVE LeaseInv'
<1> USE LeaseAssumption DEF LeaseInv, LeaseTypeOK, ProvenIsNamed, Holding, Ages
<1>1. CASE LeaseTick
  BY <1>1 DEF LeaseTick, Older
<1>2. ASSUME NEW p \in Holders, Acquire(p) PROVE LeaseInv'
  <2>1. \A q \in Holders \ {p} : Holding(q) => proof[q] > TTL
    BY <1>2 DEF Acquire, Free
  <2> QED BY <1>2, <2>1, NextEpochType DEF Acquire
<1>3. ASSUME NEW p \in Holders, Beat(p) PROVE LeaseInv'
  <2>1. CASE Ours(p)
    <3>1. lock' = [lock EXCEPT !.age = 0] /\ proof' = [proof EXCEPT ![p] = 0]
          /\ UNCHANGED <<lost, seat>>
      BY <1>3, <2>1 DEF Beat
    <3>2. lock.holder = p BY <2>1 DEF Ours
    <3>3. LeaseTypeOK' BY <3>1
    <3>4. ASSUME NEW q \in Holders, Holding(q)', proof'[q] <= TTL
          PROVE  lock'.holder = q /\ lock'.age = proof'[q]
      <4>1. CASE q = p BY <3>1, <3>2, <4>1
      <4>2. CASE q /= p BY <3>1, <3>2, <3>4, <4>2
      <4> QED BY <4>1, <4>2
    <3> QED BY <3>3, <3>4
  <2>2. CASE ~Ours(p)
    BY <1>3, <2>2 DEF Beat
  <2> QED BY <2>1, <2>2
<1>4. ASSUME NEW p \in Holders, Release(p) PROVE LeaseInv'
  <2>1. lock' \in {lock, [lock EXCEPT !.holder = Nobody, !.age = 0]}
    BY <1>4 DEF Release
  <2>2. seat' = [seat EXCEPT ![p] = 0] /\ lost' = [lost EXCEPT ![p] = FALSE]
        /\ proof' = [proof EXCEPT ![p] = TTL + 1]
    BY <1>4 DEF Release
  <2>3. LeaseTypeOK'
    <3>1. TTL + 1 \in 0 .. TTL + 1 /\ 0 \in Epochs /\ 0 \in 0 .. TTL + 1 BY DEF Epochs
    <3>2. lock' \in [holder : Holders \cup {Nobody}, age : 0 .. TTL + 1, epoch : Epochs]
      BY <2>1, <3>1
    <3> QED BY <2>2, <3>1, <3>2
  <2>4. ASSUME NEW q \in Holders, Holding(q)', proof'[q] <= TTL
        PROVE  lock'.holder = q /\ lock'.age = proof'[q]
    <3>1. q /= p /\ lock.holder = q /\ lock.age = proof[q] BY <2>2, <2>4
    <3>2. lock' = lock BY <1>4, <3>1 DEF Release, Ours
    <3> QED BY <2>2, <3>1, <3>2
  <2> QED BY <2>3, <2>4
<1>5. ASSUME NEW p \in Holders, Abandon(p) PROVE LeaseInv'
  BY <1>5 DEF Abandon, Epochs
<1>6. CASE UNCHANGED leaseVars
  BY <1>6 DEF leaseVars
<1> QED BY <1>1, <1>2, <1>3, <1>4, <1>5, <1>6 DEF LeaseNext

\* Whatever the passes, the tool and forget do, they do to the lease only what
\* its operations do.
LEMMA PassesUseLease == ASSUME [Next]_vars PROVE [LeaseNext]_leaseVars
<1>1. ASSUME NEW w \in {"rail", "loop"}, PassStep(w) PROVE [LeaseNext]_leaseVars
  <2>1. w \in Holders BY RefreshAssumption
  <2>2. CASE List(w) BY <2>2 DEF List
  <2>3. CASE Pass(w) BY <2>3 DEF Pass, Take
  <2>4. CASE Observed(w) BY <2>4 DEF Observed
  <2>5. CASE Failed(w) BY <2>5 DEF Failed
  <2>6. CASE Interrupted(w) BY <2>6 DEF Interrupted
  <2>7. CASE PassEnds(w) BY <2>1, <2>7 DEF PassEnds, LeaseNext
  <2> QED BY <1>1, <2>2, <2>3, <2>4, <2>5, <2>6, <2>7 DEF PassStep
<1>2. CASE RailBegins BY <1>2, RefreshAssumption DEF RailBegins, LeaseNext
<1>3. CASE RailSeeds BY <1>3 DEF RailSeeds
<1>4. CASE LoopBegins BY <1>4, RefreshAssumption DEF LoopBegins, LeaseNext
<1>5. CASE ToolBegins BY <1>5 DEF ToolBegins
<1>6. CASE ToolStep
  BY <1>6 DEF ToolStep, ToolWalks, ToolWalked, ToolStamps, ToolTurns
<1>7. CASE ClusterMerges BY <1>7 DEF ClusterMerges
<1>8. CASE ForgetBegins BY <1>8, RefreshAssumption DEF ForgetBegins, LeaseNext
<1>9. CASE ForgetCommits BY <1>9, RefreshAssumption DEF ForgetCommits, LeaseNext
<1>10. CASE Tick BY <1>10 DEF Tick
<1>11. CASE Silence BY <1>11 DEF Silence, LeaseNext
<1>12. ASSUME NEW p \in Holders, Beats(p) PROVE [LeaseNext]_leaseVars
  BY <1>12 DEF Beats, LeaseNext
<1>13. ASSUME NEW w \in Workers, Dies(w) PROVE [LeaseNext]_leaseVars
  <2>1. CASE w = "tool" BY <1>13, <2>1 DEF Dies
  <2>2. CASE w /= "tool"
    <3>1. w \in Holders BY <2>2, RefreshAssumption DEF Workers
    <3> QED BY <1>13, <2>2, <3>1 DEF Dies, LeaseNext
  <2> QED BY <2>1, <2>2
<1>14. CASE UNCHANGED vars BY <1>14 DEF vars
<1> QED
  BY <1>1, <1>2, <1>3, <1>4, <1>5, <1>6, <1>7, <1>8, <1>9, <1>10, <1>11, <1>12, <1>13, <1>14
  DEF Next

\* No two processes at work under the lease have both been named by its row
\* within the TTL (acquire, beat and release of sync_lock.py).
THEOREM OneAtWork == Spec => []OneProven
<1>1. Init => LeaseInv BY LeaseStarts DEF Init
<1>2. LeaseInv /\ [Next]_vars => LeaseInv' BY LeaseKeeps, PassesUseLease
<1>3. LeaseInv => OneProven BY DEF LeaseInv, ProvenIsNamed, OneProven
<1> QED BY <1>1, <1>2, <1>3, PTL DEF Spec

-----------------------------------------------------------------------------
(* The registry.  Everything that is claimed of a pair is held or known to be   *)
(* skipped: a pull stamps a pair only with what it saw land or left behind, and *)
(* what it left, and what lies between where it began to look and where the next *)
(* one will, is in Skips.                                                        *)

RowShape(r) ==
  /\ r \in [last : Slots \cup {None}, from : Slots \cup {None}, cursor : {r.cursor}, in : BOOLEAN]
  /\ r.from /= None => r.last /= None

TableShape(table) ==
  /\ table = [h \in Heads |-> [p \in Pairs |-> table[h][p]]]
  /\ \A h \in Heads, p \in Pairs : RowShape(table[h][p])

\* ClaimsHeld of any table, store and skips.
Claims(table, store, skips) ==
  \A h \in Heads, p \in Pairs :
    table[h][p].from /= None =>
      \A t \in Timelines :
        table[h][p].from .. table[h][p].last - OVERLAP - 1 \subseteq store[p][t] \cup skips[p]

TaskShape(t) == t.head \in Heads /\ t.pair \in Pairs /\ RowShape(t.row)
AskShape(a) ==
  a \in [since : {a.since}, upto : Slots, reached : {a.reached}, seen : {a.seen}, left : {a.left}]

Labels == {"off", "seeding", "listing", "passing", "walking", "stamping", "recording"}
Walking(w) == at[w] \in {"walking", "stamping", "recording"}

\* The state of the passes, as far as what they write depends on it.
WorkShape ==
  /\ at \in [Workers -> Labels]
  /\ todo = [w \in Workers |-> todo[w]] /\ \A w \in Workers : \A t \in todo[w] : TaskShape(t)
  /\ task = [w \in Workers |-> task[w]] /\ asked = [w \in Workers |-> asked[w]]
  /\ \A w \in Workers : Walking(w) => TaskShape(task[w]) /\ AskShape(asked[w])

StoreShape ==
  /\ held = [p \in Pairs |-> [t \in Timelines |-> held[p][t]]]
  /\ skipped = [p \in Pairs |-> skipped[p]]

\* What the tool is about to stamp has landed, or is in what its walk left behind.
ToolSaw ==
  at["tool"] \in {"stamping", "recording"} /\ asked["tool"].seen /\ asked["tool"].reached /= None =>
    /\ asked["tool"].reached \in Slots
    /\ \A t \in Timelines :
         asked["tool"].reached .. asked["tool"].upto - 1
           \subseteq held[task["tool"].pair][t] \cup asked["tool"].left

RegistryInv ==
  /\ now \in Slots /\ head \in Heads /\ cast \in Casts
  /\ TableShape(rows) /\ StoreShape /\ WorkShape /\ ToolSaw
  /\ Claims(rows, held, skipped)

LEMMA NoRowShape == RowShape(NoRow) /\ NoRow.from = None /\ ~NoRow.in
  BY DEF RowShape, NoRow

LEMMA PresentPairs == ASSUME cast \in Casts PROVE Present \subseteq Pairs
  BY RefreshAssumption DEF Present

LEMMA RegistryStarts == Init => RegistryInv
<1> SUFFICES ASSUME Init PROVE RegistryInv OBVIOUS
<1>1. now \in Slots /\ head \in Heads /\ cast \in Casts BY RefreshAssumption DEF Init, Heads
<1>2. TableShape(rows) /\ Claims(rows, held, skipped)
  BY NoRowShape DEF Init, TableShape, Claims
<1>3. StoreShape BY DEF Init, StoreShape
<1>4. WorkShape BY DEF Init, WorkShape, Labels, Walking
<1>5. ToolSaw BY DEF Init, ToolSaw, Workers
<1> QED BY <1>1, <1>2, <1>3, <1>4, <1>5 DEF RegistryInv

-----------------------------------------------------------------------------
(* The operations of the registry *)

LEMMA UpsertedShape ==
  ASSUME NEW row, RowShape(row), NEW p PROVE
    /\ RowShape(Upserted(row, p))
    /\ Upserted(row, p).from /= None =>
         Upserted(row, p).from = row.from /\ Upserted(row, p).last = row.last
<1>1. CASE row.in
  <2> DEFINE latest == IF row.cursor = None THEN Latest(p) ELSE row.cursor
             q == [row EXCEPT !.cursor = latest]
  <2>1. Upserted(row, p) = q BY <1>1 DEF Upserted
  <2> HIDE DEF latest
  <2>2. q.last = row.last /\ q.from = row.from /\ q.cursor = latest BY DEF RowShape
  <2>3. q \in [last : Slots \cup {None}, from : Slots \cup {None}, cursor : {latest}, in : BOOLEAN]
    BY DEF RowShape
  <2> HIDE DEF q
  <2> QED BY <2>1, <2>2, <2>3 DEF RowShape
<1>2. CASE ~row.in
  <2>1. Upserted(row, p) = [last |-> None, from |-> None, cursor |-> Latest(p), in |-> TRUE]
    BY <1>2 DEF Upserted
  <2> QED BY <2>1 DEF RowShape
<1> QED BY <1>1, <1>2 DEF RowShape

\* Seeding invents no claim: what a row says afterwards, a row of its pair said before.
LEMMA SeedingInventsNothing ==
  ASSUME TableShape(rows), head \in Heads
  PROVE  /\ TableShape(Seeded)
         /\ \A h \in Heads, p \in Pairs :
              Seeded[h][p].from /= None =>
                \E g \in Heads : /\ Seeded[h][p].from = rows[g][p].from
                                 /\ Seeded[h][p].last = rows[g][p].last
<1> DEFINE T == [rows EXCEPT ![head] =
                   [p \in Pairs |-> IF p \in Present THEN Upserted(rows[head][p], p)
                                    ELSE rows[head][p]]]
<1>1. ASSUME NEW h \in Heads, NEW p \in Pairs
      PROVE  /\ RowShape(T[h][p])
             /\ T[h][p].from /= None => T[h][p].from = rows[h][p].from
                                        /\ T[h][p].last = rows[h][p].last
  <2>1. RowShape(rows[h][p]) BY DEF TableShape
  <2>2. T[h][p] = rows[h][p] \/ T[h][p] = Upserted(rows[h][p], p) BY DEF TableShape
  <2> QED BY <2>1, <2>2, UpsertedShape
<1>2. T = [h \in Heads |-> [p \in Pairs |-> T[h][p]]] BY DEF TableShape
<1>3. Seeded = Adopted(T) BY DEF Seeded
<1> HIDE DEF T
<1>4. CASE head = "old"
  <2>1. Seeded = T BY <1>3, <1>4 DEF Adopted
  <2> QED BY <1>1, <1>2, <2>1 DEF TableShape
<1>5. CASE head /= "old"
  <2>1. Seeded = [h \in Heads |-> [p \in Pairs |->
                    IF h = "old" THEN NoRow
                    ELSE IF T["old"][p].in THEN Merged(T["old"][p], T["new"][p])
                    ELSE T["new"][p]]]
    BY <1>3, <1>5 DEF Adopted
  <2>2. \A h \in Heads, p \in Pairs :
          Seeded[h][p] \in {NoRow, T["old"][p], T["new"][p]}
    BY <2>1 DEF Merged
  <2>3. "old" \in Heads /\ "new" \in Heads BY DEF Heads
  <2>4. \A h \in Heads, p \in Pairs : RowShape(Seeded[h][p])
    BY <1>1, <2>2, <2>3, NoRowShape
  <2>5. Seeded = [h \in Heads |-> [p \in Pairs |-> Seeded[h][p]]] BY <2>1
  <2>6. \A h \in Heads, p \in Pairs :
          Seeded[h][p].from /= None =>
            \E g \in Heads : /\ Seeded[h][p].from = rows[g][p].from
                             /\ Seeded[h][p].last = rows[g][p].last
    BY <1>1, <2>2, <2>3, NoRowShape
  <2> QED BY <2>4, <2>5, <2>6 DEF TableShape
<1> QED BY <1>4, <1>5

LEMMA SeedingKeepsClaims ==
  ASSUME NEW store, NEW skips, TableShape(rows), head \in Heads, Claims(rows, store, skips)
  PROVE  Claims(Seeded, store, skips)
<1> SUFFICES ASSUME NEW h \in Heads, NEW p \in Pairs, Seeded[h][p].from /= None,
                    NEW t \in Timelines
             PROVE  Seeded[h][p].from .. Seeded[h][p].last - OVERLAP - 1
                      \subseteq store[p][t] \cup skips[p]
  BY DEF Claims
<1>1. PICK g \in Heads : /\ Seeded[h][p].from = rows[g][p].from
                         /\ Seeded[h][p].last = rows[g][p].last
  BY SeedingInventsNothing
<1> QED BY <1>1 DEF Claims

\* What Skips leaves out of account for a pull of p that looked up to upto.
SkippedBy(row, upto, stored, left) ==
  LET base == IF row.from = None THEN upto ELSE Least({upto, Floored(row.last - OVERLAP)})
  IN IF row.in
     THEN left \cup {s \in base .. now - OVERLAP - 1 : \E t \in Timelines : s \notin stored[t]}
     ELSE {}

LEMMA LeastOfTwo == ASSUME NEW a \in Int, NEW b \in Int
                    PROVE  Least({a, b}) = (IF a <= b THEN a ELSE b)
<1> DEFINE m == IF a <= b THEN a ELSE b
<1>1. m \in {a, b} /\ \A y \in {a, b} : m <= y OBVIOUS
<1>2. \A x \in {a, b} : (\A y \in {a, b} : x <= y) => x = m OBVIOUS
<1> QED BY <1>1, <1>2 DEF Least

Stamped(row, last, from) == [row EXCEPT !.last = last, !.from = from]

LEMMA StampedShape ==
  ASSUME NEW r, NEW last \in Slots, NEW from \in Slots \cup {None}, RowShape(r)
  PROVE  /\ RowShape(Stamped(r, last, from))
         /\ Stamped(r, last, from).last = last /\ Stamped(r, last, from).from = from
<1>1. Stamped(r, last, from).last = last /\ Stamped(r, last, from).from = from
      /\ Stamped(r, last, from).cursor = r.cursor
  BY DEF Stamped, RowShape
<1>2. Stamped(r, last, from) \in
        [last : Slots \cup {None}, from : Slots \cup {None}, cursor : {r.cursor}, in : BOOLEAN]
  BY DEF Stamped, RowShape
<1>3. last /= None BY RefreshAssumption
<1> QED BY <1>1, <1>2, <1>3 DEF RowShape

\* A pull that is recorded claims what it saw, what was claimed before and what it skipped.
LEMMA RecordingKeepsClaims ==
  ASSUME NEW table, NEW store, NEW skips, TableShape(table), Claims(table, store, skips),
         now \in Slots, NEW h \in Heads, NEW p \in Pairs, NEW reached \in Slots \cup {None},
         NEW upto \in Slots, NEW left, skips = [q \in Pairs |-> skips[q]],
         reached /= None => \A t \in Timelines : reached .. upto - 1 \subseteq store[p][t] \cup left
  PROVE  /\ TableShape(Recorded(table, h, p, reached))
         /\ Claims(Recorded(table, h, p, reached), store,
                   [skips EXCEPT ![p] = @ \cup SkippedBy(table[h][p], upto, store[p], left)])
<1> DEFINE row == table[h][p]
           T == Recorded(table, h, p, reached)
           S == [skips EXCEPT ![p] = @ \cup SkippedBy(row, upto, store[p], left)]
<1>1. RowShape(row) BY DEF TableShape
<1>2. \A q \in Pairs : skips[q] \subseteq S[q] OBVIOUS
<1>3. CASE ~row.in
  <2>1. T = table BY <1>3 DEF Recorded
  <2>2. Claims(table, store, S) BY <1>2 DEF Claims
  <2> QED BY <2>1, <2>2
<1>4. CASE row.in
  <2> DEFINE low == IF reached = None THEN row.from
                    ELSE IF row.from = None THEN reached ELSE Least({row.from, reached})
             new == [row EXCEPT !.last = now, !.from = low]
  <2>1. T = [table EXCEPT ![h][p] = new] BY <1>4 DEF Recorded
  <2>2. low \in Slots \cup {None}
    <3>1. \A a, b \in Slots : Least({a, b}) \in Slots BY LeastOfTwo, RefreshAssumption DEF Slots
    <3>2. row.from \in Slots \cup {None} BY <1>1 DEF RowShape
    <3> QED BY <3>1, <3>2
  <2>3. RowShape(new) /\ new.last = now /\ new.from = low
    <3>1. PICK r : r = row OBVIOUS
    <3>2. PICK f : f = low OBVIOUS
    <3>3. RowShape(r) /\ f \in Slots \cup {None} /\ now \in Slots BY <1>1, <2>2, <3>1, <3>2
    <3>4. RowShape(Stamped(r, now, f)) /\ Stamped(r, now, f).last = now /\ Stamped(r, now, f).from = f
      BY ONLY <3>3, StampedShape, SMTT(30)
    <3>5. new = Stamped(r, now, f) BY <3>1, <3>2 DEF Stamped
    <3> HIDE DEF new, low, row
    <3> QED BY <3>2, <3>4, <3>5
  <2>6. \A t \in Timelines : low /= None => low .. now - OVERLAP - 1 \subseteq store[p][t] \cup S[p]
    <3> SUFFICES ASSUME NEW t \in Timelines, low /= None, NEW s \in low .. now - OVERLAP - 1
                 PROVE  s \in store[p][t] \cup S[p]
      OBVIOUS
    <3> DEFINE base == IF row.from = None THEN upto ELSE Least({upto, Floored(row.last - OVERLAP)})
    <3>0. OVERLAP \in Nat /\ MaxNow \in Nat BY RefreshAssumption
    <3>1. base \in Int /\ base <= upto
      <4>1. upto \in Int BY <3>0 DEF Slots
      <4>2. CASE row.from /= None
        <5>1. row.last \in Int BY <1>1, <3>0, <4>2 DEF RowShape, Slots
        <5>2. PICK f \in Int : f = Floored(row.last - OVERLAP) BY <3>0, <5>1 DEF Floored
        <5>3. base = Least({upto, f}) BY <4>2, <5>2
        <5> QED BY <4>1, <5>3, LeastOfTwo
      <4> QED BY <4>1, <4>2
    <3>2. now \in Int /\ low \in Int /\ low >= 0 BY <2>2, <3>0 DEF Slots
    <3>3. s \in Int /\ low <= s /\ s <= now - OVERLAP - 1
      BY <3>0, <3>2
    <3>4. CASE s >= base
      <4>1. s \in base .. now - OVERLAP - 1 BY <3>0, <3>1, <3>2, <3>3, <3>4
      <4>2. s \notin store[p][t] => s \in SkippedBy(row, upto, store[p], left)
        BY <1>4, <4>1 DEF SkippedBy
      <4>3. SkippedBy(row, upto, store[p], left) \subseteq S[p] OBVIOUS
      <4> QED BY <4>2, <4>3
    <3>5. CASE s < base /\ reached /= None /\ s >= reached
      <4>1. s \in reached .. upto - 1 BY <3>0, <3>1, <3>3, <3>5 DEF Slots
      <4>2. s \in store[p][t] \/ s \in left BY <3>5, <4>1
      <4>3. left \subseteq SkippedBy(row, upto, store[p], left) BY <1>4 DEF SkippedBy
      <4>4. SkippedBy(row, upto, store[p], left) \subseteq S[p] OBVIOUS
      <4> QED BY <4>2, <4>3, <4>4
    <3>6. CASE s < base /\ ~(reached /= None /\ s >= reached)
      <4>1. row.from /= None /\ row.from \in Int /\ row.from >= 0 /\ s >= row.from
        <5>1. row.from \in Slots \cup {None} BY <1>1 DEF RowShape
        <5>2. CASE reached = None BY <3>0, <3>3, <5>1, <5>2 DEF Slots
        <5>3. CASE reached /= None
          <6>1. reached \in Int /\ s < reached BY <3>0, <3>3, <3>6, <5>3 DEF Slots
          <6>2. row.from /= None BY <3>3, <5>3, <6>1
          <6>3. row.from \in Int /\ row.from >= 0 BY <3>0, <5>1, <6>2 DEF Slots
          <6>4. low = (IF row.from <= reached THEN row.from ELSE reached)
            BY <5>3, <6>1, <6>2, <6>3, LeastOfTwo
          <6> QED BY <3>3, <6>1, <6>2, <6>3, <6>4
        <5> QED BY <5>2, <5>3
      <4>2. row.last \in Int BY <1>1, <4>1, <3>0 DEF RowShape, Slots
      <4>3. base <= Floored(row.last - OVERLAP)
        <5>1. Floored(row.last - OVERLAP) \in Int /\ upto \in Int
          BY <3>0, <4>2 DEF Floored, Slots
        <5> QED BY <4>1, <5>1, LeastOfTwo
      <4>4. s <= row.last - OVERLAP - 1 BY <3>0, <3>1, <3>3, <3>6, <4>1, <4>2, <4>3 DEF Floored
      <4>5. s \in row.from .. row.last - OVERLAP - 1 BY <3>0, <3>3, <4>1, <4>2, <4>4
      <4>6. s \in store[p][t] \cup skips[p] BY <4>1, <4>5 DEF Claims
      <4> QED BY <1>2, <4>6
    <3> QED BY <3>1, <3>3, <3>4, <3>5, <3>6
  <2> HIDE DEF new, low, S, row
  <2>7. /\ T[h][p] = new
        /\ \A g \in Heads, q \in Pairs : g /= h \/ q /= p => T[g][q] = table[g][q]
        /\ T = [g \in Heads |-> [q \in Pairs |-> T[g][q]]]
    <3> HIDE DEF T
    <3>1. table = [g \in Heads |-> [q \in Pairs |-> table[g][q]]] BY DEF TableShape
    <3> QED BY <2>1, <3>1
  <2>8. TableShape(T) BY <2>3, <2>7 DEF TableShape
  <2>9. Claims(T, store, S)
    <3> SUFFICES ASSUME NEW g \in Heads, NEW q \in Pairs, T[g][q].from /= None, NEW t \in Timelines
                 PROVE  T[g][q].from .. T[g][q].last - OVERLAP - 1 \subseteq store[q][t] \cup S[q]
      BY DEF Claims
    <3>1. CASE g = h /\ q = p BY <2>3, <2>6, <2>7, <3>1
    <3>2. CASE g /= h \/ q /= p BY <1>2, <2>7, <3>2 DEF Claims
    <3> QED BY <3>1, <3>2
  <2> QED BY <2>8, <2>9 DEF S, row
<1> QED BY <1>1, <1>3, <1>4 DEF RowShape

-----------------------------------------------------------------------------
(* The passes and the tool, step by step *)

\* A step of one worker that changes no more than where it is and what it has in hand.
LEMMA WorkMoves ==
  ASSUME WorkShape, NEW w \in Workers, NEW label \in Labels, NEW rest, NEW t, NEW a,
         at' = [at EXCEPT ![w] = label],
         todo' = todo \/ (todo' = [todo EXCEPT ![w] = rest] /\ \A u \in rest : TaskShape(u)),
         task' = task \/ task' = [task EXCEPT ![w] = t],
         asked' = asked \/ asked' = [asked EXCEPT ![w] = a],
         label \in {"walking", "stamping", "recording"} => TaskShape(task'[w]) /\ AskShape(asked'[w])
  PROVE  /\ WorkShape' /\ at'[w] = label
         /\ \A v \in Workers : v /= w => /\ at'[v] = at[v] /\ task'[v] = task[v]
                                         /\ asked'[v] = asked[v]
<1>1. at \in [Workers -> Labels] BY DEF WorkShape
<1>2. /\ todo = [v \in Workers |-> todo[v]] /\ task = [v \in Workers |-> task[v]]
      /\ asked = [v \in Workers |-> asked[v]]
  BY DEF WorkShape
<1>3. at' \in [Workers -> Labels] /\ at'[w] = label BY <1>1
<1>4. \A v \in Workers : v /= w => /\ at'[v] = at[v] /\ task'[v] = task[v]
                                   /\ asked'[v] = asked[v]
  BY <1>1, <1>2
<1>5. todo' = [v \in Workers |-> todo'[v]] /\ \A v \in Workers : \A u \in todo'[v] : TaskShape(u)
  BY <1>2 DEF WorkShape
<1>6. task' = [v \in Workers |-> task'[v]] /\ asked' = [v \in Workers |-> asked'[v]]
  BY <1>2
<1>7. ASSUME NEW v \in Workers, at'[v] \in {"walking", "stamping", "recording"}
      PROVE  TaskShape(task'[v]) /\ AskShape(asked'[v])
  <2>1. CASE v = w BY <1>3, <1>7, <2>1
  <2>2. CASE v /= w BY <1>4, <1>7, <2>2 DEF WorkShape, Walking
  <2> QED BY <2>1, <2>2
<1>8. \A u : TaskShape(u)' <=> TaskShape(u) BY DEF TaskShape, RowShape
<1>9. \A u : AskShape(u)' <=> AskShape(u) BY DEF AskShape
<1>10. WorkShape' BY <1>3, <1>5, <1>6, <1>7, <1>8, <1>9 DEF WorkShape, Walking
<1> QED BY <1>3, <1>4, <1>10

LEMMA WorkRests ==
  ASSUME RegistryInv, UNCHANGED <<at, todo, task, asked>> PROVE WorkShape'
  BY DEF RegistryInv, WorkShape, Walking, TaskShape, RowShape, AskShape

LEMMA BackMoves ==
  ASSUME WorkShape, NEW w \in Workers, NEW rest, rest \subseteq todo[w], Back(w, rest)
  PROVE  /\ WorkShape' /\ at'[w] = "passing"
         /\ \A v \in Workers : v /= w => /\ at'[v] = at[v] /\ task'[v] = task[v]
                                         /\ asked'[v] = asked[v]
<1>1. \A u \in rest : TaskShape(u) BY DEF WorkShape
<1>2. "passing" \in Labels BY DEF Labels
<1>3. /\ at' = [at EXCEPT ![w] = "passing"] /\ todo' = [todo EXCEPT ![w] = rest]
      /\ task' = [task EXCEPT ![w] = NoTask] /\ asked' = [asked EXCEPT ![w] = NoWindow]
  BY DEF Back, Goto
<1> QED BY <1>1, <1>2, <1>3, WorkMoves

LEMMA OffMoves ==
  ASSUME WorkShape, NEW w \in Workers, Off(w)
  PROVE  /\ WorkShape' /\ at'[w] = "off"
         /\ \A v \in Workers : v /= w => /\ at'[v] = at[v] /\ task'[v] = task[v]
                                         /\ asked'[v] = asked[v]
<1>1. "off" \in Labels BY DEF Labels
<1>2. PICK rest : rest = {} OBVIOUS
<1>3. /\ at' = [at EXCEPT ![w] = "off"] /\ todo' = [todo EXCEPT ![w] = rest]
      /\ task' = [task EXCEPT ![w] = NoTask] /\ asked' = [asked EXCEPT ![w] = NoWindow]
      /\ \A u \in rest : TaskShape(u)
  BY <1>2 DEF Off, Goto
<1> QED BY <1>1, <1>3, WorkMoves

\* The tool's own part: nothing to stamp, or the same as before and no less held.
LEMMA ToolSawRests ==
  ASSUME RegistryInv,
         \A p \in Pairs, t \in Timelines : held[p][t] \subseteq held'[p][t],
         \/ at'["tool"] \notin {"stamping", "recording"}
         \/ /\ at'["tool"] = at["tool"] /\ task'["tool"] = task["tool"]
            /\ asked'["tool"] = asked["tool"]
  PROVE  ToolSaw'
<1>1. "tool" \in Workers BY DEF Workers
<1>2. at["tool"] \in {"stamping", "recording"} => task["tool"].pair \in Pairs
  BY <1>1 DEF RegistryInv, WorkShape, Walking, TaskShape
<1> QED BY <1>2 DEF RegistryInv, ToolSaw

\* A step that leaves the registry and what is held alone.
LEMMA RegistryRests ==
  ASSUME RegistryInv, UNCHANGED <<rows, held, skipped, cast>>, now' \in Slots, head' \in Heads,
         WorkShape',
         \/ at'["tool"] \notin {"stamping", "recording"}
         \/ /\ at'["tool"] = at["tool"] /\ task'["tool"] = task["tool"]
            /\ asked'["tool"] = asked["tool"]
  PROVE  RegistryInv'
<1>1. ToolSaw' BY ToolSawRests
<1>2. TableShape(rows)' BY DEF RegistryInv, TableShape, RowShape
<1>3. StoreShape' BY DEF RegistryInv, StoreShape
<1>4. Claims(rows, held, skipped)' BY DEF RegistryInv, Claims
<1> QED BY <1>1, <1>2, <1>3, <1>4 DEF RegistryInv

\* What a walk claims is there or left behind, and nothing has gone.
LEMMA WalkLands ==
  ASSUME StoreShape, NEW w \in Workers, NEW p \in Pairs, AskShape(asked[w]),
         NEW reached \in Slots \cup {None}, NEW left,
         \/ WholeWalk(w, p, reached) \/ Capped(w, p, reached) \/ OneSided(w, p, reached)
         \/ Truncated(w, p, reached) /\ left = Left(w, p)
  PROVE  /\ held' = [q \in Pairs |-> [t \in Timelines |-> held'[q][t]]]
         /\ \A q \in Pairs, t \in Timelines : held[q][t] \subseteq held'[q][t]
         /\ reached /= None =>
              \A t \in Timelines : reached .. asked[w].upto - 1 \subseteq held'[p][t] \cup left
<1>1. ASSUME NEW P, NEW R, Land(p, P, R)
      PROVE  /\ held' = [q \in Pairs |-> [t \in Timelines |-> held'[q][t]]]
             /\ \A q \in Pairs, t \in Timelines : held[q][t] \subseteq held'[q][t]
             /\ \A t \in Timelines : P \cap R \subseteq held'[p][t]
  <2>1. held' = [held EXCEPT ![p] =
          [t \in Timelines |-> held[p][t] \cup (IF t = "posts" THEN P ELSE R)]]
    BY <1>1 DEF Land
  <2>2. held = [q \in Pairs |-> [t \in Timelines |-> held[q][t]]] BY DEF StoreShape
  <2>3. held'[p] = [t \in Timelines |-> held[p][t] \cup (IF t = "posts" THEN P ELSE R)]
    BY <2>1, <2>2
  <2>4. \A q \in Pairs : q /= p => held'[q] = held[q] BY <2>1, <2>2
  <2>5. \A q \in Pairs : held[q] = [t \in Timelines |-> held[q][t]] BY <2>2
  <2>6. \A q \in Pairs : held'[q] = [t \in Timelines |-> held'[q][t]]
    BY <2>3, <2>4, <2>5
  <2>7. held' = [q \in Pairs |-> held'[q]] BY <2>1, <2>2
  <2>8. held' = [q \in Pairs |-> [t \in Timelines |-> held'[q][t]]] BY <2>6, <2>7
  <2>9. \A t \in Timelines : held[p][t] \subseteq held'[p][t] /\ P \cap R \subseteq held'[p][t]
    BY <2>3
  <2> QED BY <2>4, <2>8, <2>9
<1>2. CASE WholeWalk(w, p, reached)
  <2>1. Land(p, Window(w), Window(w)) /\ reached = asked[w].since BY <1>2 DEF WholeWalk
  <2>2. Window(w) = reached .. asked[w].upto - 1 BY <2>1 DEF Window
  <2> QED BY <1>1, <2>1, <2>2
<1>3. CASE Capped(w, p, reached)
  <2>1. PICK P, R : P = reached .. asked[w].upto - 1 /\ R = P /\ Land(p, P, R)
    BY <1>3 DEF Capped
  <2>2. Land(p, P, R) BY <2>1
  <2>3. /\ held' = [q \in Pairs |-> [t \in Timelines |-> held'[q][t]]]
        /\ \A q \in Pairs, t \in Timelines : held[q][t] \subseteq held'[q][t]
        /\ \A t \in Timelines : P \cap R \subseteq held'[p][t]
    BY <1>1, <2>2
  <2>4. P \cap R = reached .. asked[w].upto - 1 BY <2>1
  <2> QED BY <2>3, <2>4
<1>4. CASE OneSided(w, p, reached)
  <2>1. reached = None /\ \E P, R : Land(p, P, R) BY <1>4 DEF OneSided
  <2> QED BY <1>1, <2>1
<1>5. CASE Truncated(w, p, reached) /\ left = Left(w, p)
  <2>1. reached = asked[w].since /\ \E P, R : Land(p, P, R) BY <1>5 DEF Truncated
  <2>2. \A t \in Timelines : \A s \in Window(w) : s \in held'[p][t] \cup left BY <1>5 DEF Left
  <2> QED BY <1>1, <2>1, <2>2 DEF Window
<1> QED BY <1>2, <1>3, <1>4, <1>5

\* Claims stay true of whatever holds more or has skipped more.
LEMMA ClaimsGrow ==
  ASSUME NEW table, NEW store, NEW skips, NEW more, NEW gone, Claims(table, store, skips),
         \A p \in Pairs, t \in Timelines : store[p][t] \subseteq more[p][t],
         \A p \in Pairs : skips[p] \subseteq gone[p]
  PROVE  Claims(table, more, gone)
  BY DEF Claims

\* The steps that write, put together: what a step has to show of itself.
LEMMA RegistryWrites ==
  ASSUME RegistryInv, UNCHANGED <<now, head, cast>>, WorkShape', ToolSaw', TableShape(rows'),
         held' = [q \in Pairs |-> [t \in Timelines |-> held'[q][t]]],
         skipped' = [q \in Pairs |-> skipped'[q]], Claims(rows', held', skipped')
  PROVE  RegistryInv'
<1>1. TableShape(rows)' BY DEF TableShape, RowShape
<1>2. Claims(rows, held, skipped)' BY DEF Claims
<1>3. StoreShape' BY DEF StoreShape
<1> QED BY <1>1, <1>2, <1>3 DEF RegistryInv

LEMMA SeedKeeps == ASSUME RegistryInv, RailSeeds PROVE RegistryInv'
<1>1. "rail" \in Workers /\ "tool" \in Workers /\ "listing" \in Labels BY DEF Workers, Labels
<1>2. WorkShape /\ TableShape(rows) /\ head \in Heads /\ Claims(rows, held, skipped) /\ StoreShape
  BY DEF RegistryInv
<1>3. /\ at' = [at EXCEPT !["rail"] = "listing"] /\ rows' = Seeded
      /\ UNCHANGED <<todo, task, asked, held, skipped, now, head, cast>>
  BY DEF RailSeeds, Goto, Env, passVars
<1>4. /\ WorkShape' /\ at'["tool"] = at["tool"] /\ task'["tool"] = task["tool"]
      /\ asked'["tool"] = asked["tool"]
  BY <1>1, <1>2, <1>3, WorkMoves
<1>5. ToolSaw' BY <1>3, <1>4, ToolSawRests
<1>6. TableShape(rows') /\ Claims(rows', held', skipped')
  BY <1>2, <1>3, SeedingInventsNothing, SeedingKeepsClaims
<1> QED BY <1>2, <1>3, <1>4, <1>5, <1>6, RegistryWrites DEF StoreShape

LEMMA ForgetKeeps == ASSUME RegistryInv, ForgetCommits PROVE RegistryInv'
<1>1. /\ rows' = [h \in Heads |-> [p \in Pairs |-> NoRow]]
      /\ UNCHANGED <<at, todo, task, asked, held, skipped, now, head, cast>>
  BY DEF ForgetCommits, Env, passVars
<1>2. TableShape(rows') /\ Claims(rows', held', skipped')
  BY <1>1, NoRowShape DEF TableShape, Claims
<1>3. WorkShape' BY <1>1, WorkRests
<1>4. ToolSaw' BY <1>1, ToolSawRests
<1> QED BY <1>1, <1>2, <1>3, <1>4, RegistryWrites DEF RegistryInv, StoreShape

LEMMA ObservedKeeps ==
  ASSUME RegistryInv, NEW w \in {"rail", "loop"}, Observed(w) PROVE RegistryInv'
<1>1. w \in Workers /\ w /= "tool" /\ "tool" \in Workers BY DEF Workers
<1>2. WorkShape /\ TableShape(rows) /\ Claims(rows, held, skipped) /\ StoreShape /\ now \in Slots
  BY DEF RegistryInv
<1>3. at[w] = "walking" BY DEF Observed
<1>4. TaskShape(task[w]) /\ AskShape(asked[w]) BY <1>1, <1>2, <1>3 DEF WorkShape, Walking
<1>5. PICK p \in Pairs, h \in Heads : p = task[w].pair /\ h = task[w].head
  BY <1>4 DEF TaskShape
<1>6. PICK reached \in Slots \cup {None}, left \in {{}, Left(w, p)} :
        /\ \/ WholeWalk(w, p, reached) \/ Capped(w, p, reached) \/ OneSided(w, p, reached)
           \/ Truncated(w, p, reached) /\ left = Left(w, p)
        /\ rows' = Recorded(rows, h, p, reached)
        /\ Skips(w, p, rows[h][p], held', left)
  BY <1>5 DEF Observed
<1>7. /\ Back(w, todo[w]) /\ UNCHANGED <<now, head, cast>>
  BY DEF Observed
<1>9. PICK upto \in Slots : upto = asked[w].upto BY <1>4 DEF AskShape
<1>10. skipped' = [skipped EXCEPT ![p] = @ \cup SkippedBy(rows[h][p], upto, held'[p], left)]
  BY <1>6, <1>9 DEF Skips, SkippedBy
<1>11. /\ held' = [q \in Pairs |-> [t \in Timelines |-> held'[q][t]]]
       /\ \A q \in Pairs, t \in Timelines : held[q][t] \subseteq held'[q][t]
       /\ reached /= None => \A t \in Timelines : reached .. upto - 1 \subseteq held'[p][t] \cup left
  BY <1>1, <1>2, <1>4, <1>6, <1>9, WalkLands
<1>12. Claims(rows, held', skipped) BY <1>2, <1>11, ClaimsGrow
<1>13. skipped = [q \in Pairs |-> skipped[q]] BY <1>2 DEF StoreShape
<1>14. TableShape(rows') /\ Claims(rows', held', skipped')
  <2>1. /\ TableShape(Recorded(rows, h, p, reached))
        /\ Claims(Recorded(rows, h, p, reached), held',
                  [skipped EXCEPT ![p] = @ \cup SkippedBy(rows[h][p], upto, held'[p], left)])
    BY <1>2, <1>11, <1>12, <1>13, RecordingKeepsClaims
  <2> QED BY <1>6, <1>10, <2>1
<1>15. skipped' = [q \in Pairs |-> skipped'[q]] BY <1>10, <1>13
<1>16. /\ WorkShape' /\ at'["tool"] = at["tool"] /\ task'["tool"] = task["tool"]
       /\ asked'["tool"] = asked["tool"]
  BY <1>1, <1>2, <1>7, BackMoves
<1>17. ToolSaw' BY <1>11, <1>16, ToolSawRests
<1> QED BY <1>7, <1>11, <1>14, <1>15, <1>16, <1>17, RegistryWrites

LEMMA StampKeeps == ASSUME RegistryInv, ToolStamps PROVE RegistryInv'
<1>1. "tool" \in Workers BY DEF Workers
<1>2. /\ WorkShape /\ TableShape(rows) /\ Claims(rows, held, skipped) /\ StoreShape
      /\ now \in Slots /\ head \in Heads
  BY DEF RegistryInv
<1>3. at["tool"] \in {"stamping", "recording"} BY DEF ToolStamps
<1>4. TaskShape(task["tool"]) /\ AskShape(asked["tool"])
  BY <1>1, <1>2, <1>3 DEF WorkShape, Walking
<1>5. PICK p \in Pairs : p = task["tool"].pair BY <1>4 DEF TaskShape
<1>6. PICK upto \in Slots : upto = asked["tool"].upto BY <1>4 DEF AskShape
<1>7. PICK table : table = IF at["tool"] = "stamping" THEN Seeded ELSE rows OBVIOUS
<1>8. TableShape(table) /\ Claims(table, held, skipped)
  BY <1>2, <1>7, SeedingInventsNothing, SeedingKeepsClaims
<1>9. Back("tool", todo["tool"]) /\ UNCHANGED <<held, now, head, cast>>
  BY DEF ToolStamps, Env
<1>10. WorkShape' /\ at'["tool"] = "passing" BY <1>1, <1>2, <1>9, BackMoves
<1>11. ToolSaw' BY <1>9, <1>10, ToolSawRests
<1>12. skipped = [q \in Pairs |-> skipped[q]] BY <1>2 DEF StoreShape
<1>13. CASE asked["tool"].seen
  <2>1. PICK reached, left : reached = asked["tool"].reached /\ left = asked["tool"].left OBVIOUS
  <2>2. /\ rows' = Recorded(table, head, p, reached)
        /\ Skips("tool", p, table[head][p], held, left)
    BY <1>5, <1>7, <1>13, <2>1 DEF ToolStamps
  <2>3. /\ reached \in Slots \cup {None}
        /\ reached /= None => \A t \in Timelines : reached .. upto - 1 \subseteq held[p][t] \cup left
    BY <1>3, <1>5, <1>6, <1>13, <2>1 DEF RegistryInv, ToolSaw
  <2>4. skipped' = [skipped EXCEPT ![p] = @ \cup SkippedBy(table[head][p], upto, held[p], left)]
    BY <1>6, <2>2 DEF Skips, SkippedBy
  <2>5. TableShape(rows') /\ Claims(rows', held, skipped')
    BY <1>2, <1>8, <1>12, <2>2, <2>3, <2>4, RecordingKeepsClaims
  <2>6. skipped' = [q \in Pairs |-> skipped'[q]] BY <1>12, <2>4
  <2> QED BY <1>2, <1>9, <1>10, <1>11, <2>5, <2>6, RegistryWrites DEF StoreShape
<1>14. CASE ~asked["tool"].seen
  <2>1. rows' = table /\ skipped' = skipped BY <1>7, <1>14 DEF ToolStamps
  <2> QED BY <1>2, <1>8, <1>9, <1>10, <1>11, <1>12, <2>1, RegistryWrites DEF StoreShape
<1> QED BY <1>13, <1>14

LEMMA WalkedKeeps == ASSUME RegistryInv, ToolWalked PROVE RegistryInv'
<1>1. "tool" \in Workers BY DEF Workers
<1>2. /\ WorkShape /\ TableShape(rows) /\ Claims(rows, held, skipped) /\ StoreShape
  BY DEF RegistryInv
<1>3. at["tool"] = "walking" BY DEF ToolWalked
<1>4. TaskShape(task["tool"]) /\ AskShape(asked["tool"])
  BY <1>1, <1>2, <1>3 DEF WorkShape, Walking
<1>5. PICK p \in Pairs : p = task["tool"].pair BY <1>4 DEF TaskShape
<1>6. PICK label \in {"stamping", "recording"} : at' = [at EXCEPT !["tool"] = label]
  BY DEF ToolWalked, Goto
<1>7. UNCHANGED <<rows, skipped, now, head, cast, todo, task>> BY DEF ToolWalked
<1>8. PICK reached \in Slots \cup {None}, seen \in BOOLEAN, left \in {{}, Left("tool", p)} :
        /\ asked' = [asked EXCEPT !["tool"].reached = IF cast.kind[p] = "github" THEN None ELSE reached,
                                  !["tool"].seen = seen, !["tool"].left = left]
        /\ \/ WholeWalk("tool", p, reached) \/ Capped("tool", p, reached)
           \/ OneSided("tool", p, reached)
           \/ Truncated("tool", p, reached) /\ left = Left("tool", p)
           \/ reached = None /\ UNCHANGED held
  <2>1. CASE \E reached \in Slots \cup {None} :
               /\ WholeWalk("tool", p, reached) \/ Capped("tool", p, reached)
               /\ asked' = [asked EXCEPT
                    !["tool"].reached = IF cast.kind[p] = "github" THEN None ELSE reached,
                    !["tool"].seen = TRUE, !["tool"].left = {}]
    BY <2>1
  <2>2. CASE /\ OneSided("tool", p, None)
             /\ asked' = [asked EXCEPT
                  !["tool"].reached = IF cast.kind[p] = "github" THEN None ELSE None,
                  !["tool"].seen = TRUE, !["tool"].left = {}]
    BY <2>2
  <2>3. CASE /\ UNCHANGED held
             /\ asked' = [asked EXCEPT
                  !["tool"].reached = IF cast.kind[p] = "github" THEN None ELSE None,
                  !["tool"].seen = FALSE, !["tool"].left = {}]
    BY <2>3
  <2>4. CASE \E reached \in Slots :
               /\ Truncated("tool", p, reached)
               /\ asked' = [asked EXCEPT
                    !["tool"].reached = IF cast.kind[p] = "github" THEN None ELSE reached,
                    !["tool"].seen = TRUE, !["tool"].left = Left("tool", p)]
    BY <2>4
  <2> QED BY <1>5, <2>1, <2>2, <2>3, <2>4 DEF ToolWalked
<1>9. PICK got \in Slots \cup {None} :
        got = (IF cast.kind[p] = "github" THEN None ELSE reached)
  OBVIOUS
<1>10. PICK a : a = [asked["tool"] EXCEPT !.reached = got, !.seen = seen, !.left = left] OBVIOUS
<1>11. a.reached = got /\ a.left = left /\ a.upto = asked["tool"].upto /\ a.since = asked["tool"].since
  BY <1>4, <1>10 DEF AskShape
<1>12. AskShape(a)
  <2>1. a \in [since : {asked["tool"].since}, upto : Slots, reached : {got}, seen : {seen},
               left : {left}]
    BY <1>4, <1>10 DEF AskShape
  <2>2. a.seen = seen BY <2>1
  <2> QED BY <1>11, <2>1, <2>2 DEF AskShape
<1>13. asked = [v \in Workers |-> asked[v]] BY <1>2 DEF WorkShape
<1>14. asked' = [asked EXCEPT !["tool"] = a] BY <1>8, <1>9, <1>10, <1>13
<1>15. asked'["tool"] = a BY <1>1, <1>13, <1>14
<1>16. WorkShape' /\ at'["tool"] = label
  <2>1. label \in Labels BY DEF Labels
  <2>2. TaskShape(task'["tool"]) /\ AskShape(asked'["tool"]) BY <1>4, <1>7, <1>12, <1>15
  <2> QED BY <1>1, <1>2, <1>6, <1>7, <1>14, <2>1, <2>2, WorkMoves
<1>17. /\ held' = [q \in Pairs |-> [t \in Timelines |-> held'[q][t]]]
       /\ \A q \in Pairs, t \in Timelines : held[q][t] \subseteq held'[q][t]
       /\ reached /= None =>
            \A t \in Timelines : reached .. asked["tool"].upto - 1 \subseteq held'[p][t] \cup left
  BY <1>1, <1>2, <1>4, <1>8, WalkLands DEF StoreShape
<1>18. ToolSaw'
  BY <1>5, <1>7, <1>9, <1>11, <1>15, <1>17 DEF ToolSaw
<1>19. Claims(rows, held', skipped') BY <1>2, <1>7, <1>17, ClaimsGrow
<1> QED BY <1>2, <1>7, <1>16, <1>17, <1>18, <1>19, RegistryWrites DEF StoreShape

\* A step of a pass that walks nothing itself.
LEMMA PassKeeps ==
  ASSUME RegistryInv, NEW w \in {"rail", "loop"},
         List(w) \/ Pass(w) \/ Failed(w) \/ Interrupted(w) \/ PassEnds(w)
  PROVE  RegistryInv'
<1>1. w \in Workers /\ w /= "tool" /\ "tool" \in Workers BY DEF Workers
<1>2. WorkShape /\ TableShape(rows) /\ now \in Slots /\ head \in Heads BY DEF RegistryInv
<1>3. UNCHANGED <<rows, held, skipped, cast, now, head>>
  BY DEF List, Pass, Take, Failed, Interrupted, PassEnds, Env
<1>4. SUFFICES WorkShape' /\ at'["tool"] = at["tool"] /\ task'["tool"] = task["tool"]
               /\ asked'["tool"] = asked["tool"]
  BY <1>2, <1>3, RegistryRests
<1>5. {"listing", "passing", "walking"} \subseteq Labels BY DEF Labels
<1>6. CASE List(w)
  <2> DEFINE rest ==
          {t \in {[head |-> h, pair |-> p, row |-> rows[h][p]] : h \in Heads, p \in Pairs} :
             t.row.in /\ IF phase[w] = "refresh" THEN Stale(t.row) ELSE Gap(t.row)}
  <2>0. todo' = [todo EXCEPT ![w] = rest] BY <1>6 DEF List
  <2>1. \A u \in rest : \E h \in Heads, p \in Pairs :
          u = [head |-> h, pair |-> p, row |-> rows[h][p]]
    OBVIOUS
  <2> HIDE DEF rest
  <2>2. \A u \in rest : TaskShape(u) BY <1>2, <2>1 DEF TableShape, TaskShape
  <2>3. at' = [at EXCEPT ![w] = "passing"] /\ UNCHANGED <<task, asked>> BY <1>6 DEF List, Goto
  <2> QED BY <1>1, <1>2, <1>5, <2>0, <2>2, <2>3, WorkMoves
<1>7. CASE Pass(w)
  <2>1. PICK t \in todo[w] : Take(w, t) BY <1>7 DEF Pass
  <2>2. at[w] = "passing" BY <1>7 DEF Pass
  <2>3. TaskShape(t) /\ \A u \in todo[w] \ {t} : TaskShape(u) BY <1>1, <1>2, <2>1 DEF WorkShape
  <2>4. PICK rest : rest = todo[w] \ {t} OBVIOUS
  <2>5. todo' = [todo EXCEPT ![w] = rest] BY <2>1, <2>4 DEF Take
  <2>6. CASE UNCHANGED <<at, task, asked>>
    <3>1. at' = [at EXCEPT ![w] = "passing"] BY <1>1, <1>2, <2>2, <2>6 DEF WorkShape
    <3> QED BY <1>1, <1>2, <1>5, <2>3, <2>4, <2>5, <2>6, <3>1, WorkMoves
  <2>7. CASE /\ at' = [at EXCEPT ![w] = "walking"]
             /\ task' = [task EXCEPT ![w] = t] /\ asked' = [asked EXCEPT ![w] = Asks(w, t)]
    <3>1. AskShape(Asks(w, t))
      <4> DEFINE since == IF phase[w] = "refresh" THEN Since(t.pair, t.row) ELSE Target
                 upto == IF phase[w] = "backfill" /\ cast.kind[t.pair] = "github" /\ t.row.from /= None
                         THEN t.row.from ELSE now
      <4>1. Asks(w, t) = [NoWindow EXCEPT !.since = since, !.upto = upto] BY DEF Asks
      <4>2. upto \in Slots BY <1>2, <2>3 DEF TaskShape, RowShape
      <4> HIDE DEF since, upto
      <4>3. Asks(w, t) = [since |-> since, upto |-> upto, reached |-> None, seen |-> FALSE, left |-> {}]
        BY <4>1 DEF NoWindow
      <4> QED BY <4>2, <4>3 DEF AskShape
    <3>2. task'[w] = t /\ asked'[w] = Asks(w, t) BY <1>1, <1>2, <2>7 DEF WorkShape
    <3>3. TaskShape(task'[w]) /\ AskShape(asked'[w]) BY <2>3, <3>1, <3>2
    <3>4. PICK label \in Labels : label = "walking" BY <1>5
    <3>5. PICK a : a = Asks(w, t) OBVIOUS
    <3>6. /\ at' = [at EXCEPT ![w] = label] /\ task' = [task EXCEPT ![w] = t]
          /\ asked' = [asked EXCEPT ![w] = a]
      BY <2>7, <3>4, <3>5
    <3>7. \A u \in rest : TaskShape(u) BY <2>3, <2>4
    <3> QED BY <1>1, <1>2, <2>5, <3>3, <3>6, <3>7, WorkMoves
  <2> QED BY <2>1, <2>6, <2>7 DEF Take, Goto
<1>8. CASE Failed(w) \/ Interrupted(w)
  <2>1. PICK rest \in SUBSET todo[w] : Back(w, rest)
    BY <1>8 DEF Failed, Interrupted
  <2> QED BY <1>1, <1>2, <2>1, BackMoves
<1>9. CASE PassEnds(w)
  <2>1. CASE Off(w) BY <1>1, <1>2, <2>1, OffMoves
  <2>2. CASE /\ at' = [at EXCEPT ![w] = "listing"] /\ todo' = [todo EXCEPT ![w] = {}]
             /\ UNCHANGED <<task, asked>>
    <3>1. PICK rest : rest = {} OBVIOUS
    <3>2. todo' = [todo EXCEPT ![w] = rest] /\ \A u \in rest : TaskShape(u) BY <2>2, <3>1
    <3> QED BY <1>1, <1>2, <1>5, <2>2, <3>2, WorkMoves
  <2> QED BY <1>9, <2>1, <2>2 DEF PassEnds, Goto
<1> QED BY <1>6, <1>7, <1>8, <1>9

LEMMA BeginKeeps ==
  ASSUME RegistryInv, NEW w \in {"rail", "loop"}, (RailBegins /\ w = "rail") \/ (LoopBegins /\ w = "loop")
  PROVE  RegistryInv'
<1>1. w \in Workers /\ w /= "tool" /\ "tool" \in Workers BY DEF Workers
<1>2. WorkShape /\ now \in Slots /\ head \in Heads BY DEF RegistryInv
<1>3. PICK label \in {"seeding", "listing"} : at' = [at EXCEPT ![w] = label]
  BY DEF RailBegins, LoopBegins, Goto
<1>4. UNCHANGED <<rows, held, skipped, cast, now, head, todo, task, asked>>
  BY DEF RailBegins, LoopBegins, Env
<1>5. label \in Labels BY DEF Labels
<1>6. /\ WorkShape' /\ at'["tool"] = at["tool"] /\ task'["tool"] = task["tool"]
      /\ asked'["tool"] = asked["tool"]
  BY <1>1, <1>2, <1>3, <1>4, <1>5, WorkMoves
<1> QED BY <1>2, <1>4, <1>6, RegistryRests

LEMMA ToolKeeps ==
  ASSUME RegistryInv, ToolBegins \/ ToolWalks \/ ToolTurns PROVE RegistryInv'
<1>1. "tool" \in Workers /\ {"passing", "walking", "off"} \subseteq Labels BY DEF Workers, Labels
<1>2. WorkShape /\ TableShape(rows) /\ now \in Slots /\ head \in Heads /\ cast \in Casts
  BY DEF RegistryInv
<1>3. UNCHANGED <<rows, held, skipped, cast, now, head>>
  BY DEF ToolBegins, ToolWalks, ToolTurns, Env
<1>4. SUFFICES WorkShape' /\ at'["tool"] \notin {"stamping", "recording"}
  BY <1>2, <1>3, RegistryRests
<1>5. ASSUME NEW ps \in SUBSET Pairs, NEW u \in {[head |-> head, pair |-> p, row |-> rows[head][p]] : p \in ps}
      PROVE  TaskShape(u)
  BY <1>2, <1>5 DEF TableShape, TaskShape
<1>6. Present \subseteq Pairs BY <1>2, PresentPairs
<1>7. CASE ToolBegins
  <2>1. PICK rest : rest = {[head |-> head, pair |-> p, row |-> rows[head][p]] : p \in Present} OBVIOUS
  <2>2. /\ at' = [at EXCEPT !["tool"] = "passing"] /\ todo' = [todo EXCEPT !["tool"] = rest]
        /\ UNCHANGED <<task, asked>>
    BY <1>7, <2>1 DEF ToolBegins, Goto
  <2>3. \A u \in rest : TaskShape(u) BY <1>5, <1>6, <2>1
  <2> QED BY <1>1, <1>2, <2>2, <2>3, WorkMoves
<1>8. CASE ToolWalks
  <2>0. PICK t \in todo["tool"] :
          /\ todo' = [todo EXCEPT !["tool"] = @ \ {t}]
          /\ task' = [task EXCEPT !["tool"] = t]
          /\ \E since : asked' = [asked EXCEPT !["tool"] =
                                   [NoWindow EXCEPT !.upto = now, !.since = since]]
    BY <1>8 DEF ToolWalks
  <2>1. PICK since :
          asked' = [asked EXCEPT !["tool"] = [NoWindow EXCEPT !.upto = now, !.since = since]]
    BY <2>0
  <2>2. PICK a : a = [NoWindow EXCEPT !.upto = now, !.since = since] OBVIOUS
  <2>3. a = [since |-> since, upto |-> now, reached |-> None, seen |-> FALSE, left |-> {}]
    BY <2>2 DEF NoWindow
  <2>4. AskShape(a) BY <1>2, <2>3 DEF AskShape
  <2>5. PICK rest : rest = todo["tool"] \ {t} OBVIOUS
  <2>6. TaskShape(t) /\ \A u \in rest : TaskShape(u) BY <1>1, <1>2, <2>5 DEF WorkShape
  <2>7. /\ todo' = [todo EXCEPT !["tool"] = rest] /\ task' = [task EXCEPT !["tool"] = t]
        /\ asked' = [asked EXCEPT !["tool"] = a] /\ at' = [at EXCEPT !["tool"] = "walking"]
    BY <1>8, <2>0, <2>1, <2>2, <2>5 DEF ToolWalks, Goto
  <2>8. task'["tool"] = t /\ asked'["tool"] = a BY <1>1, <1>2, <2>7 DEF WorkShape
  <2>9. TaskShape(task'["tool"]) /\ AskShape(asked'["tool"]) BY <2>4, <2>6, <2>8
  <2>10. \A u \in rest : TaskShape(u) BY <2>6
  <2>11. PICK label \in Labels : label = "walking" BY <1>1
  <2>12. at' = [at EXCEPT !["tool"] = label] BY <2>7, <2>11
  <2>13. WorkShape' /\ at'["tool"] = label BY <1>1, <1>2, <2>7, <2>9, <2>10, <2>12, WorkMoves
  <2> QED BY <2>11, <2>13
<1>9. CASE ToolTurns
  <2>1. CASE Off("tool") BY <1>1, <1>2, <2>1, OffMoves
  <2>2. CASE /\ UNCHANGED <<at, task, asked>>
             /\ todo' = [todo EXCEPT !["tool"] =
                  {[head |-> head, pair |-> p, row |-> rows[head][p]] :
                     p \in {q \in Present : cast.kind[q] = "x"}}]
    <3>1. PICK rest : rest = {[head |-> head, pair |-> p, row |-> rows[head][p]] :
                                p \in {q \in Present : cast.kind[q] = "x"}}
      OBVIOUS
    <3>2. \A u \in rest : TaskShape(u)
      <4>1. {q \in Present : cast.kind[q] = "x"} \in SUBSET Pairs BY <1>6
      <4> QED BY <1>5, <3>1, <4>1
    <3>3. at["tool"] = "passing" BY <1>9 DEF ToolTurns
    <3>4. at' = [at EXCEPT !["tool"] = "passing"] BY <1>2, <2>2, <3>3 DEF WorkShape
    <3>5. todo' = [todo EXCEPT !["tool"] = rest] BY <2>2, <3>1
    <3> QED BY <1>1, <1>2, <2>2, <3>2, <3>4, <3>5, WorkMoves, ZenonT(30)
  <2> QED BY <1>9, <2>1, <2>2 DEF ToolTurns
<1> QED BY <1>7, <1>8, <1>9

\* Steps that leave passes, registry and store alone, and deaths.
LEMMA OthersKeep ==
  ASSUME RegistryInv,
         \/ ClusterMerges \/ ForgetBegins \/ Tick \/ Silence \/ UNCHANGED vars
         \/ \E p \in Holders : Beats(p)
  PROVE  RegistryInv'
<1>1. UNCHANGED <<rows, held, skipped, cast, at, todo, task, asked>>
  BY DEF ClusterMerges, ForgetBegins, Tick, Silence, Beats, vars, Env, passVars
<1>2. now' \in Slots
  <2>1. now \in Slots BY DEF RegistryInv
  <2>2. now' = now \/ (now < MaxNow /\ now' = now + 1)
    BY DEF ClusterMerges, ForgetBegins, Tick, Silence, Beats, vars, Env
  <2> QED BY <2>1, <2>2, RefreshAssumption DEF Slots
<1>3. head' \in Heads
  BY DEF ClusterMerges, ForgetBegins, Tick, Silence, Beats, vars, Env, RegistryInv, Heads
<1> QED BY <1>1, <1>2, <1>3, WorkRests, RegistryRests

LEMMA DeathKeeps == ASSUME RegistryInv, NEW w \in Workers, Dies(w) PROVE RegistryInv'
<1>1. "tool" \in Workers /\ WorkShape /\ now \in Slots /\ head \in Heads BY DEF RegistryInv, Workers
<1>2. Off(w) /\ UNCHANGED <<rows, held, skipped, cast, now, head>> BY DEF Dies
<1>3. /\ WorkShape' /\ at'[w] = "off"
      /\ \A v \in Workers : v /= w => /\ at'[v] = at[v] /\ task'[v] = task[v]
                                      /\ asked'[v] = asked[v]
  BY <1>1, <1>2, OffMoves
<1> QED BY <1>1, <1>2, <1>3, RegistryRests

LEMMA RegistryKeeps == ASSUME RegistryInv, [Next]_vars PROVE RegistryInv'
<1>1. ASSUME NEW w \in {"rail", "loop"}, PassStep(w) PROVE RegistryInv'
  BY <1>1, PassKeeps, ObservedKeeps DEF PassStep
<1>2. CASE ToolStep BY <1>2, ToolKeeps, WalkedKeeps, StampKeeps DEF ToolStep
<1>3. CASE RailBegins \/ LoopBegins
  <2>1. CASE RailBegins
    <3>1. PICK w \in {"rail", "loop"} : w = "rail" OBVIOUS
    <3>2. (RailBegins /\ w = "rail") \/ (LoopBegins /\ w = "loop") BY <2>1, <3>1
    <3> QED BY <3>2, BeginKeeps
  <2>2. CASE LoopBegins
    <3>1. PICK w \in {"rail", "loop"} : w = "loop" OBVIOUS
    <3>2. (RailBegins /\ w = "rail") \/ (LoopBegins /\ w = "loop") BY <2>2, <3>1
    <3> QED BY <3>2, BeginKeeps
  <2> QED BY <1>3, <2>1, <2>2
<1>4. CASE ToolBegins BY <1>4, ToolKeeps
<1>5. CASE RailSeeds \/ ForgetCommits BY <1>5, SeedKeeps, ForgetKeeps
<1>6. ASSUME NEW w \in Workers, Dies(w) PROVE RegistryInv' BY <1>6, DeathKeeps
<1> QED BY <1>1, <1>2, <1>3, <1>4, <1>5, <1>6, OthersKeep DEF Next

\* What the registry claims of a pair is stored (oracle_refresh_state.py, record_pull), for
\* any pairs, windows, ceilings, merges, failures and deaths: whatever lies between the
\* frontier of a pair and where its next refresh begins is held, or known to be skipped.
THEOREM RegistryClaimsHeld == Spec => []ClaimsHeld
<1>1. Init => RegistryInv BY RegistryStarts
<1>2. RegistryInv /\ [Next]_vars => RegistryInv' BY RegistryKeeps
<1>3. RegistryInv => ClaimsHeld BY DEF RegistryInv, Claims, ClaimsHeld
<1> QED BY <1>1, <1>2, <1>3, PTL DEF Spec

-----------------------------------------------------------------------------
(* The end of a subscription.  Once it is committed nobody registers the pairs  *)
(* again: the rail reads the roster under the lease forget has just held, and   *)
(* whoever read it before was either evicted or is the tool, which RosterInHand *)
(* both tells of.                                                               *)

Bare(table) == \A h \in Heads, p \in Pairs : ~table[h][p].in

ForgottenInv ==
  /\ at["rail"] /= "off" => Holding("rail")
  /\ ~confirmed /\ ~overtaken =>
       Bare(rows) /\ at["rail"] /= "seeding" /\ at["tool"] /= "stamping"

\* Nothing is recorded of a pair that is not registered.
LEMMA BareRecords ==
  ASSUME NEW table, NEW h \in Heads, NEW p \in Pairs, NEW reached, Bare(table)
  PROVE  Recorded(table, h, p, reached) = table
  BY DEF Bare, Recorded

\* A step after which the rail holds the lease if it runs, and that neither brings the
\* Oracle back nor registers it once it is gone.
LEMMA ForgottenRests ==
  ASSUME ForgottenInv, UNCHANGED <<confirmed, overtaken>>,
         at'["rail"] /= "off" => seat'["rail"] /= 0,
         ~confirmed /\ ~overtaken =>
           rows' = rows /\ at'["rail"] /= "seeding" /\ at'["tool"] /= "stamping"
  PROVE  ForgottenInv'
  BY DEF ForgottenInv, Bare, Holding

LEMMA SeatsOfOthers ==
  ASSUME RegistryInv, LeaseTypeOK, NEW p \in Holders \ {"rail"},
         Acquire(p) \/ Release(p) \/ Abandon(p)
  PROVE  seat'["rail"] = seat["rail"]
<1>1. "rail" \in Holders BY RefreshAssumption
<1> QED BY <1>1 DEF LeaseTypeOK, Acquire, Release, Abandon

LEMMA ForgottenPass ==
  ASSUME RegistryInv, LeaseTypeOK, ForgottenInv, NEW w \in {"rail", "loop"}, PassStep(w)
  PROVE  ForgottenInv'
<1>1. /\ w \in Workers /\ w /= "tool" /\ "tool" \in Workers /\ "rail" \in Workers
      /\ w \in Holders /\ "rail" \in Holders
  BY RefreshAssumption DEF Workers
<1>2. WorkShape /\ at \in [Workers -> Labels] BY DEF RegistryInv, WorkShape
<1>3. UNCHANGED <<confirmed, overtaken>>
  BY DEF PassStep, List, Pass, Take, Observed, Failed, Interrupted, PassEnds, Env
<1>4. PICK label \in {"listing", "passing", "walking", "off"} : at' = [at EXCEPT ![w] = label]
  <2>1. at = [at EXCEPT ![w] = at[w]] BY <1>2
  <2>2. Pass(w) => at[w] = "passing" BY DEF Pass
  <2>3. CASE List(w) \/ Failed(w) \/ Interrupted(w) \/ Observed(w) \/ PassEnds(w)
    BY <2>3 DEF List, Observed, Failed, Interrupted, PassEnds, Back, Off, Goto
  <2>4. CASE Pass(w)
    <3>1. UNCHANGED at \/ at' = [at EXCEPT ![w] = "walking"] BY <2>4 DEF Pass, Take, Goto
    <3> QED BY <2>1, <2>2, <2>4, <3>1
  <2> QED BY <2>3, <2>4 DEF PassStep
<1>5. at[w] /= "off"
  BY DEF PassStep, List, Pass, Observed, Failed, Interrupted, PassEnds
<1>6. at'["tool"] = at["tool"] BY <1>1, <1>2, <1>4
<1>7. at'["rail"] /= "seeding" \/ at'["rail"] = at["rail"] BY <1>1, <1>2, <1>4
<1>8. at'["rail"] /= "off" => seat'["rail"] /= 0
  <2>1. CASE UNCHANGED seat
    <3>1. at'["rail"] /= "off" => at["rail"] /= "off" BY <1>1, <1>2, <1>4, <1>5
    <3> QED BY <2>1, <3>1 DEF ForgottenInv, Holding
  <2>2. CASE Release(w) /\ Off(w)
    <3>1. CASE w = "rail" BY <1>1, <1>2, <2>2, <3>1 DEF Off, Goto
    <3>2. CASE w /= "rail"
      <4>1. seat'["rail"] = seat["rail"] BY <1>1, <2>2, <3>2, SeatsOfOthers
      <4>2. at'["rail"] = at["rail"] BY <1>1, <1>2, <1>4, <3>2
      <4> QED BY <4>1, <4>2 DEF ForgottenInv, Holding
    <3> QED BY <3>1, <3>2
  <2> QED BY <2>1, <2>2
      DEF PassStep, List, Pass, Take, Observed, Failed, Interrupted, PassEnds, leaseVars
<1>9. ~confirmed /\ ~overtaken => rows' = rows
  <2>1. CASE Observed(w)
    <3>1. TaskShape(task[w])
      BY <1>1, <1>2, <2>1 DEF Observed, WorkShape, Walking
    <3>2. PICK reached : rows' = Recorded(rows, task[w].head, task[w].pair, reached)
      BY <2>1 DEF Observed
    <3> QED BY <3>1, <3>2, BareRecords DEF ForgottenInv, TaskShape
  <2>2. CASE List(w) \/ Pass(w) \/ Failed(w) \/ Interrupted(w) \/ PassEnds(w)
    BY <2>2 DEF List, Pass, Take, Failed, Interrupted, PassEnds
  <2> QED BY <2>1, <2>2 DEF PassStep
<1> QED BY <1>3, <1>6, <1>7, <1>8, <1>9, ForgottenRests DEF ForgottenInv

LEMMA ForgottenTool ==
  ASSUME RegistryInv, ForgottenInv, ToolBegins \/ ToolStep PROVE ForgottenInv'
<1>1. "tool" \in Workers /\ "rail" \in Workers /\ at \in [Workers -> Labels]
  BY DEF Workers, RegistryInv, WorkShape
<1>2. UNCHANGED <<seat, confirmed, overtaken>>
  BY DEF ToolBegins, ToolStep, ToolWalks, ToolWalked, ToolStamps, ToolTurns, Env, leaseVars
<1>3. PICK label \in Labels : at' = [at EXCEPT !["tool"] = label] /\ (label = "stamping" => confirmed \/ label = at["tool"])
  <2>1. CASE ToolBegins BY <2>1 DEF ToolBegins, Goto, Labels
  <2>2. CASE ToolWalks BY <2>2 DEF ToolWalks, Goto, Labels
  <2>3. CASE ToolWalked BY <2>3 DEF ToolWalked, Goto, Labels
  <2>4. CASE ToolStamps BY <2>4 DEF ToolStamps, Back, Goto, Labels
  <2>5. CASE ToolTurns
    <3>1. at = [at EXCEPT !["tool"] = at["tool"]] /\ at["tool"] \in Labels BY <1>1
    <3>2. UNCHANGED at \/ at' = [at EXCEPT !["tool"] = "off"] BY <2>5 DEF ToolTurns, Off, Goto
    <3> QED BY <3>1, <3>2 DEF Labels
  <2> QED BY <2>1, <2>2, <2>3, <2>4, <2>5 DEF ToolStep
<1>4. at'["rail"] = at["rail"] /\ at'["tool"] = label BY <1>1, <1>3
<1>5. ~confirmed /\ ~overtaken => rows' = rows
  <2>1. CASE ToolStamps
    <3>1. SUFFICES ASSUME ~confirmed, ~overtaken PROVE rows' = rows OBVIOUS
    <3>2. at["tool"] = "recording" /\ Bare(rows) BY <2>1, <3>1 DEF ForgottenInv, ToolStamps
    <3>3. TaskShape(task["tool"]) /\ head \in Heads
      BY <1>1, <3>2 DEF RegistryInv, WorkShape, Walking
    <3>4. rows' = rows \/ rows' = Recorded(rows, head, task["tool"].pair, asked["tool"].reached)
      BY <2>1, <3>2 DEF ToolStamps
    <3> QED BY <3>2, <3>3, <3>4, BareRecords DEF TaskShape
  <2>2. CASE ToolBegins \/ ToolWalks \/ ToolWalked \/ ToolTurns
    BY <2>2 DEF ToolBegins, ToolWalks, ToolWalked, ToolTurns
  <2> QED BY <2>1, <2>2 DEF ToolStep
<1>6. at'["rail"] /= "off" => seat'["rail"] /= 0 BY <1>2, <1>4 DEF ForgottenInv, Holding
<1> QED BY <1>2, <1>3, <1>4, <1>5, <1>6, ForgottenRests DEF ForgottenInv

\* forget() commits under the lease: whoever holds it too has been evicted, or forget has.
LEMMA ForgottenCommit ==
  ASSUME RegistryInv, LeaseTypeOK, ForgottenInv, ForgetCommits PROVE ForgottenInv'
<1>1. "rail" \in Holders /\ "forget" \in Holders BY RefreshAssumption
<1>2. UNCHANGED at BY DEF ForgetCommits, passVars
<1>3. seat'["rail"] = seat["rail"] BY <1>1, SeatsOfOthers DEF ForgetCommits
<1>4. Bare(rows)'
  <2>1. rows' = [h \in Heads |-> [p \in Pairs |-> NoRow]] BY DEF ForgetCommits
  <2> QED BY <2>1, NoRowShape DEF Bare
<1>5. ~overtaken' => at["tool"] /= "stamping" BY DEF ForgetCommits, RosterInHand
<1>6. ~overtaken' => at["rail"] /= "seeding"
  <2> SUFFICES ASSUME ~overtaken', at["rail"] = "seeding" PROVE FALSE OBVIOUS
  <2>1. ~Evicted("rail") /\ ~Evicted("forget") BY DEF ForgetCommits, RosterInHand
  <2>2. Holding("rail") /\ Holding("forget") BY DEF ForgottenInv, ForgetCommits
  <2>3. lock.holder = "rail" /\ lock.holder = "forget" BY <2>1, <2>2 DEF Evicted, Ours
  <2> QED BY <2>3
<1> QED BY <1>2, <1>3, <1>4, <1>5, <1>6 DEF ForgottenInv, Holding

LEMMA ForgottenKeeps ==
  ASSUME RegistryInv, LeaseTypeOK, ForgottenInv, [Next]_vars PROVE ForgottenInv'
<1>1. /\ "rail" \in Holders /\ "loop" \in Holders /\ "forget" \in Holders
      /\ "rail" \in Workers /\ "tool" \in Workers /\ at \in [Workers -> Labels]
  BY RefreshAssumption DEF Workers, RegistryInv, WorkShape
<1>2. ASSUME NEW w \in {"rail", "loop"}, PassStep(w) PROVE ForgottenInv'
  BY <1>2, ForgottenPass
<1>3. CASE ToolBegins \/ ToolStep BY <1>3, ForgottenTool
<1>4. CASE ForgetCommits BY <1>4, ForgottenCommit
<1>5. CASE RailBegins
  <2>1. /\ UNCHANGED <<confirmed, overtaken, rows>>
        /\ at' = [at EXCEPT !["rail"] = IF confirmed THEN "seeding" ELSE "listing"]
    BY <1>5 DEF RailBegins, Env, Goto
  <2>2. seat'["rail"] /= 0
    <3>1. seat' = [seat EXCEPT !["rail"] = NextEpoch] BY <1>5 DEF RailBegins, Acquire
    <3> QED BY <1>1, <3>1, NextEpochType DEF LeaseTypeOK
  <2>3. at'["tool"] = at["tool"] /\ (~confirmed => at'["rail"] /= "seeding") BY <1>1, <2>1
  <2> QED BY <2>1, <2>2, <2>3, ForgottenRests DEF ForgottenInv
<1>6. CASE RailSeeds
  <2>1. /\ UNCHANGED <<confirmed, overtaken, seat>> /\ at["rail"] = "seeding"
        /\ at' = [at EXCEPT !["rail"] = "listing"]
    BY <1>6 DEF RailSeeds, Env, Goto, leaseVars
  <2>2. seat'["rail"] /= 0 BY <2>1 DEF ForgottenInv, Holding
  <2>3. confirmed \/ overtaken BY <2>1 DEF ForgottenInv
  <2> QED BY <2>1, <2>2, <2>3, ForgottenRests
<1>7. CASE LoopBegins
  <2>1. UNCHANGED <<confirmed, overtaken, rows>> /\ at' = [at EXCEPT !["loop"] = "listing"]
    BY <1>7 DEF LoopBegins, Env, Goto
  <2>2. seat'["rail"] = seat["rail"] BY <1>1, <1>7, SeatsOfOthers DEF LoopBegins
  <2>3. at'["rail"] = at["rail"] /\ at'["tool"] = at["tool"] BY <1>1, <2>1
  <2> QED BY <2>1, <2>2, <2>3, ForgottenRests DEF ForgottenInv, Holding
<1>8. CASE ForgetBegins
  <2>1. UNCHANGED <<confirmed, overtaken, rows, at>> BY <1>8 DEF ForgetBegins, Env, passVars
  <2>2. seat'["rail"] = seat["rail"] BY <1>1, <1>8, SeatsOfOthers DEF ForgetBegins
  <2> QED BY <2>1, <2>2, ForgottenRests DEF ForgottenInv, Holding
<1>9. ASSUME NEW w \in Workers, Dies(w) PROVE ForgottenInv'
  <2>1. /\ UNCHANGED <<confirmed, overtaken, rows>> /\ at' = [at EXCEPT ![w] = "off"]
    BY <1>9 DEF Dies, Off, Goto
  <2>2. at'["rail"] \in {at["rail"], "off"} /\ at'["tool"] \in {at["tool"], "off"}
    BY <1>1, <2>1
  <2>3. at'["rail"] /= "off" => seat'["rail"] = seat["rail"]
    <3> SUFFICES ASSUME at'["rail"] /= "off" PROVE seat'["rail"] = seat["rail"] OBVIOUS
    <3>1. w /= "rail" BY <1>1, <2>1
    <3>2. CASE w = "tool" BY <1>9, <3>2 DEF Dies, leaseVars
    <3>3. CASE w /= "tool"
      <4>1. w = "loop" /\ w \in Holders \ {"rail"} BY <1>1, <3>1, <3>3 DEF Workers
      <4> QED BY <1>9, <3>3, <4>1, SeatsOfOthers DEF Dies
    <3> QED BY <3>2, <3>3
  <2> QED BY <2>1, <2>2, <2>3, ForgottenRests DEF ForgottenInv, Holding
<1>10. CASE \/ ClusterMerges \/ Tick \/ Silence \/ UNCHANGED vars
            \/ \E p \in Holders : Beats(p)
  <2>1. UNCHANGED <<confirmed, overtaken, rows, at, seat>>
    BY <1>10 DEF ClusterMerges, Tick, Silence, Beats, Beat, LeaseTick, leaseVars, vars, Env, passVars
  <2> QED BY <2>1, ForgottenRests DEF ForgottenInv, Holding
<1> QED BY <1>2, <1>3, <1>4, <1>5, <1>6, <1>7, <1>8, <1>9, <1>10 DEF Next

\* forget() (oracles.py) takes the person off for good, for any pairs, merges, passes, pulls and
\* deaths: once the subscription is gone no registration is left or comes back, unless
\* forget ran over a writer that had the roster in hand and no lease to be kept out by.
THEOREM ForgottenIsGone == Spec => []Unsubscribed
<1>1. Init => LeaseInv /\ RegistryInv /\ ForgottenInv
  <2>1. Init => ForgottenInv BY DEF Init, ForgottenInv, Workers
  <2> QED BY <2>1, LeaseStarts, RegistryStarts DEF Init
<1>2. LeaseInv /\ RegistryInv /\ ForgottenInv /\ [Next]_vars
        => LeaseInv' /\ RegistryInv' /\ ForgottenInv'
  BY LeaseKeeps, PassesUseLease, RegistryKeeps, ForgottenKeeps DEF LeaseInv
<1>3. ForgottenInv => Unsubscribed BY DEF ForgottenInv, Bare, Unsubscribed
<1> QED BY <1>1, <1>2, <1>3, PTL DEF Spec
=============================================================================
