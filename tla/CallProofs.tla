------------------------------ MODULE CallProofs ------------------------------
(***************************************************************************)
(* Proofs about ModelCalls, for any number of callers, gates and limits:   *)
(* at the concurrency gates no caller sleeps beside a free slot, and a     *)
(* tripped service is tried once per cooldown.                             *)
(***************************************************************************)
EXTENDS ModelCalls, FiniteSetTheorems, TLAPS

\* What the steps of the gates keep: their types, as far as the argument needs
\* them, and enough woken callers for the free slots.
GateInv ==
  /\ limit \in [Gates -> Nat] /\ \A g \in Gates : limit[g] >= MIN_PERMITS
  /\ inUse \in [Gates -> Int]
  /\ waiting \in [Gates -> SUBSET Callers]
  /\ woken \in [Gates -> SUBSET Callers]
  /\ \A g \in Gates : waiting[g] \cap woken[g] = {}
  /\ NoLostWakeup

\* Every kind of call has a gate.
LEMMA GateIsGate == \A kind : GateOf(kind) \in Gates
  BY WorkAssumption DEF GateOf

\* Callers are finitely many, so the woken ones can be counted.
LEMMA WokenFinite ==
  ASSUME woken \in [Gates -> SUBSET Callers], NEW g \in Gates
  PROVE  IsFiniteSet(woken[g]) /\ Cardinality(woken[g]) \in Nat
<1>1. IsFiniteSet(woken[g])
  BY FS_Subset, GateAssumption
<1>2. QED
  BY <1>1, FS_CardinalityType

\* Entering (concurrency.py, __enter__) takes one slot and at most one woken caller.
LEMMA EnterKeeps ==
  ASSUME GateInv, NEW g \in Gates, NEW c \in Callers, Enter(g, c)
  PROVE  GateInv'
<1>1. /\ inUse' \in [Gates -> Int] /\ woken' \in [Gates -> SUBSET Callers]
      /\ \A h \in Gates : waiting[h] \cap woken'[h] = {}
  BY DEF GateInv, Enter
<1>2. ASSUME NEW h \in Gates, waiting[h] /= {}
      PROVE  limit[h] - inUse'[h] <= Cardinality(woken'[h])
  <2>1. CASE h /= g
    BY <1>2, <2>1 DEF GateInv, Enter, NoLostWakeup
  <2>2. CASE h = g
    <3>1. inUse'[h] = inUse[h] + 1 /\ woken'[h] = woken[h] \ {c}
      BY <2>2 DEF GateInv, Enter
    <3>2. IsFiniteSet(woken[h]) /\ Cardinality(woken[h]) \in Nat
      BY WokenFinite DEF GateInv
    <3>3. Cardinality(woken'[h]) >= Cardinality(woken[h]) - 1
      <4>1. CASE c \in woken[h]
        <5>1. Cardinality(woken[h] \ {c}) = Cardinality(woken[h]) - 1
          BY <3>2, <4>1, FS_RemoveElement
        <5>2. QED
          BY <3>1, <3>2, <5>1
      <4>2. CASE c \notin woken[h]
        <5>1. woken'[h] = woken[h]
          BY <3>1, <4>2
        <5>2. QED
          BY <5>1, <3>2
      <4>3. QED
        BY <4>1, <4>2
    <3>4. Cardinality(woken'[h]) \in Int
      BY <1>1, <3>1, <3>2, FS_Subset, FS_CardinalityType
    <3>5. limit[h] \in Int /\ inUse[h] \in Int /\ limit[h] - inUse[h] <= Cardinality(woken[h])
      BY <1>2 DEF GateInv, NoLostWakeup
    <3>6. QED
      BY <3>1, <3>2, <3>3, <3>4, <3>5
  <2>3. QED
    BY <2>1, <2>2
<1>3. QED
  BY <1>1, <1>2 DEF GateInv, Enter, NoLostWakeup

\* Going (back) to sleep happens only when no slot is free.
LEMMA WaitKeeps ==
  ASSUME GateInv, NEW g \in Gates, NEW c \in Callers, Wait(g, c)
  PROVE  GateInv'
<1>1. /\ waiting' \in [Gates -> SUBSET Callers] /\ woken' \in [Gates -> SUBSET Callers]
      /\ \A h \in Gates : waiting'[h] \cap woken'[h] = {}
  BY DEF GateInv, Wait
<1>2. ASSUME NEW h \in Gates, waiting'[h] /= {}
      PROVE  limit[h] - inUse[h] <= Cardinality(woken'[h])
  <2>1. Cardinality(woken'[h]) \in Nat
    <3>1. IsFiniteSet(woken'[h])
      BY <1>1, FS_Subset, GateAssumption
    <3>2. QED
      BY <3>1, FS_CardinalityType
  <2>2. CASE h /= g
    BY <1>2, <2>2 DEF GateInv, Wait, NoLostWakeup
  <2>3. CASE h = g
    BY <2>1, <2>3 DEF GateInv, Wait
  <2>4. QED
    BY <2>2, <2>3
<1>3. QED
  BY <1>1, <1>2 DEF GateInv, Wait, NoLostWakeup

\* One slot more, by a departure or a raised limit, and one notification.
LEMMA NotifyKeeps ==
  ASSUME GateInv, NEW g \in Gates, Notify(g),
         limit' \in [Gates -> Nat], inUse' \in [Gates -> Int],
         \A h \in Gates : limit'[h] >= MIN_PERMITS,
         \A h \in Gates \ {g} : limit'[h] - inUse'[h] = limit[h] - inUse[h],
         limit'[g] - inUse'[g] <= limit[g] - inUse[g] + 1
  PROVE  GateInv'
<1>1. CASE waiting[g] = {} /\ UNCHANGED <<waiting, woken>>
  BY <1>1 DEF GateInv, NoLostWakeup
<1>2. ASSUME NEW w \in waiting[g],
             waiting' = [waiting EXCEPT ![g] = @ \ {w}],
             woken' = [woken EXCEPT ![g] = @ \cup {w}]
      PROVE  GateInv'
  <2>1. /\ waiting' \in [Gates -> SUBSET Callers] /\ woken' \in [Gates -> SUBSET Callers]
        /\ \A h \in Gates : waiting'[h] \cap woken'[h] = {}
    BY <1>2 DEF GateInv
  <2>2. ASSUME NEW h \in Gates, waiting'[h] /= {}
        PROVE  limit'[h] - inUse'[h] <= Cardinality(woken'[h])
    <3>1. CASE h /= g
      BY <1>2, <2>2, <3>1 DEF GateInv, NoLostWakeup
    <3>2. CASE h = g
      <4>1. IsFiniteSet(woken[g]) /\ Cardinality(woken[g]) \in Nat
        BY WokenFinite DEF GateInv
      <4>2. w \notin woken[g] /\ woken'[g] = woken[g] \cup {w}
        BY <1>2 DEF GateInv
      <4>3. Cardinality(woken'[g]) = Cardinality(woken[g]) + 1
        BY <4>1, <4>2, FS_AddElement
      <4>4. limit[g] - inUse[g] <= Cardinality(woken[g])
        BY <1>2 DEF GateInv, NoLostWakeup
      <4>5. limit[g] \in Int /\ inUse[g] \in Int /\ limit'[g] \in Int /\ inUse'[g] \in Int
        BY DEF GateInv
      <4>6. QED
        BY <3>2, <4>1, <4>3, <4>4, <4>5
    <3>3. QED
      BY <3>1, <3>2
  <2>3. QED
    BY <2>1, <2>2 DEF GateInv, NoLostWakeup
<1>3. QED
  BY <1>1, <1>2 DEF Notify

LEMMA LeaveKeeps ==
  ASSUME GateInv, NEW g \in Gates, Leave(g)
  PROVE  GateInv'
<1>1. /\ limit' \in [Gates -> Nat] /\ inUse' \in [Gates -> Int] /\ limit' = limit
      /\ \A h \in Gates \ {g} : inUse'[h] = inUse[h]
      /\ inUse'[g] = inUse[g] - 1
  BY DEF GateInv, Leave
<1>2. QED
  BY <1>1, NotifyKeeps DEF GateInv, Leave

LEMMA CleanCallKeeps ==
  ASSUME GateInv, NEW g \in Gates, CleanCall(g)
  PROVE  GateInv'
<1>1. CASE UNCHANGED <<limit, waiting, woken>>
  BY <1>1 DEF GateInv, CleanCall, NoLostWakeup
<1>2. CASE limit' = [limit EXCEPT ![g] = @ + 1] /\ Notify(g)
  <2>1. /\ limit' \in [Gates -> Nat] /\ inUse' = inUse
        /\ \A h \in Gates : limit'[h] >= MIN_PERMITS
        /\ \A h \in Gates \ {g} : limit'[h] = limit[h]
        /\ limit'[g] = limit[g] + 1
    BY <1>2, GateAssumption DEF GateInv, CleanCall
  <2>2. QED
    BY <1>2, <2>1, NotifyKeeps DEF GateInv
<1>3. QED
  BY <1>1, <1>2 DEF CleanCall

\* Halving never raises a limit, because no limit is below the floor.
LEMMA DecreaseKeeps ==
  ASSUME GateInv, NEW g \in Gates, Decrease(g)
  PROVE  GateInv'
<1>1. /\ limit' \in [Gates -> Nat] /\ inUse' = inUse /\ waiting' = waiting /\ woken' = woken
      /\ \A h \in Gates : limit'[h] >= MIN_PERMITS /\ limit'[h] <= limit[h]
  BY GateAssumption DEF GateInv, Decrease
<1>2. ASSUME NEW h \in Gates, waiting[h] /= {}
      PROVE  limit'[h] - inUse[h] <= Cardinality(woken[h])
  <2>1. Cardinality(woken[h]) \in Nat
    BY WokenFinite DEF GateInv
  <2>2. QED
    BY <1>1, <1>2, <2>1 DEF GateInv, NoLostWakeup
<1>3. QED
  BY <1>1, <1>2 DEF GateInv, NoLostWakeup

\* At no gate does a caller sleep beside a free slot that nobody was woken for
\* (pipeline/concurrency.py), however many threads embed, grade and read.
THEOREM GatesWake == Spec => []NoLostWakeup
<1>1. Init => GateInv
  BY GateAssumption, FS_EmptySet DEF Init, GateInit, GateInv, NoLostWakeup
<1>2. GateInv /\ [Next]_vars => GateInv'
  <2> SUFFICES ASSUME GateInv, [Next]_vars PROVE GateInv'
    OBVIOUS
  <2>1. CASE UNCHANGED gateVars
    BY <2>1 DEF gateVars, GateInv, NoLostWakeup
  <2>2. ASSUME NEW c \in Callers, EnterGate(c) PROVE GateInv'
    BY <2>2, GateIsGate, EnterKeeps, WaitKeeps DEF EnterGate
  <2>3. ASSUME NEW c \in Callers, SlowInside(c) PROVE GateInv'
    BY <2>3, GateIsGate, DecreaseKeeps DEF SlowInside
  <2>4. ASSUME NEW c \in Callers, LeaveGate(c) PROVE GateInv'
    BY <2>4, GateIsGate, LeaveKeeps DEF LeaveGate
  <2>5. ASSUME NEW c \in Callers, End(c) PROVE GateInv'
    BY <2>1, <2>5, GateIsGate, CleanCallKeeps, DecreaseKeeps DEF End, Tune
  <2>6. ASSUME NEW c \in Callers, Begin(c) \/ NoOcrModel(c) \/ Answer(c) PROVE UNCHANGED gateVars
    BY <2>6 DEF Begin, NoOcrModel, Answer
  <2>7. Tick => UNCHANGED gateVars
    BY DEF Tick
  <2>8. QED
    BY <2>1, <2>2, <2>3, <2>4, <2>5, <2>6, <2>7 DEF Next, CallerStep, vars
<1>3. GateInv => NoLostWakeup
  BY DEF GateInv
<1>4. QED
  BY <1>1, <1>2, <1>3, PTL DEF Spec

-----------------------------------------------------------------------------
(* The breakers.  A tripped breaker was last stamped no earlier than its last *)
(* trial was granted, so one whose stamp is a cooldown old has granted none   *)
(* for a cooldown.                                                            *)

BreakerRecord == [state : {"closed", "open", "half_open"}, fails : Nat, age : Nat]
Labels == {"idle", "entering", "calling", "slowing", "leaving", "left"}

BreakerInv ==
  /\ breaker \in [Services -> BreakerRecord]
  /\ sinceTrial \in [Services -> Nat]
  /\ pc \in [Callers -> Labels]
  /\ \A s \in Services : breaker[s].state /= "closed" => breaker[s].age <= sinceTrial[s]

\* What the breakers' own steps keep.
StampsHold ==
  /\ breaker \in [Services -> BreakerRecord]
  /\ sinceTrial \in [Services -> Nat]
  /\ \A s \in Services : breaker[s].state /= "closed" => breaker[s].age <= sinceTrial[s]

LEMMA ServiceIsService == \A kind : Service(kind) \in Services
  BY WorkAssumption DEF Service

LEMMA AllowStamps ==
  ASSUME StampsHold, NEW s \in Services, Allow(s) PROVE StampsHold'
<1>1. CASE breaker[s].state = "closed" BY <1>1 DEF Allow, StampsHold, breakerVars
<1>2. CASE breaker[s].state /= "closed"
  <2> DEFINE q == [breaker[s] EXCEPT !.state = "half_open", !.age = 0]
  <2>1. breaker' = [breaker EXCEPT ![s] = q] /\ sinceTrial' = [sinceTrial EXCEPT ![s] = 0]
    BY <1>2 DEF Allow, StampsHold
  <2>2. q \in BreakerRecord /\ q.age = 0 BY DEF StampsHold, BreakerRecord
  <2> HIDE DEF q
  <2> QED BY <2>1, <2>2 DEF StampsHold
<1> QED BY <1>1, <1>2

LEMMA SuccessStamps ==
  ASSUME StampsHold, NEW s \in Services, RecordSuccess(s) PROVE StampsHold'
<1>1. Closed \in BreakerRecord /\ Closed.state = "closed"
  BY BreakerAssumption DEF Closed, BreakerRecord
<1> QED BY <1>1 DEF RecordSuccess, StampsHold

LEMMA FailureStamps ==
  ASSUME StampsHold, NEW s \in Services, RecordFailure(s) PROVE StampsHold'
<1> DEFINE fails == AtMost(breaker[s].fails + 1, THRESHOLD)
<1>1. breaker[s] \in BreakerRecord /\ sinceTrial[s] \in Nat BY DEF StampsHold
<1>2. fails \in Nat BY <1>1, BreakerAssumption DEF AtMost, BreakerRecord
<1>3. PICK q : /\ breaker' = [breaker EXCEPT ![s] = q]
               /\ \/ q = [breaker[s] EXCEPT !.state = "open", !.age = 0]
                  \/ q = [state |-> "open", fails |-> fails, age |-> 0]
                  \/ q = [breaker[s] EXCEPT !.fails = fails]
  BY DEF RecordFailure, StampsHold
<1>4. sinceTrial' = sinceTrial BY DEF RecordFailure
<1> HIDE DEF fails
<1>5. /\ q \in BreakerRecord
      /\ q.age = 0 \/ (q.age = breaker[s].age /\ q.state = breaker[s].state)
  <2>1. CASE q = [breaker[s] EXCEPT !.state = "open", !.age = 0]
    BY <1>1, <2>1 DEF BreakerRecord
  <2>2. CASE q = [state |-> "open", fails |-> fails, age |-> 0]
    BY <1>2, <2>2 DEF BreakerRecord
  <2>3. CASE q = [breaker[s] EXCEPT !.fails = fails]
    BY <1>1, <1>2, <2>3 DEF BreakerRecord
  <2> QED BY <1>3, <2>1, <2>2, <2>3
<1> QED BY <1>1, <1>3, <1>4, <1>5 DEF StampsHold

LEMMA AgesStamp == ASSUME StampsHold, BreakerAges PROVE StampsHold'
<1>1. ASSUME NEW s \in Services
      PROVE  /\ breaker'[s] \in BreakerRecord /\ sinceTrial'[s] \in Nat
             /\ breaker'[s].state /= "closed" => breaker'[s].age <= sinceTrial'[s]
  <2>1. breaker[s] \in BreakerRecord /\ sinceTrial[s] \in Nat BY DEF StampsHold
  <2>2. /\ breaker'[s] = [breaker[s] EXCEPT !.age = AtMost(breaker[s].age + 1, COOLDOWN)]
        /\ sinceTrial'[s] = AtMost(sinceTrial[s] + 1, COOLDOWN)
    BY DEF BreakerAges
  <2>3. PICK a \in Nat, t \in Nat :
          a = AtMost(breaker[s].age + 1, COOLDOWN) /\ t = AtMost(sinceTrial[s] + 1, COOLDOWN)
    BY <2>1, BreakerAssumption DEF AtMost, BreakerRecord
  <2>4. breaker[s].age <= sinceTrial[s] => a <= t
    BY <2>1, <2>3, BreakerAssumption DEF AtMost, BreakerRecord
  <2>5. breaker'[s] \in BreakerRecord /\ breaker'[s].age = a
        /\ breaker'[s].state = breaker[s].state
    BY <2>1, <2>2, <2>3 DEF BreakerRecord
  <2> QED BY <2>2, <2>3, <2>4, <2>5 DEF StampsHold
<1>2. /\ breaker' = [s \in Services |-> breaker'[s]]
      /\ sinceTrial' = [s \in Services |-> sinceTrial'[s]]
  BY DEF BreakerAges
<1> QED BY <1>1, <1>2 DEF StampsHold

\* Where a step can take the program counters.
LEMMA CountersTyped ==
  ASSUME pc \in [Callers -> Labels], [Next]_vars PROVE pc' \in [Callers -> Labels]
<1>1. CASE UNCHANGED pc BY <1>1
<1>2. ASSUME NEW c \in Callers, NEW label \in Labels, Goto(c, label) PROVE pc' \in [Callers -> Labels]
  BY <1>2 DEF Goto
<1>3. ASSUME NEW c \in Callers, Idle(c) PROVE pc' \in [Callers -> Labels]
  <2>1. Goto(c, "idle") BY <1>3 DEF Idle
  <2> QED BY <2>1, <1>2 DEF Labels
<1>4. ASSUME NEW c \in Callers, CallerStep(c) PROVE pc' \in [Callers -> Labels]
  <2>1. CASE Begin(c) BY <2>1, <1>2 DEF Begin, Labels
  <2>2. CASE NoOcrModel(c) BY <2>2, <1>1 DEF NoOcrModel
  <2>3. CASE EnterGate(c) BY <2>3, <1>1, <1>2 DEF EnterGate, Ask, Labels
  <2>4. CASE Answer(c)
    <3>1. PICK o : Goto(c, IF o = "limited" /\ job[c].kind \in {"embed", "grade"}
                           THEN "slowing" ELSE "leaving")
      BY <2>4 DEF Answer
    <3>2. Goto(c, "slowing") \/ Goto(c, "leaving") BY <3>1 DEF Goto
    <3> QED BY <3>2, <1>2 DEF Labels
  <2>5. CASE SlowInside(c) BY <2>5, <1>2 DEF SlowInside, Labels
  <2>6. CASE LeaveGate(c) BY <2>6, <1>2 DEF LeaveGate, Labels
  <2>7. CASE End(c)
    <3>1. Idle(c) \/ Goto(c, "entering")
      BY <2>7 DEF End, EndEmbed, EndGrade, EndOcr, EndChart, Finish, GiveUp
    <3> QED BY <3>1, <1>2, <1>3 DEF Labels
  <2> QED BY <1>4, <2>1, <2>2, <2>3, <2>4, <2>5, <2>6, <2>7 DEF CallerStep
<1> QED BY <1>1, <1>4 DEF Next, Tick, vars

LEMMA BreakersStep == ASSUME BreakerInv, [Next]_vars PROVE BreakerInv'
<1>1. StampsHold BY DEF BreakerInv, StampsHold
<1>2. UNCHANGED breakerVars => StampsHold' BY <1>1 DEF StampsHold, breakerVars
<1>3. StampsHold'
  <2>1. CASE UNCHANGED vars BY <1>2, <2>1 DEF vars
  <2>2. CASE Tick BY <1>1, <2>2, AgesStamp DEF Tick, BreakerTick
  <2>3. ASSUME NEW c \in Callers, CallerStep(c) PROVE StampsHold'
    <3>1. CASE EnterGate(c)
      BY <1>1, <1>2, <3>1, ServiceIsService, AllowStamps DEF EnterGate, Ask
    <3>2. CASE Answer(c)
      BY <1>1, <1>2, <3>2, ServiceIsService, SuccessStamps, FailureStamps DEF Answer
    <3>3. CASE Begin(c) \/ NoOcrModel(c) \/ SlowInside(c) \/ LeaveGate(c) \/ End(c)
      BY <1>2, <3>3 DEF Begin, NoOcrModel, SlowInside, LeaveGate, End
    <3> QED BY <2>3, <3>1, <3>2, <3>3 DEF CallerStep
  <2> QED BY <2>1, <2>2, <2>3 DEF Next
<1>4. pc' \in [Callers -> Labels] BY CountersTyped DEF BreakerInv
<1> QED BY <1>3, <1>4 DEF BreakerInv, StampsHold

\* Who goes from entering to calling was let through by the breaker of its service.
LEMMA OnlyLetThrough ==
  ASSUME BreakerInv, [Next]_vars, NEW c \in Callers, pc[c] = "entering", pc'[c] = "calling"
  PROVE  Peek(Service(job[c].kind))
<1>1. pc \in [Callers -> Labels] BY DEF BreakerInv
<1>2. \A d \in Callers, label \in Labels : Goto(d, label) => c = d /\ label = "calling"
  BY <1>1 DEF Goto, Labels
<1>3. ~UNCHANGED pc OBVIOUS
<1>4. PICK d \in Callers : CallerStep(d) BY <1>3 DEF Next, Tick, vars
<1>5. EnterGate(d)
  <2>1. ~Begin(d) /\ ~SlowInside(d) /\ ~LeaveGate(d)
    BY <1>2 DEF Begin, SlowInside, LeaveGate, Labels
  <2>2. ~NoOcrModel(d) BY <1>3 DEF NoOcrModel
  <2>3. ~Answer(d)
    <3> SUFFICES ASSUME Answer(d) PROVE FALSE OBVIOUS
    <3>1. PICK o : Goto(d, IF o = "limited" /\ job[d].kind \in {"embed", "grade"}
                           THEN "slowing" ELSE "leaving")
      BY DEF Answer
    <3>2. Goto(d, "slowing") \/ Goto(d, "leaving") BY <3>1 DEF Goto
    <3> QED BY <3>2, <1>2 DEF Labels
  <2>4. ~End(d)
    <3> SUFFICES ASSUME End(d) PROVE FALSE OBVIOUS
    <3>1. Goto(d, "idle") \/ Goto(d, "entering")
      BY DEF End, EndEmbed, EndGrade, EndOcr, EndChart, Finish, GiveUp, Idle
    <3> QED BY <3>1, <1>2 DEF Labels
  <2> QED BY <1>4, <2>1, <2>2, <2>3, <2>4 DEF CallerStep
<1>6. Ask(d) BY <1>3, <1>5 DEF EnterGate
<1>7. Goto(d, "calling") /\ Allow(Service(job[d].kind))
  BY <1>2, <1>6 DEF Ask, Labels
<1>8. c = d BY <1>2, <1>7 DEF Labels
<1> QED BY <1>7, <1>8 DEF Allow

\* However many threads and processes ask at once, a service that is down gets one trial
\* per cooldown (circuit_breaker.py, allow), whatever threshold and cooldown it has.
THEOREM OneTrialPerCooldown == Spec => TrialsSpaced
<1>1. Init => BreakerInv
  BY BreakerAssumption DEF Init, BreakerInit, BreakerInv, Closed, BreakerRecord, Labels
<1>2. BreakerInv /\ [Next]_vars => BreakerInv' BY BreakersStep
<1>3. BreakerInv /\ [Next]_vars =>
        [\A c \in Callers :
           LET s == Service(job[c].kind)
           IN pc[c] = "entering" /\ pc'[c] = "calling" /\ breaker[s].state /= "closed"
              => sinceTrial[s] >= COOLDOWN]_vars
  <2> SUFFICES ASSUME BreakerInv, [Next]_vars, NEW c \in Callers, NEW s \in Services,
                      s = Service(job[c].kind), pc[c] = "entering", pc'[c] = "calling",
                      breaker[s].state /= "closed"
               PROVE  sinceTrial[s] >= COOLDOWN
    BY ServiceIsService
  <2>1. breaker[s].age >= COOLDOWN BY OnlyLetThrough DEF Peek
  <2>2. /\ breaker[s].age \in Nat /\ sinceTrial[s] \in Nat
        /\ breaker[s].age <= sinceTrial[s]
    BY DEF BreakerInv, BreakerRecord
  <2> QED BY <2>1, <2>2, BreakerAssumption
<1> QED BY <1>1, <1>2, <1>3, PTL DEF Spec, TrialsSpaced
=============================================================================
