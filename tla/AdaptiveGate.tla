----------------------------- MODULE AdaptiveGate -----------------------------
(***************************************************************************)
(* The process-wide concurrency gates (pipeline/concurrency.py,            *)
(* AdaptiveSemaphore): a limit that climbs by one after a wave of          *)
(* successes and is halved on a 429, and a condition variable that callers *)
(* wait on while in_use >= limit.  One action is one critical section of   *)
(* the condition's lock; being notified and running again are two steps,   *)
(* so a newcomer may take the slot first.                                  *)
(***************************************************************************)
EXTENDS Integers, FiniteSets

CONSTANTS
  Gates,         \* the module-level gates
  Callers,       \* threads
  START,         \* the limit a gate starts with
  MIN_PERMITS,
  MAX_PERMITS,
  INCREASE_AFTER \* successes in a row that raise the limit

ASSUME GateAssumption ==
  /\ IsFiniteSet(Callers)
  /\ START \in Nat /\ MIN_PERMITS \in Nat \ {0} /\ MAX_PERMITS \in Nat
  /\ MIN_PERMITS <= START /\ START <= MAX_PERMITS
  /\ INCREASE_AFTER \in Nat \ {0}

VARIABLES
  limit,         \* _limit
  inUse,         \* _in_use
  successRun,    \* _success_run, counted up to INCREASE_AFTER
  waiting,       \* callers asleep in _cond.wait()
  woken          \* callers notified that have not looked at the limit yet

gateVars == <<limit, inUse, successRun, waiting, woken>>

GateInit ==
  /\ limit = [g \in Gates |-> START]
  /\ inUse = [g \in Gates |-> 0]
  /\ successRun = [g \in Gates |-> 0]
  /\ waiting = [g \in Gates |-> {}]
  /\ woken = [g \in Gates |-> {}]

\* __enter__, its wait loop's test: in, or asleep (again).
Enter(g, c) ==
  /\ inUse[g] < limit[g]
  /\ inUse' = [inUse EXCEPT ![g] = @ + 1]
  /\ woken' = [woken EXCEPT ![g] = @ \ {c}]
  /\ UNCHANGED <<limit, successRun, waiting>>

Wait(g, c) ==
  /\ inUse[g] >= limit[g]
  /\ waiting' = [waiting EXCEPT ![g] = @ \cup {c}]
  /\ woken' = [woken EXCEPT ![g] = @ \ {c}]
  /\ UNCHANGED <<limit, inUse, successRun>>

\* _cond.notify(): wakes one waiter, if there is one.
Notify(g) ==
  \/ waiting[g] = {} /\ UNCHANGED <<waiting, woken>>
  \/ \E w \in waiting[g] :
       /\ waiting' = [waiting EXCEPT ![g] = @ \ {w}]
       /\ woken' = [woken EXCEPT ![g] = @ \cup {w}]

\* A slip: wakes a waiter only when the slot that became free is below the limit
\* that was in force before the departure.
Leave_NotifiesIfFree(g) ==
  /\ inUse' = [inUse EXCEPT ![g] = @ - 1]
  /\ IF inUse[g] < limit[g] THEN Notify(g) ELSE UNCHANGED <<waiting, woken>>
  /\ UNCHANGED <<limit, successRun>>

\* __exit__
Leave(g) ==
  /\ inUse' = [inUse EXCEPT ![g] = @ - 1]
  /\ Notify(g)
  /\ UNCHANGED <<limit, successRun>>

\* record_success(): a full wave of successes raises the limit by one.
CleanCall(g) ==
  LET run == IF successRun[g] < INCREASE_AFTER THEN successRun[g] + 1 ELSE INCREASE_AFTER
  IN /\ UNCHANGED inUse
     /\ IF run >= INCREASE_AFTER /\ limit[g] < MAX_PERMITS
        THEN /\ limit' = [limit EXCEPT ![g] = @ + 1]
             /\ successRun' = [successRun EXCEPT ![g] = 0]
             /\ Notify(g)
        ELSE /\ successRun' = [successRun EXCEPT ![g] = run]
             /\ UNCHANGED <<limit, waiting, woken>>

\* decrease()
Decrease(g) ==
  /\ successRun' = [successRun EXCEPT ![g] = 0]
  /\ limit' = [limit EXCEPT ![g] = IF @ \div 2 < MIN_PERMITS THEN MIN_PERMITS ELSE @ \div 2]
  /\ UNCHANGED <<inUse, waiting, woken>>

\* No caller sleeps while a slot is free that nobody has been woken for:
\* however halvings, raises, departures and newcomers interleave, there are
\* at least as many notified callers as free slots.
NoLostWakeup ==
  \A g \in Gates : waiting[g] /= {} => limit[g] - inUse[g] <= Cardinality(woken[g])
=============================================================================
