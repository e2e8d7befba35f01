---------------------------- MODULE CircuitBreaker ----------------------------
(***************************************************************************)
(* The persisted circuit breaker (pipeline/circuit_breaker.py): one row    *)
(* per external service, every decision one transaction on it, shared by   *)
(* all threads and processes of a home.                                    *)
(*                                                                         *)
(* Time is kept as ages: age is the time since opened_at, counted in ticks *)
(* and only up to the cooldown, which is as far as allow() looks.  A count *)
(* of failures is kept up to the threshold for the same reason.            *)
(***************************************************************************)
EXTENDS Integers

CONSTANTS
  Services,      \* the names breakers are made for
  THRESHOLD,     \* consecutive failures before tripping
  COOLDOWN       \* ticks OPEN before a trial

ASSUME BreakerAssumption == THRESHOLD \in Nat \ {0} /\ COOLDOWN \in Nat \ {0}

VARIABLES
  breaker,       \* the circuit_breaker table
  sinceTrial     \* history: time since a trial was last granted, up to COOLDOWN

breakerVars == <<breaker, sinceTrial>>

Closed == [state |-> "closed", fails |-> 0, age |-> COOLDOWN]

BreakerInit ==
  /\ breaker = [s \in Services |-> Closed]
  /\ sinceTrial = [s \in Services |-> COOLDOWN]

AtMost(n, bound) == IF n < bound THEN n ELSE bound

\* The slip the code once had: a half open breaker is never let through.
Peek_OpenOnly(s) ==
  \/ breaker[s].state = "closed"
  \/ breaker[s].state = "open" /\ breaker[s].age >= COOLDOWN

\* peek(): would a call be let through now?  It changes nothing.
Peek(s) == breaker[s].state = "closed" \/ breaker[s].age >= COOLDOWN

\* A slip: the trial is given out and opened_at left as it was.
Allow_KeepsStamp(s) ==
  /\ Peek(s)
  /\ breaker' = [breaker EXCEPT ![s].state = IF @ = "closed" THEN @ ELSE "half_open"]
  /\ sinceTrial' = [sinceTrial EXCEPT ![s] = IF breaker[s].state = "closed" THEN @ ELSE 0]

\* allow() answering True.  A closed breaker stays as it is; a tripped one
\* gives out its trial and restamps opened_at, a half open one too, because
\* whoever claimed the trial before never recorded an outcome.
Allow(s) ==
  /\ Peek(s)
  /\ IF breaker[s].state = "closed"
     THEN UNCHANGED breakerVars
     ELSE /\ breaker' = [breaker EXCEPT ![s].state = "half_open", ![s].age = 0]
          /\ sinceTrial' = [sinceTrial EXCEPT ![s] = 0]

RecordSuccess(s) ==
  /\ breaker' = [breaker EXCEPT ![s] = Closed]
  /\ UNCHANGED sinceTrial

\* A failed trial reopens at once; any other failure is counted, and trips
\* (or restamps) the breaker from the threshold on.
RecordFailure(s) ==
  LET fails == AtMost(breaker[s].fails + 1, THRESHOLD)
  IN /\ breaker' =
          IF breaker[s].state = "half_open"
          THEN [breaker EXCEPT ![s].state = "open", ![s].age = 0]
          ELSE IF fails >= THRESHOLD
               THEN [breaker EXCEPT ![s] = [state |-> "open", fails |-> fails, age |-> 0]]
               ELSE [breaker EXCEPT ![s].fails = fails]
     /\ UNCHANGED sinceTrial

BreakerAges ==
  /\ breaker' = [s \in Services |-> [breaker[s] EXCEPT !.age = AtMost(@ + 1, COOLDOWN)]]
  /\ sinceTrial' = [s \in Services |-> AtMost(sinceTrial[s] + 1, COOLDOWN)]

BreakerTick == BreakerAges /\ breakerVars' /= breakerVars
=============================================================================
