------------------------------- MODULE RailJobs -------------------------------
(***************************************************************************)
(* The durable schedule of the resident rail worker                        *)
(* (pipeline/kb/rail_jobs.py): one SQLite row per (home, rail).            *)
(*                                                                         *)
(* Every operation of RailJobStore is one transaction, hence one action,   *)
(* and reads the clock once; `now` is that reading.  A row's started_at    *)
(* and finished_at decide only whether a claim is open, so a row keeps     *)
(* that as a state and started_at as the token that fences finish():       *)
(*     waiting    started_at IS NULL                                       *)
(*     running    started_at set, finished_at NULL                         *)
(*     finished   both set                                                 *)
(*     none       no row                                                   *)
(* exit_code is recorded and never read back by the scheduler: left out.   *)
(***************************************************************************)
EXTENDS Integers, FiniteSets

CONSTANTS
  Homes,         \* the user homes the control database schedules for
  Rails,         \* the registered rails (rail_worker.RAILS)
  Cadence,       \* ticks between two passes of a rail
  Priorities,    \* priorities a producer may ask for
  MaxTime        \* bound: the clock stops there

ASSUME JobsAssumption ==
  /\ Cadence \in [Rails -> Nat \ {0}]
  /\ Priorities \subseteq Nat
  /\ MaxTime \in Nat

VARIABLES
  jobs,          \* the table rail_jobs
  now            \* the wall clock, in ticks

jobsVars == <<jobs, now>>

Jobs == Homes \X Rails
HomeOf(j) == j[1]
RailOf(j) == j[2]

DEFAULT_PRIORITY == 0
RowState == {"none", "waiting", "running", "finished"}
Row == [state : RowState, priority : Nat, due : Int, started : Int]
AsRow(state, priority, due, started) ==
  [state |-> state, priority |-> priority, due |-> due, started |-> started]
NoRow == AsRow("none", DEFAULT_PRIORITY, 0, 0)

Later(a, b) == IF a < b THEN b ELSE a
Earlier(a, b) == IF a < b THEN a ELSE b

Running(j) == jobs[j].state = "running"

JobsTypeOK ==
  /\ jobs \in [Jobs -> Row]
  /\ now \in Nat

-----------------------------------------------------------------------------
(* Operations of RailJobStore. *)

\* activate: create the row, or raise its priority and bring its due time
\* forward.  An open claim is left as it is.
Activate(j, due, priority) ==
  jobs' = [jobs EXCEPT ![j] =
             IF jobs[j].state = "none"
             THEN AsRow("waiting", priority, due, 0)
             ELSE AsRow(jobs[j].state, Later(jobs[j].priority, priority),
                        Earlier(jobs[j].due, due), jobs[j].started)]

\* Slip: the NOT EXISTS subquery is missing.
Claimable_HomeNotExcluded(t) ==
  {j \in Jobs : jobs[j].state \in {"waiting", "finished"} /\ jobs[j].due <= t}

\* The rows claim_next may choose from at time t.
Claimable(t) ==
  {j \in Jobs : /\ jobs[j].state \in {"waiting", "finished"}
                /\ jobs[j].due <= t
                /\ \A i \in Jobs : HomeOf(i) = HomeOf(j) => ~Running(i)}

\* Slip: due_at DESC, the newest request first.
Precedes_NewestFirst(i, j) ==
  \/ jobs[i].priority > jobs[j].priority
  \/ jobs[i].priority = jobs[j].priority /\ jobs[i].due > jobs[j].due

\* ORDER BY priority DESC, due_at ASC; the remaining ties, broken in the code
\* by name, are left open.
Precedes(i, j) ==
  \/ jobs[i].priority > jobs[j].priority
  \/ jobs[i].priority = jobs[j].priority /\ jobs[i].due < jobs[j].due

First(t) == {j \in Claimable(t) : \A i \in Claimable(t) : ~Precedes(i, j)}

\* claim_next: open a claim on one of the first claimable rows.
ClaimNext(j, t) ==
  /\ j \in First(t)
  /\ jobs' = [jobs EXCEPT ![j] =
                AsRow("running", jobs[j].priority, jobs[j].due, t)]

\* The row finish() updates: the claim it was handed is still the open one.
ClaimHeld(j, started) == Running(j) /\ jobs[j].started = started

\* finish: close the claim and schedule the next pass a cadence from t.
Finish(j, started, t) ==
  /\ ClaimHeld(j, started)
  /\ jobs' = [jobs EXCEPT ![j] =
                AsRow("finished", DEFAULT_PRIORITY, t + Cadence[RailOf(j)], started)]

\* Slip: the dead lifetime's claims are left open.
RecoverInterruptedClaims_Nothing(t) == UNCHANGED jobs

\* recover_interrupted_claims: every open claim of every home is reopened for
\* claiming, due no later than t.
RecoverInterruptedClaims(t) ==
  jobs' = [j \in Jobs |->
             IF Running(j)
             THEN AsRow("waiting", jobs[j].priority, Earlier(jobs[j].due, t), 0)
             ELSE jobs[j]]

-----------------------------------------------------------------------------
(* The store on its own, under any callers. *)

JobsInit ==
  /\ jobs = [j \in Jobs |-> NoRow]
  /\ now = 0

Tick ==
  /\ now < MaxTime
  /\ now' = now + 1
  /\ UNCHANGED jobs

JobsNext ==
  \/ Tick
  \/ /\ UNCHANGED now
     /\ \/ RecoverInterruptedClaims(now)
        \/ \E j \in Jobs :
              \/ ClaimNext(j, now)
              \/ \E started \in 0..now : Finish(j, started, now)
              \/ \E delay \in {0, Cadence[RailOf(j)]}, p \in Priorities :
                    Activate(j, now + delay, p)

JobsSpec == JobsInit /\ [][JobsNext]_jobsVars

-----------------------------------------------------------------------------
(* The store never has two open claims of one home, whoever calls it and in
   whatever order (claim_next: "A claimed row for a home excludes every other
   rail for that home"). *)
OneClaimPerHome ==
  \A i, j \in Jobs : Running(i) /\ Running(j) /\ HomeOf(i) = HomeOf(j) => i = j

=============================================================================
