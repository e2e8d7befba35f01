------------------------------ MODULE RailWorkerMC ------------------------------
(***************************************************************************)
(* RailWorker for TLC: small instances, and for liveness RailWorker with   *)
(* time that never ends.  Every comparison of rail_jobs.py is between due  *)
(* times or between a due time and the clock, so the origin of time can    *)
(* move: there `now` stays 0 and one tick of the clock ages the rows       *)
(* instead.  Overdue rows are compared only with one another, so their     *)
(* ages are kept as ranks, which makes the state space finite without      *)
(* forgetting who is older.                                                *)
(***************************************************************************)
EXTENDS RailWorker, TLC

\* Every rail comes round a tick after it ended.
MCCadence == [r \in Rails |-> 1]

\* Every request is followed, or none.
MCAll == Homes \X Rails
MCNone == {}

\* Homes, rails, workers and process slots are interchangeable: no operator
\* orders them.
MCSymmetry ==
  Permutations(Homes) \cup Permutations(Rails) \cup
  Permutations(Workers) \cup Permutations(Pids)

--------------------------------------------------------------------------------
Rows == {j \in Jobs : jobs[j].state # "none"}
Overdue == {j \in Rows : jobs[j].due <= 0}

\* The rank of an overdue row after a tick: -1 for the youngest.
Rank(j) ==
  0 - Cardinality({d \in {jobs[i].due : i \in Overdue} : d >= jobs[j].due})

Age ==
  /\ jobs' = [j \in Jobs |->
                IF j \notin Rows THEN jobs[j]
                ELSE [jobs[j] EXCEPT !.due = IF @ > 0 THEN @ - 1 ELSE Rank(j)]]
  /\ UNCHANGED <<now, workerVars, asked>>

LiveNext == Age \/ Step

\* A lifetime's thread keeps running and the service manager keeps restarting
\* it (Restart=always, KeepAlive); nothing makes it crash.
Progress(w) == WorkerStep(w) /\ ~Crash(w)

\* Time passes, lifetimes progress, and passes are bounded (`--once`).
Fairness ==
  /\ WF_vars(Age)
  /\ \A w \in Workers : WF_vars(Progress(w))
  /\ \A p \in Pids : WF_vars(Exit(p))

LiveSpec == Init /\ [][LiveNext]_vars /\ Fairness

\* Every request is followed by a pass that starts after it, whatever other
\* rows are asked for meanwhile and however lifetimes end: nothing starves in
\* "priority DESC, due_at ASC" and no home stays shut out by a dead claim.
RequestsRun == \A j \in Jobs : j \in asked ~> j \notin asked

=============================================================================
