------------------------------- MODULE RailProofs -------------------------------
(***************************************************************************)
(* Proofs about RailJobs and RailWorker, for any sets of homes, rails,     *)
(* workers and process slots and any bounds.                               *)
(***************************************************************************)
EXTENDS RailWorker, FiniteSetTheorems, TLAPS

-----------------------------------------------------------------------------
(* The store. *)

JobsInv == JobsTypeOK /\ OneClaimPerHome

\* Bringing a row forward neither opens nor closes a claim, and keeps the claim token.
LEMMA ActivateKeeps ==
  ASSUME JobsInv, NEW j \in Jobs, NEW due \in Int, NEW priority \in Nat,
         Activate(j, due, priority)
  PROVE  /\ jobs' \in [Jobs -> Row]
         /\ \A i \in Jobs : Running(i)' <=> Running(i)
         /\ \A i \in Jobs : Running(i) => jobs'[i].started = jobs[i].started
  BY DEF JobsInv, JobsTypeOK, Activate, Row, RowState, Running, Later, Earlier, AsRow

\* claim_next opens one claim, in a home that had none, and leaves the other rows alone.
LEMMA ClaimKeeps ==
  ASSUME JobsInv, NEW j \in Jobs, ClaimNext(j, now)
  PROVE  /\ jobs' \in [Jobs -> Row]
         /\ \A i \in Jobs : Running(i)' <=> Running(i) \/ i = j
         /\ \A i \in Jobs : Running(i) => HomeOf(i) # HomeOf(j)
         /\ \A i \in Jobs \ {j} : jobs'[i].started = jobs[i].started
  BY DEF JobsInv, JobsTypeOK, ClaimNext, First, Claimable, Row, RowState, Running,
         AsRow

\* finish closes the claim it names and no other.
LEMMA FinishKeeps ==
  ASSUME JobsInv, NEW j \in Jobs, NEW started \in Int, Finish(j, started, now)
  PROVE  /\ jobs' \in [Jobs -> Row]
         /\ \A i \in Jobs : Running(i)' <=> Running(i) /\ i # j
         /\ \A i \in Jobs : jobs'[i].started = jobs[i].started
<1>1. Cadence[RailOf(j)] \in Int
  BY JobsAssumption DEF Jobs, RailOf
<1>2. QED
  BY <1>1 DEF JobsInv, JobsTypeOK, Finish, ClaimHeld, Row, RowState, Running,
              DEFAULT_PRIORITY, AsRow

\* recover_interrupted_claims leaves no claim open.
LEMMA RecoverKeeps ==
  ASSUME JobsInv, RecoverInterruptedClaims(now)
  PROVE  /\ jobs' \in [Jobs -> Row]
         /\ \A i \in Jobs : ~Running(i)'
  BY DEF JobsInv, JobsTypeOK, RecoverInterruptedClaims, Row, RowState, Running,
         Earlier, AsRow

\* Whoever calls the store, a home has at most one open claim (claim_next).
THEOREM StoreOneClaim == JobsSpec => []OneClaimPerHome
<1>1. JobsInit => JobsInv
  BY DEF JobsInit, JobsInv, JobsTypeOK, OneClaimPerHome, Running, NoRow, Row,
         RowState, DEFAULT_PRIORITY, AsRow
<1>2. JobsInv /\ [JobsNext]_jobsVars => JobsInv'
  <2> SUFFICES ASSUME JobsInv, [JobsNext]_jobsVars PROVE JobsInv'
    OBVIOUS
  <2> USE DEF JobsInv
  <2>1. CASE Tick
    BY <2>1 DEF Tick, JobsTypeOK, OneClaimPerHome, Running
  <2>2. CASE UNCHANGED now /\ RecoverInterruptedClaims(now)
    BY <2>2, RecoverKeeps DEF JobsTypeOK, OneClaimPerHome
  <2>3. ASSUME UNCHANGED now, NEW j \in Jobs, ClaimNext(j, now)
        PROVE  JobsInv'
    BY <2>3, ClaimKeeps DEF JobsTypeOK, OneClaimPerHome
  <2>4. ASSUME UNCHANGED now, NEW j \in Jobs, NEW started \in 0..now,
               Finish(j, started, now)
        PROVE  JobsInv'
    BY <2>4, FinishKeeps DEF JobsTypeOK, OneClaimPerHome
  <2>5. ASSUME UNCHANGED now, NEW j \in Jobs, NEW delay \in {0, Cadence[RailOf(j)]},
               NEW p \in Priorities, Activate(j, now + delay, p)
        PROVE  JobsInv'
    <3>1. now + delay \in Int /\ p \in Nat
      BY JobsAssumption DEF Jobs, RailOf, JobsTypeOK
    <3>2. QED
      BY <2>5, <3>1, ActivateKeeps DEF JobsTypeOK, OneClaimPerHome
  <2>6. CASE UNCHANGED jobsVars
    BY <2>6 DEF jobsVars, JobsTypeOK, OneClaimPerHome, Running
  <2>7. QED
    BY <2>1, <2>2, <2>3, <2>4, <2>5, <2>6 DEF JobsNext
<1>3. QED
  BY <1>1, <1>2, PTL DEF JobsSpec, JobsInv

-----------------------------------------------------------------------------
(***************************************************************************)
(* The worker.  SingleFlight is not inductive: two children of one home    *)
(* are excluded because each child stands for an open claim of its own and *)
(* the store has one open claim per home.  That in turn needs one lifetime *)
(* at a time, and no claim reopened while its child lives.                 *)
(***************************************************************************)

\* The lock names the lifetime that runs, and nothing else has children.
OneLifetime ==
  /\ \A w \in Workers : lock = w <=> pc[w] \notin {"down", "dying"}
  /\ \A v, w \in Workers : pc[v] # "down" /\ pc[w] # "down" => v = w
  /\ \A w \in Workers : pc[w] \in {"down", "recovering"} => active[w] = {}

\* The process table is what the lifetimes supervise.
Supervised ==
  /\ \A w \in Workers : /\ unpolled[w] \subseteq active[w]
                        /\ pc[w] # "reaping" => unpolled[w] = {}
  /\ \A p \in Pids : child[p].state # "free" <=> \E w \in Workers : p \in active[w]

\* Every child, and every claim about to be spawned, stands for an open claim
\* of its own.
ChildHoldsClaim ==
  /\ \A w \in Workers : \A p \in active[w] :
       /\ child[p].job \in Jobs
       /\ ClaimHeld(child[p].job, child[p].started)
       /\ claimed[w] # child[p].job
       /\ \A q \in active[w] : child[p].job = child[q].job => p = q
  /\ \A w \in Workers :
       /\ pc[w] = "spawning" => claimed[w] \in Jobs
       /\ pc[w] # "spawning" => claimed[w] = None
       /\ claimed[w] # None => Running(claimed[w])

IInv ==
  /\ TypeOK
  /\ OneClaimPerHome
  /\ OneLifetime
  /\ Supervised
  /\ ChildHoldsClaim

\* IInv, and a claim that no lifetime holds is none of a looping one's.
BackedInv == IInv /\ ClaimsBacked
-----------------------------------------------------------------------------
(* One lemma per kind of step. *)

\* At first nothing is claimed, supervised or running.
LEMMA InitInv == Init => BackedInv
<1> SUFFICES ASSUME Init PROVE BackedInv
  OBVIOUS
<1>1. TypeOK
  BY DEF Init, JobsInit, TypeOK, JobsTypeOK, Stage, Process, Free, NoRow, Row,
         RowState, DEFAULT_PRIORITY, AsRow
<1>2. OneClaimPerHome /\ \A j \in Jobs : ~Running(j)
  BY DEF Init, JobsInit, OneClaimPerHome, Running, NoRow, AsRow
<1>3. OneLifetime
  BY WorkerAssumption DEF Init, OneLifetime
<1>4. Supervised
  BY DEF Init, Supervised, Free
<1>5. ChildHoldsClaim
  BY DEF Init, ChildHoldsClaim
<1>6. ClaimsBacked
  BY DEF Init, ClaimsBacked, Looping
<1>7. QED
  BY <1>1, <1>2, <1>3, <1>4, <1>5, <1>6 DEF BackedInv, IInv

\* A step that touches only the clock and the histories keeps the invariant.
LEMMA FrameInv ==
  ASSUME BackedInv, UNCHANGED <<jobs, workerVars>>, now' \in Nat,
         asked' \subseteq Jobs
  PROVE  BackedInv'
<1> USE DEF BackedInv, IInv, workerVars
<1>1. TypeOK'
  BY DEF TypeOK, JobsTypeOK
<1>2. OneClaimPerHome' /\ OneLifetime' /\ Supervised'
  BY DEF OneClaimPerHome, Running, OneLifetime, Supervised
<1>3. ChildHoldsClaim' /\ ClaimsBacked'
  BY DEF ChildHoldsClaim, ClaimsBacked, Looping, ClaimHeld, Running
<1>4. QED
  BY <1>1, <1>2, <1>3

\* So does one that changes rows without opening or closing a claim.
LEMMA ActivateInv ==
  ASSUME BackedInv, NEW j \in Jobs, NEW due \in Int, NEW priority \in Nat,
         Activate(j, due, priority), UNCHANGED <<now, workerVars>>,
         asked' \subseteq Jobs
  PROVE  BackedInv'
<1> USE DEF BackedInv, IInv, workerVars
<1>1. /\ jobs' \in [Jobs -> Row]
      /\ \A i \in Jobs : Running(i)' <=> Running(i)
      /\ \A i \in Jobs : Running(i) => jobs'[i].started = jobs[i].started
  BY ActivateKeeps DEF JobsInv, TypeOK
<1>2. TypeOK'
  BY <1>1 DEF TypeOK, JobsTypeOK
<1>3. OneClaimPerHome' /\ OneLifetime' /\ Supervised'
  BY <1>1 DEF OneClaimPerHome, OneLifetime, Supervised
<1>4. ChildHoldsClaim'
  BY <1>1 DEF ChildHoldsClaim, ClaimHeld, TypeOK
<1>5. ClaimsBacked'
  BY <1>1, <1>4 DEF ClaimsBacked, Looping, ChildHoldsClaim
<1>6. QED
  BY <1>2, <1>3, <1>4, <1>5

\* The steps of a lifetime that move only its program counter.
LEMMA StartInv ==
  ASSUME BackedInv, NEW w \in Workers, Start(w)
  PROVE  BackedInv'
<1> USE DEF BackedInv, IInv, Start, Goto
<1>1. TypeOK'
  BY DEF TypeOK, JobsTypeOK, Stage
<1>2. OneClaimPerHome' /\ Supervised'
  BY DEF OneClaimPerHome, Running, Supervised
<1>3. \A v \in Workers : pc[v] = "down"
  BY WorkerAssumption DEF OneLifetime, TypeOK
<1>4. OneLifetime'
  BY <1>3, WorkerAssumption DEF OneLifetime, TypeOK
<1>5. ChildHoldsClaim' /\ ClaimsBacked'
  BY <1>3 DEF ChildHoldsClaim, ClaimsBacked, Looping, ClaimHeld, Running, TypeOK
<1>6. QED
  BY <1>1, <1>2, <1>4, <1>5

\* A lifetime that recovers supervises nothing yet, so no claim may be left open.
LEMMA RecoverInv ==
  ASSUME BackedInv, NEW w \in Workers, RecoverClaims(w)
  PROVE  BackedInv'
<1> USE DEF BackedInv, IInv, RecoverClaims, Goto
<1>1. jobs' \in [Jobs -> Row] /\ \A i \in Jobs : ~Running(i)'
  BY RecoverKeeps DEF JobsInv, TypeOK
<1>2. TypeOK'
  BY <1>1 DEF TypeOK, JobsTypeOK, Stage
<1>3. OneClaimPerHome' /\ Supervised'
  BY <1>1 DEF OneClaimPerHome, Supervised
<1>4. \A v \in Workers : active[v] = {} /\ claimed[v] = None
  BY DEF OneLifetime, ChildHoldsClaim, TypeOK
<1>5. OneLifetime'
  BY <1>4 DEF OneLifetime, TypeOK
<1>6. ChildHoldsClaim'
  BY <1>4 DEF ChildHoldsClaim, TypeOK
<1>7. ClaimsBacked'
  BY <1>1, <1>4 DEF ClaimsBacked
<1>8. QED
  BY <1>2, <1>3, <1>5, <1>6, <1>7

\* The steps between reaping and launching, and between launching and sleeping.
LEMMA EndReapInv ==
  ASSUME BackedInv, NEW w \in Workers, EndReap(w)
  PROVE  BackedInv'
<1> USE DEF BackedInv, IInv, EndReap, Goto
<1>1. TypeOK'
  BY DEF TypeOK, JobsTypeOK, Stage
<1>2. OneClaimPerHome' /\ Supervised' /\ OneLifetime'
  BY DEF OneClaimPerHome, Running, Supervised, OneLifetime, TypeOK
<1>3. ChildHoldsClaim'
  BY DEF ChildHoldsClaim, ClaimHeld, Running, TypeOK
<1>5. \A v \in Workers : Looping(v)' /\ pc'[v] # "draining" =>
                            Looping(v) /\ pc[v] # "draining"
  BY DEF Looping, TypeOK
<1>6. ClaimsBacked'
  BY <1>5 DEF ClaimsBacked, ClaimHeld, Running
<1>4. QED
  BY <1>1, <1>2, <1>3, <1>6

\* A round of launching ends only with no claim waiting to be spawned.
LEMMA EndLaunchInv ==
  ASSUME BackedInv, NEW w \in Workers, EndLaunch(w)
  PROVE  BackedInv'
<1> USE DEF BackedInv, IInv, EndLaunch, Goto
<1>1. TypeOK'
  BY DEF TypeOK, JobsTypeOK, Stage
<1>2. OneClaimPerHome' /\ Supervised' /\ OneLifetime'
  BY DEF OneClaimPerHome, Running, Supervised, OneLifetime, TypeOK
<1>3. ChildHoldsClaim' /\ ClaimsBacked'
  BY DEF ChildHoldsClaim, ClaimsBacked, Looping, ClaimHeld, Running, TypeOK
<1>4. QED
  BY <1>1, <1>2, <1>3

\* Waking starts a round over.
LEMMA WakeInv ==
  ASSUME BackedInv, NEW w \in Workers, Wake(w)
  PROVE  BackedInv'
<1> USE DEF BackedInv, IInv, Wake, Goto
<1>1. TypeOK'
  BY DEF TypeOK, JobsTypeOK, Stage
<1>2. OneClaimPerHome' /\ Supervised' /\ OneLifetime'
  BY DEF OneClaimPerHome, Running, Supervised, OneLifetime, TypeOK
<1>3. ChildHoldsClaim' /\ ClaimsBacked'
  BY DEF ChildHoldsClaim, ClaimsBacked, Looping, ClaimHeld, Running, TypeOK
<1>4. QED
  BY <1>1, <1>2, <1>3

\* A claim is backed by the lifetime that took it; its home had no child.
LEMMA ClaimInv ==
  ASSUME BackedInv, NEW w \in Workers, Claim(w)
  PROVE  BackedInv'
<1> USE DEF BackedInv, IInv, Claim, Goto
<1> PICK j \in Jobs : /\ ClaimNext(j, now)
                      /\ claimed' = [claimed EXCEPT ![w] = j]
                      /\ asked' = asked \ {j}
  OBVIOUS
<1>1. /\ jobs' \in [Jobs -> Row]
      /\ \A i \in Jobs : Running(i)' <=> Running(i) \/ i = j
      /\ \A i \in Jobs : Running(i) => HomeOf(i) # HomeOf(j)
      /\ \A i \in Jobs \ {j} : jobs'[i].started = jobs[i].started
  BY ClaimKeeps DEF JobsInv, TypeOK
<1>2. TypeOK'
  BY <1>1 DEF TypeOK, JobsTypeOK, Stage
<1>3. OneClaimPerHome' /\ Supervised' /\ OneLifetime'
  BY <1>1 DEF OneClaimPerHome, Supervised, OneLifetime, TypeOK
<1>4. \A v \in Workers : v # w => active[v] = {} /\ claimed[v] = None
  BY DEF OneLifetime, ChildHoldsClaim, TypeOK
<1>5. ~Running(j) /\ j # None
  BY <1>1, WorkerAssumption
<1>6. ChildHoldsClaim'
  BY <1>1, <1>4, <1>5 DEF ChildHoldsClaim, ClaimHeld, TypeOK
<1>7. ClaimsBacked'
  <2> SUFFICES ASSUME NEW v \in Workers, Looping(v)', pc'[v] # "draining"
               PROVE  /\ \A i \in Jobs : Running(i)' =>
                           \/ claimed'[v] = i
                           \/ \E p \in active[v] : child[p].job = i
                      /\ \A p \in active[v] : ClaimHeld(child[p].job, child[p].started)'
    BY DEF ClaimsBacked
  <2>1. v = w
    BY DEF OneLifetime, Looping, TypeOK
  <2>2. claimed[w] = None /\ claimed'[w] = j
    BY DEF ChildHoldsClaim, TypeOK
  <2>3. Looping(w) /\ pc[w] # "draining"
    BY DEF Looping
  <2>4. \A i \in Jobs : Running(i) => \E p \in active[w] : child[p].job = i
    BY <2>2, <2>3, WorkerAssumption DEF ClaimsBacked
  <2>5. \A p \in active[w] : ClaimHeld(child[p].job, child[p].started)'
    BY <1>6 DEF ChildHoldsClaim
  <2>6. QED
    BY <1>1, <2>1, <2>2, <2>4, <2>5
<1>8. QED
  BY <1>2, <1>3, <1>6, <1>7

\* A spawned child takes the claim over from its lifetime, with the same token.
LEMMA SpawnInv ==
  ASSUME BackedInv, NEW w \in Workers, Spawn(w)
  PROVE  BackedInv'
<1> USE DEF BackedInv, IInv, Spawn, Goto
<1> PICK p \in Pids :
       /\ child[p].state = "free"
       /\ child' = [child EXCEPT ![p] =
                      [state |-> "running", job |-> claimed[w],
                       started |-> jobs[claimed[w]].started]]
       /\ active' = [active EXCEPT ![w] = @ \cup {p}]
  OBVIOUS
<1>1. claimed[w] \in Jobs /\ Running(claimed[w])
  BY WorkerAssumption DEF ChildHoldsClaim
<1>2. \A v \in Workers : v # w => active[v] = {} /\ claimed[v] = None
  BY DEF OneLifetime, ChildHoldsClaim, TypeOK
<1>3. \A v \in Workers : p \notin active[v]
  BY DEF Supervised
<1>4. TypeOK'
  <2>1. jobs[claimed[w]].started \in Int
    BY <1>1 DEF TypeOK, JobsTypeOK, Row
  <2>2. child' \in [Pids -> Process]
    BY <1>1, <2>1 DEF TypeOK, Process
  <2>3. QED
    BY <2>2 DEF TypeOK, JobsTypeOK, Stage
<1>5. OneClaimPerHome' /\ OneLifetime'
  BY <1>2 DEF OneClaimPerHome, Running, OneLifetime, TypeOK
<1>6. Supervised'
  <2>1. /\ \A v \in Workers \ {w} : active'[v] = active[v]
        /\ active'[w] = active[w] \cup {p}
        /\ \A q \in Pids \ {p} : child'[q] = child[q]
        /\ child'[p].state = "running"
    BY DEF TypeOK
  <2>2. \A v \in Workers : unpolled'[v] = {} \/ (v # w /\ unpolled'[v] \subseteq active[v])
    BY DEF Supervised
  <2>3. \A v \in Workers : pc'[v] # "reaping" => unpolled'[v] = {}
    BY DEF Supervised, TypeOK
  <2>4. \A q \in Pids : child'[q].state # "free" <=> \E v \in Workers : q \in active'[v]
    BY <2>1 DEF Supervised
  <2>5. QED
    BY <2>1, <2>2, <2>3, <2>4 DEF Supervised
<1>7. ChildHoldsClaim'
  BY <1>1, <1>2, <1>3, WorkerAssumption DEF ChildHoldsClaim, ClaimHeld, Running, TypeOK
<1>8. ClaimsBacked'
  BY <1>1, <1>2, <1>3, <1>7, WorkerAssumption
  DEF ClaimsBacked, Looping, TypeOK, ChildHoldsClaim, Running
<1>9. QED
  BY <1>4, <1>5, <1>6, <1>7, <1>8

\* A reaped child's claim closes with it.
LEMMA PollInv ==
  ASSUME BackedInv, NEW w \in Workers, NEW p \in Pids, Poll(w, p)
  PROVE  BackedInv'
<1> USE DEF BackedInv, IInv, Poll
<1>1. \A v \in Workers : v # w => active[v] = {} /\ claimed[v] = None
  BY DEF OneLifetime, ChildHoldsClaim, TypeOK
<1>2. CASE Alive(p) /\ UNCHANGED <<jobs, active, child>>
  <2>1. TypeOK'
    BY <1>2 DEF TypeOK, JobsTypeOK
  <2>2. OneClaimPerHome' /\ OneLifetime' /\ Supervised'
    BY <1>2 DEF OneClaimPerHome, Running, OneLifetime, Supervised, TypeOK
  <2>3. ChildHoldsClaim' /\ ClaimsBacked'
    BY <1>2 DEF ChildHoldsClaim, ClaimsBacked, Looping, ClaimHeld, Running
  <2>4. QED
    BY <2>1, <2>2, <2>3
<1>3. CASE /\ Finish(child[p].job, child[p].started, now)
           /\ active' = [active EXCEPT ![w] = @ \ {p}]
           /\ child' = [child EXCEPT ![p] = Free]
  <2>1. p \in active[w] /\ child[p].job \in Jobs /\ child[p].started \in Int
    <3>1. p \in active[w]
      BY DEF Supervised
    <3>2. child[p] \in Process
      BY DEF TypeOK
    <3>3. QED
      BY <3>1, <3>2 DEF ChildHoldsClaim, Process
  <2>2. /\ jobs' \in [Jobs -> Row]
        /\ \A i \in Jobs : Running(i)' <=> Running(i) /\ i # child[p].job
        /\ \A i \in Jobs : jobs'[i].started = jobs[i].started
    BY <1>3, <2>1, FinishKeeps DEF JobsInv, TypeOK
  <2>3. TypeOK'
    <3>1. Free \in Process
      BY DEF Free, Process
    <3>2. QED
      BY <1>3, <2>2, <3>1 DEF TypeOK, JobsTypeOK
  <2>4. OneClaimPerHome' /\ OneLifetime'
    BY <1>1, <1>3, <2>2 DEF OneClaimPerHome, OneLifetime, TypeOK
  <2>5. Supervised'
    BY <1>1, <1>3, <2>1 DEF Supervised, TypeOK, Free
  <2>6. claimed[w] = None
    BY DEF ChildHoldsClaim
  <2>7. ChildHoldsClaim'
    BY <1>1, <1>3, <2>1, <2>2, <2>6 DEF ChildHoldsClaim, ClaimHeld, TypeOK
  <2>8. ClaimsBacked'
    BY <1>1, <1>3, <2>1, <2>2, <2>6, <2>7
    DEF ClaimsBacked, Looping, TypeOK, ChildHoldsClaim
  <2>9. QED
    BY <2>3, <2>4, <2>5, <2>7, <2>8
<1>4. QED
  BY <1>2, <1>3

\* A drained child leaves its claim open; nothing is owed by a draining lifetime.
LEMMA StopChildInv ==
  ASSUME BackedInv, NEW w \in Workers, NEW p \in Pids, StopChild(w, p)
  PROVE  BackedInv'
<1> USE DEF BackedInv, IInv, StopChild
<1>1. \A v \in Workers : v # w => active[v] = {} /\ claimed[v] = None
  BY DEF OneLifetime, ChildHoldsClaim, TypeOK
<1>2. child[p].job \in Jobs
  BY DEF ChildHoldsClaim
<1>3. TypeOK'
  <2>1. Free \in Process
    BY DEF Free, Process
  <2>2. QED
    BY <1>2, <2>1 DEF TypeOK, JobsTypeOK
<1>4. OneClaimPerHome' /\ OneLifetime'
  BY <1>1 DEF OneClaimPerHome, Running, OneLifetime, TypeOK
<1>5. Supervised'
  BY <1>1 DEF Supervised, TypeOK, Free
<1>6. ChildHoldsClaim'
  BY <1>1 DEF ChildHoldsClaim, ClaimHeld, Running, TypeOK
<1>7. ClaimsBacked'
  <2>1. \A v \in Workers : v # w => pc[v] = "down"
    BY DEF OneLifetime
  <2>2. QED
    BY <2>1 DEF ClaimsBacked, Looping
<1>8. QED
  BY <1>3, <1>4, <1>5, <1>6, <1>7

\* A lifetime gives up the lock with no child left.
LEMMA EndDrainInv ==
  ASSUME BackedInv, NEW w \in Workers, EndDrain(w)
  PROVE  BackedInv'
<1> USE DEF BackedInv, IInv, EndDrain, Goto
<1>1. \A v \in Workers : v # w => pc[v] = "down"
  BY DEF OneLifetime
<1>2. TypeOK'
  BY DEF TypeOK, JobsTypeOK, Stage
<1>3. OneClaimPerHome' /\ Supervised'
  BY DEF OneClaimPerHome, Running, Supervised, TypeOK
<1>4. OneLifetime'
  BY <1>1, WorkerAssumption DEF OneLifetime, TypeOK
<1>5. ChildHoldsClaim'
  BY DEF ChildHoldsClaim, ClaimHeld, Running, TypeOK
<1>6. ClaimsBacked'
  BY <1>1 DEF ClaimsBacked, Looping, TypeOK
<1>7. QED
  BY <1>2, <1>3, <1>4, <1>5, <1>6

\* A crash leaves claims open and children alive, under no looping lifetime.
LEMMA CrashInv ==
  ASSUME BackedInv, NEW w \in Workers, Crash(w)
  PROVE  BackedInv'
<1> USE DEF BackedInv, IInv, Crash, Goto
<1>1. \A v \in Workers : v # w => pc[v] = "down"
  BY DEF OneLifetime
<1>2. TypeOK'
  BY DEF TypeOK, JobsTypeOK, Stage
<1>3. OneClaimPerHome' /\ Supervised'
  BY DEF OneClaimPerHome, Running, Supervised, TypeOK
<1>4. OneLifetime'
  BY <1>1, WorkerAssumption DEF OneLifetime, TypeOK
<1>5. ChildHoldsClaim'
  BY WorkerAssumption DEF ChildHoldsClaim, ClaimHeld, Running, TypeOK
<1>6. ClaimsBacked'
  BY <1>1 DEF ClaimsBacked, Looping, TypeOK
<1>7. QED
  BY <1>2, <1>3, <1>4, <1>5, <1>6

\* The group kill ends every child of a dead lifetime before another may start.
LEMMA GroupKillInv ==
  ASSUME BackedInv, NEW w \in Workers, GroupKill(w)
  PROVE  BackedInv'
<1> USE DEF BackedInv, IInv, GroupKill, Goto
<1>1. \A v \in Workers : v # w => pc[v] = "down" /\ active[v] = {}
  BY DEF OneLifetime
<1>2. TypeOK'
  <2>1. Free \in Process
    BY DEF Free, Process
  <2>2. {child[p].job : p \in active[w]} \subseteq Jobs
    BY DEF ChildHoldsClaim
  <2>3. QED
    BY <2>1, <2>2 DEF TypeOK, JobsTypeOK, Stage
<1>3. OneClaimPerHome'
  BY DEF OneClaimPerHome, Running
<1>4. Supervised'
  BY <1>1 DEF Supervised, TypeOK, Free
<1>5. OneLifetime'
  BY <1>1, WorkerAssumption DEF OneLifetime, TypeOK
<1>6. ChildHoldsClaim'
  BY <1>1 DEF ChildHoldsClaim, ClaimHeld, Running, TypeOK
<1>7. ClaimsBacked'
  BY <1>1 DEF ClaimsBacked, Looping, TypeOK
<1>8. QED
  BY <1>2, <1>3, <1>4, <1>5, <1>6, <1>7

\* A child that exits keeps its claim until it is reaped.
LEMMA ExitInv ==
  ASSUME BackedInv, NEW p \in Pids, Exit(p)
  PROVE  BackedInv'
<1> USE DEF BackedInv, IInv, Exit
<1>1. /\ child' \in [Pids -> Process]
      /\ \A q \in Pids : /\ child'[q].job = child[q].job
                          /\ child'[q].started = child[q].started
                          /\ child'[q].state = "free" <=> child[q].state = "free"
  BY DEF TypeOK, Process, Alive
<1>2. TypeOK'
  BY <1>1 DEF TypeOK, JobsTypeOK
<1>3. OneClaimPerHome' /\ OneLifetime' /\ Supervised'
  BY <1>1 DEF OneClaimPerHome, Running, OneLifetime, Supervised
<1>4. ChildHoldsClaim' /\ ClaimsBacked'
  BY <1>1 DEF ChildHoldsClaim, ClaimsBacked, Looping, ClaimHeld, Running, TypeOK
<1>5. QED
  BY <1>2, <1>3, <1>4

-----------------------------------------------------------------------------
(* The theorems. *)

\* The inductive invariant holds in every reachable state (rail_worker.run_forever
\* over rail_jobs).
THEOREM WorkerInvariant == Spec => []BackedInv
<1>1. BackedInv /\ [Next]_vars => BackedInv'
  <2> SUFFICES ASSUME BackedInv, [Next]_vars PROVE BackedInv'
    OBVIOUS
  <2>1. CASE Pass
    BY <2>1, FrameInv DEF Pass, Tick, workerVars, BackedInv, IInv, TypeOK,
                          JobsTypeOK
  <2>2. ASSUME NEW j \in Jobs, NEW priority \in Priorities, RequestNow(j, priority)
        PROVE  BackedInv'
    <3>1. now \in Int /\ priority \in Nat
      BY JobsAssumption DEF BackedInv, IInv, TypeOK, JobsTypeOK
    <3>2. asked' \subseteq Jobs
      BY <2>2 DEF RequestNow, BackedInv, IInv, TypeOK
    <3>3. QED
      BY <2>2, <3>1, <3>2, ActivateInv DEF RequestNow
  <2>3. ASSUME NEW j \in Jobs, NEW priority \in Priorities, RequestIn(j, priority)
        PROVE  BackedInv'
    <3>1. now + Cadence[RailOf(j)] \in Int /\ priority \in Nat
      BY JobsAssumption DEF BackedInv, IInv, TypeOK, JobsTypeOK, Jobs, RailOf
    <3>2. QED
      BY <2>3, <3>1, ActivateInv DEF RequestIn, BackedInv, IInv, TypeOK
  <2>4. ASSUME NEW w \in Workers, WorkerStep(w)
        PROVE  BackedInv'
    BY <2>4, StartInv, RecoverInv, EndReapInv, ClaimInv, SpawnInv, EndLaunchInv, WakeInv,
       EndDrainInv, CrashInv, GroupKillInv, PollInv, StopChildInv DEF WorkerStep
  <2>5. ASSUME NEW p \in Pids, Exit(p)
        PROVE  BackedInv'
    BY <2>5, ExitInv
  <2>6. CASE UNCHANGED vars
    BY <2>6, FrameInv DEF vars, workerVars, BackedInv, IInv, TypeOK, JobsTypeOK
  <2>7. QED
    BY <2>1, <2>2, <2>3, <2>4, <2>5, <2>6 DEF Next, Step
<1>2. QED
  BY <1>1, InitInv, PTL DEF Spec

\* Every variable keeps its type.
THEOREM WorkerTypes == Spec => []TypeOK
<1>1. BackedInv => TypeOK
  BY DEF BackedInv, IInv
<1>2. QED
  BY <1>1, WorkerInvariant, PTL

\* Two live children of a home would be two open claims of it.
LEMMA BackedFlies == BackedInv => SingleFlight
<1> SUFFICES ASSUME BackedInv, NEW p \in Pids, NEW q \in Pids, Alive(p), Alive(q),
                    HomeOf(child[p].job) = HomeOf(child[q].job)
             PROVE  p = q
  BY DEF SingleFlight
<1> USE DEF BackedInv, IInv
<1>1. PICK w \in Workers : p \in active[w]
  BY DEF Supervised, Alive
<1>2. PICK v \in Workers : q \in active[v]
  BY DEF Supervised, Alive
<1>3. v = w
  BY <1>1, <1>2 DEF OneLifetime
<1>4. /\ child[p].job \in Jobs /\ Running(child[p].job)
        /\ child[q].job \in Jobs /\ Running(child[q].job)
  BY <1>1, <1>2 DEF ChildHoldsClaim, ClaimHeld
<1>5. child[p].job = child[q].job
  BY <1>4 DEF OneClaimPerHome
<1>6. QED
  BY <1>1, <1>2, <1>3, <1>5 DEF ChildHoldsClaim

\* No home ever runs two rails at once, across lifetimes that drain, die and
\* are restarted (RailWorker: "keeping each home single-flight").
THEOREM HomesSingleFlight == Spec => []SingleFlight
<1> QED
  BY BackedFlies, WorkerInvariant, PTL

\* No open claim is ever without the lifetime that will close it, so no home is
\* shut out, and finish() is never refused (rail_jobs.finish: "rail claim is no
\* longer active").
THEOREM ClaimsStayBacked == Spec => []ClaimsBacked
<1>1. BackedInv => ClaimsBacked
  BY DEF BackedInv
<1>2. QED
  BY <1>1, WorkerInvariant, PTL
-----------------------------------------------------------------------------
(***************************************************************************)
(* The worker implements RailSlots.  Single flight makes a home's slot     *)
(* well defined; that a slot is free when a child is spawned needs the     *)
(* count of supervised children, taken when the claim was made.            *)
(***************************************************************************)

\* A claim is only taken with a slot for it, and supervised children are many no more.
HasRoom ==
  \A w \in Workers : /\ IsFiniteSet(active[w])
                     /\ pc[w] = "spawning" => HasSlot(w)

LEMMA RoomStarts == Init => HasRoom
  BY FS_EmptySet DEF Init, HasRoom

LEMMA RoomKeeps == ASSUME BackedInv, HasRoom, [Next]_vars PROVE HasRoom'
<1> USE DEF HasRoom, HasSlot
<1>1. pc \in [Workers -> Stage] /\ active \in [Workers -> SUBSET Pids]
  BY DEF BackedInv, IInv, TypeOK
<1>2. CASE UNCHANGED <<pc, active>>
  BY <1>2
<1>3. ASSUME NEW w \in Workers, WorkerStep(w) PROVE HasRoom'
  <2>1. \A v \in Workers \ {w} : active'[v] = active[v] /\ pc'[v] = pc[v]
    BY <1>1, <1>3 DEF WorkerStep, Start, RecoverClaims, EndReap, Claim, Spawn, EndLaunch,
       Wake, EndDrain, Crash, GroupKill, Poll, StopChild, Goto
  <2>2. CASE active'[w] = active[w] /\ pc'[w] /= "spawning"
    BY <2>1, <2>2
  <2>3. CASE Claim(w)
    BY <1>1, <2>1, <2>3 DEF Claim, Goto
  <2>4. CASE Spawn(w)
    <3>1. PICK p \in Pids : active' = [active EXCEPT ![w] = @ \cup {p}]
      BY <2>4 DEF Spawn
    <3>2. IsFiniteSet(active'[w])
      BY <1>1, <3>1, FS_AddElement
    <3> QED
      BY <1>1, <2>1, <2>4, <3>2 DEF Spawn, Goto
  <2>5. ASSUME NEW p \in Pids, Poll(w, p) \/ StopChild(w, p) PROVE HasRoom'
    <3>1. active'[w] = active[w] \/ active'[w] = active[w] \ {p}
      BY <1>1, <2>5 DEF Poll, StopChild
    <3>2. IsFiniteSet(active'[w])
      BY <3>1, FS_RemoveElement
    <3> QED
      BY <1>1, <2>1, <2>5, <3>2 DEF Poll, StopChild
  <2>6. CASE GroupKill(w)
    BY <1>1, <2>1, <2>6, FS_EmptySet DEF GroupKill, Goto
  <2>7. CASE Start(w) \/ RecoverClaims(w) \/ EndReap(w) \/ EndLaunch(w) \/ Wake(w)
             \/ EndDrain(w) \/ Crash(w)
    BY <1>1, <2>2, <2>7 DEF Start, RecoverClaims, EndReap, EndLaunch, Wake, EndDrain, Crash, Goto
  <2> QED
    BY <1>3, <2>3, <2>4, <2>5, <2>6, <2>7 DEF WorkerStep
<1>4. CASE Pass \/ (\E j \in Jobs, priority \in Priorities :
                      RequestNow(j, priority) \/ RequestIn(j, priority))
           \/ (\E p \in Pids : Exit(p)) \/ UNCHANGED vars
  BY <1>2, <1>4 DEF Pass, RequestNow, RequestIn, Exit, workerVars, vars
<1> QED
  BY <1>3, <1>4 DEF Next, Step

\* What a home's slot shows.
SlotShows ==
  \A h \in Homes :
    /\ Occupant(h) = {} => Slot[h] = None
    /\ \A p \in Occupant(h) : child[p].job = <<h, Slot[h]>>

LEMMA LiveJobs == BackedInv => \A p \in Pids : Alive(p) => child[p].job \in Jobs
  BY DEF BackedInv, IInv, Supervised, ChildHoldsClaim, Alive

LEMMA SlotIsShown == BackedInv => SlotShows
<1> SUFFICES ASSUME BackedInv, NEW h \in Homes
             PROVE  /\ Occupant(h) = {} => Slot[h] = None
                    /\ \A p \in Occupant(h) : child[p].job = <<h, Slot[h]>>
  BY DEF SlotShows
<1>1. Occupant(h) = {} => Slot[h] = None
  BY DEF Slot
<1>2. ASSUME NEW p \in Occupant(h) PROVE child[p].job = <<h, Slot[h]>>
  <2>1. SingleFlight
    BY BackedFlies
  <2>2. \A q \in Occupant(h) : q = p
    BY <2>1 DEF SingleFlight, Occupant
  <2>3. Slot[h] = RailOf(child[p].job)
    BY <2>2 DEF Slot
  <2>4. child[p].job \in Homes \X Rails /\ HomeOf(child[p].job) = h
    BY LiveJobs DEF Occupant, Jobs
  <2> QED
    BY <2>3, <2>4 DEF HomeOf, RailOf
<1> QED
  BY <1>1, <1>2

\* The rails a home was ever asked to run.
Ever == [h \in Homes |-> {r \in Rails : jobs[<<h, r>>].state /= "none"}]

\* A step after which there are fewer live children empties slots.
LEMMA FewerIsStop ==
  ASSUME SlotShows, SlotShows', Ever' = Ever,
         \A p \in Pids : Alive(p)' => Alive(p) /\ child'[p].job = child[p].job
  PROVE  Slots!Next
<1> DEFINE S == {h \in Homes : Slot[h] /= None /\ Slot'[h] = None}
<1>1. \A h \in Homes : Slot'[h] = Slot[h] \/ Slot'[h] = None
  <2> SUFFICES ASSUME NEW h \in Homes, Occupant(h)' /= {} PROVE Slot'[h] = Slot[h]
    BY DEF SlotShows
  <2>1. PICK p \in Pids : p \in Occupant(h)'
    BY DEF Occupant
  <2>2. p \in Occupant(h) /\ child'[p].job = child[p].job
    BY <2>1 DEF Occupant
  <2>3. child[p].job = <<h, Slot[h]>> /\ child'[p].job = <<h, Slot'[h]>>
    BY <2>1, <2>2 DEF SlotShows
  <2> QED
    BY <2>2, <2>3
<1>2. Slot' = [h \in Homes |-> IF h \in S THEN None ELSE Slot[h]]
  <2>1. Slot' = [h \in Homes |-> Slot'[h]]
    BY DEF Slot
  <2>2. \A h \in Homes : Slot'[h] = IF h \in S THEN None ELSE Slot[h]
    BY <1>1
  <2> HIDE DEF S
  <2> QED
    BY <2>1, <2>2
<1>3. S \in SUBSET Slots!Busy
  BY DEF Slots!Busy
<1>4. Slots!Stop(S)
  <2> HIDE DEF S
  <2> QED
    BY <1>2 DEF Slots!Stop, Ever
<1> HIDE DEF S
<1> QED
  BY <1>3, <1>4 DEF Slots!Next

\* A row that is written for the first time is asked for.
LEMMA ActivateAsks ==
  ASSUME BackedInv, UNCHANGED child, NEW j \in Jobs, NEW due \in Int, NEW priority \in Nat,
         Activate(j, due, priority)
  PROVE  Slots!Next
<1>1. jobs \in [Jobs -> Row]
  BY DEF BackedInv, IInv, TypeOK, JobsTypeOK
<1>2. PICK h \in Homes, r \in Rails : j = <<h, r>>
  BY DEF Jobs
<1>3. /\ \A i \in Jobs \ {j} : jobs'[i] = jobs[i]
      /\ jobs'[j].state /= "none"
  BY <1>1 DEF Activate, AsRow
<1>4. \A g \in Homes, s \in Rails :
        jobs'[<<g, s>>].state /= "none" <=> jobs[<<g, s>>].state /= "none" \/ (g = h /\ s = r)
  <2> SUFFICES ASSUME NEW g \in Homes, NEW s \in Rails
               PROVE jobs'[<<g, s>>].state /= "none"
                       <=> jobs[<<g, s>>].state /= "none" \/ (g = h /\ s = r)
    OBVIOUS
  <2>1. <<g, s>> \in Jobs /\ (<<g, s>> = j <=> g = h /\ s = r)
    BY <1>2 DEF Jobs
  <2> QED
    BY <1>3, <2>1
<1>5. Ever' = [Ever EXCEPT ![h] = @ \cup {r}]
  BY <1>4 DEF Ever
<1>6. Slot' = Slot
  BY DEF Slot, Occupant, Alive
<1> QED
  BY <1>5, <1>6 DEF Slots!Next, Slots!Ask, Ever

\* A spawned child takes the empty slot of its home, and there is one for it.
LEMMA SpawnStarts ==
  ASSUME BackedInv, HasRoom, SlotShows, SlotShows', NEW w \in Workers, Spawn(w)
  PROVE  Slots!Next
<1> DEFINE j == claimed[w]
<1> USE DEF BackedInv, IInv
<1> PICK p \in Pids :
       /\ child[p].state = "free"
       /\ child' = [child EXCEPT ![p] =
                      [state |-> "running", job |-> j, started |-> jobs[j].started]]
  BY DEF Spawn
<1>1. j \in Jobs /\ Running(j) /\ pc[w] = "spawning"
  BY WorkerAssumption DEF ChildHoldsClaim, Spawn
<1>2. PICK h \in Homes, r \in Rails : j = <<h, r>>
  BY <1>1 DEF Jobs
<1>3. /\ \A q \in Pids \ {p} : child'[q] = child[q]
      /\ child'[p].state = "running" /\ child'[p].job = j
  BY DEF TypeOK
<1> HIDE DEF j
<1>4. \A q \in Pids : Alive(q) =>
        /\ q \in active[w] /\ child[q].job \in Jobs /\ child[q].job /= j
        /\ HomeOf(child[q].job) /= h
  <2> SUFFICES ASSUME NEW q \in Pids, Alive(q)
               PROVE  /\ q \in active[w] /\ child[q].job \in Jobs /\ child[q].job /= j
                      /\ HomeOf(child[q].job) /= h
    OBVIOUS
  <2>1. PICK v \in Workers : q \in active[v]
    BY DEF Supervised, Alive
  <2>2. v = w
    BY <1>1, <2>1 DEF OneLifetime
  <2>3. child[q].job \in Jobs /\ Running(child[q].job) /\ child[q].job /= j
    BY <2>1, <2>2 DEF ChildHoldsClaim, ClaimHeld, j
  <2>4. HomeOf(j) = h
    BY <1>2 DEF HomeOf
  <2> QED
    BY <1>1, <2>1, <2>2, <2>3, <2>4 DEF OneClaimPerHome
<1>5. Slot[h] = None
  <2>1. Occupant(h) = {}
    BY <1>4 DEF Occupant
  <2> QED
    BY <2>1 DEF SlotShows
<1>6. Ever' = Ever /\ r \in Ever[h]
  BY <1>1, <1>2 DEF Spawn, Ever, Running
<1>7. Slot' = [Slot EXCEPT ![h] = r]
  <2>1. p \in Occupant(h)'
    BY <1>2, <1>3 DEF Occupant, Alive, HomeOf
  <2>2. Slot'[h] = r
    BY <1>2, <1>3, <2>1 DEF SlotShows
  <2>3. ASSUME NEW g \in Homes \ {h} PROVE Slot'[g] = Slot[g]
    <3>1. Occupant(g)' = Occupant(g) /\ \A q \in Occupant(g) : child'[q].job = child[q].job
      BY <1>2, <1>3 DEF Occupant, Alive, HomeOf
    <3>2. CASE Occupant(g) = {}
      BY <3>1, <3>2 DEF SlotShows
    <3>3. CASE Occupant(g) /= {}
      <4>1. PICK q \in Occupant(g) : TRUE
        BY <3>3
      <4>2. child[q].job = <<g, Slot[g]>> /\ child'[q].job = <<g, Slot'[g]>>
        BY <3>1, <4>1 DEF SlotShows
      <4> QED
        BY <3>1, <4>1, <4>2
    <3> QED
      BY <3>2, <3>3
  <2>4. Slot = [g \in Homes |-> Slot[g]] /\ Slot' = [g \in Homes |-> Slot'[g]]
    BY DEF Slot
  <2> QED
    BY <2>2, <2>3, <2>4
<1>8. Cardinality(Slots!Busy) < MaxChildren
  <2> DEFINE B == {g \in Homes : Slot[g] /= None}
             f == [q \in {q \in active[w] : Alive(q)} |-> HomeOf(child[q].job)]
             T == {f[q] : q \in DOMAIN f}
  <2>1. IsFiniteSet(active[w]) /\ Cardinality(active[w]) < MaxChildren
    BY <1>1 DEF HasRoom, HasSlot
  <2>2. DOMAIN f \in SUBSET active[w]
    OBVIOUS
  <2>3. /\ IsFiniteSet(DOMAIN f) /\ Cardinality(DOMAIN f) <= Cardinality(active[w])
        /\ Cardinality(active[w]) \in Nat /\ Cardinality(DOMAIN f) \in Nat
    BY <2>1, <2>2, FS_Subset, FS_CardinalityType
  <2>4. f \in Surjection(DOMAIN f, T)
    BY DEF Surjection
  <2>5. IsFiniteSet(T) /\ Cardinality(T) <= Cardinality(DOMAIN f)
    BY <2>3, <2>4, FS_Surjection
  <2>6. B \in SUBSET T
    <3> SUFFICES ASSUME NEW g \in B PROVE g \in T
      OBVIOUS
    <3>1. PICK q \in Occupant(g) : TRUE
      BY DEF SlotShows
    <3>2. q \in DOMAIN f /\ f[q] = g
      BY <1>4, <3>1 DEF Occupant
    <3> QED
      BY <3>2
  <2>7. IsFiniteSet(B) /\ Cardinality(B) <= Cardinality(T)
    BY <2>5, <2>6, FS_Subset
  <2>8. Cardinality(B) \in Nat /\ Cardinality(T) \in Nat
    BY <2>5, <2>7, FS_CardinalityType
  <2>9. B = Slots!Busy
    BY DEF Slots!Busy
  <2> HIDE DEF B, T, f
  <2>10. Cardinality(B) < MaxChildren
    BY <2>1, <2>3, <2>5, <2>7, <2>8, WorkerAssumption
  <2> QED
    BY <2>9, <2>10
<1> QED
  <2>0. Slots!Cardinality(Slots!Busy) = Cardinality(Slots!Busy)
    BY DEF Slots!Cardinality, Cardinality
  <2>1. Slots!Start(h, r)
    BY <1>5, <1>6, <1>7, <1>8, <2>0 DEF Slots!Start, Ever
  <2> QED
    BY <2>1 DEF Slots!Next

\* Every step of the worker is one of its slots, or none.
LEMMA StepKeepsSlots ==
  ASSUME BackedInv, HasRoom, SlotShows, SlotShows', [Next]_vars
  PROVE  [Slots!Next]_(Slots!vars)
<1> USE DEF BackedInv, IInv
<1>1. ASSUME NEW j \in Jobs, NEW priority \in Priorities,
             RequestNow(j, priority) \/ RequestIn(j, priority)
      PROVE  Slots!Next
  <2>1. PICK due \in Int : Activate(j, due, priority)
    BY <1>1, JobsAssumption DEF RequestNow, RequestIn, TypeOK, JobsTypeOK, Jobs, RailOf
  <2>2. UNCHANGED child /\ priority \in Nat
    BY <1>1, JobsAssumption DEF RequestNow, RequestIn, workerVars
  <2> QED
    BY <2>1, <2>2, ActivateAsks
<1>2. ASSUME NEW w \in Workers, Spawn(w) PROVE Slots!Next
  BY <1>2, SpawnStarts
<1>3. ASSUME jobs' = jobs \/ \A i \in Jobs : jobs'[i].state = "none" <=> jobs[i].state = "none"
      PROVE  Ever' = Ever
  BY <1>3 DEF Ever, Jobs
<1>4. ASSUME NEW w \in Workers, WorkerStep(w), ~Spawn(w) PROVE Slots!Next
  <2>1. \A i \in Jobs : jobs'[i].state = "none" <=> jobs[i].state = "none"
    <3>1. jobs \in [Jobs -> Row]
      BY DEF TypeOK, JobsTypeOK
    <3>2. CASE RecoverClaims(w)
      BY <3>1, <3>2 DEF RecoverClaims, RecoverInterruptedClaims, AsRow, Running
    <3>3. CASE Claim(w)
      BY <3>1, <3>3 DEF Claim, ClaimNext, First, Claimable, AsRow
    <3>4. ASSUME NEW p \in Pids, Poll(w, p)
          PROVE \A i \in Jobs : jobs'[i].state = "none" <=> jobs[i].state = "none"
      BY <3>1, <3>4 DEF Poll, Finish, ClaimHeld, AsRow, Running
    <3>5. CASE UNCHANGED jobs
      BY <3>5
    <3> QED
      BY <1>4, <3>2, <3>3, <3>4, <3>5 DEF WorkerStep, Start, EndReap, EndLaunch, Wake, EndDrain,
         Crash, GroupKill, StopChild
  <2>2. \A p \in Pids : Alive(p)' => Alive(p) /\ child'[p].job = child[p].job
    BY <1>4 DEF WorkerStep, Start, RecoverClaims, EndReap, Claim, EndLaunch, Wake, EndDrain,
       Crash, GroupKill, Poll, StopChild, Alive, Free, TypeOK
  <2> QED
    BY <1>3, <2>1, <2>2, FewerIsStop
<1>5. ASSUME NEW p \in Pids, Exit(p) PROVE Slots!Next
  <2>1. \A q \in Pids : Alive(q)' => Alive(q) /\ child'[q].job = child[q].job
    BY <1>5 DEF Exit, Alive, TypeOK
  <2> QED
    BY <1>3, <1>5, <2>1, FewerIsStop DEF Exit
<1>6. CASE Pass \/ UNCHANGED vars
  <2>1. jobs' = jobs /\ child' = child
    BY <1>6 DEF Pass, Tick, workerVars, vars
  <2>2. Ever' = Ever
    BY <2>1 DEF Ever
  <2>3. Slot' = Slot
    BY <2>1 DEF Slot, Occupant, Alive
  <2> QED
    BY <2>2, <2>3 DEF Slots!vars, Ever
<1> QED
  BY <1>1, <1>2, <1>4, <1>5, <1>6 DEF Next, Step

\* The worker, its crashes and its restarts implement the slots of RailSlots: a rail
\* runs once it was asked for, alone in its home, and never more of them than there
\* are slots (RailWorker: "Schedule rail children globally while keeping each home
\* single-flight").
THEOREM WorkerImplementsSlots == Spec => ImplementsSlots
<1>1. Init => HasRoom /\ Slots!Init
  <2>1. Init => Slots!Init
    BY DEF Init, JobsInit, NoRow, AsRow, Jobs, Free, Slot, Occupant, Alive, Slots!Init
  <2> QED
    BY <2>1, RoomStarts
<1>2. BackedInv /\ HasRoom /\ [Next]_vars => HasRoom'
  BY RoomKeeps
<1>3. BackedInv => SlotShows
  BY SlotIsShown
<1>4. BackedInv /\ HasRoom /\ SlotShows /\ SlotShows' /\ [Next]_vars => [Slots!Next]_(Slots!vars)
  BY StepKeepsSlots
<1> QED
  BY <1>1, <1>2, <1>3, <1>4, WorkerInvariant, PTL DEF Spec, ImplementsSlots, Slots!Spec
=============================================================================
