------------------------------ MODULE RailWorker ------------------------------
(***************************************************************************)
(* The resident rail worker (pipeline/kb/rail_worker.py) over the durable  *)
(* schedule of RailJobs: worker lifetimes that hold the lifetime lock, the *)
(* child process each claim is launched as, the producers that activate    *)
(* rows, and the ways a lifetime ends (drained at max_lifetime, or dead).  *)
(*                                                                         *)
(* A lifetime is one thread; its steps are run_forever's loop, one store   *)
(* transaction, poll, spawn or signal at a time.  The service manager      *)
(* (gateway/deploy/opyt-worker.service, the LaunchAgent) is the            *)
(* environment: it kills what a dead lifetime left in its process group,   *)
(* then may start the next one.                                            *)
(***************************************************************************)
EXTENDS RailJobs

CONSTANTS
  Workers,       \* worker processes somebody may start on this database
  Pids,          \* slots for child processes
  MaxChildren,   \* OPYT_WORKER_MAX_CHILDREN
  MaxStops,      \* bound: how many lifetimes may end
  Followed,      \* the rows whose requests the history follows
  None           \* no worker, no job

ASSUME WorkerAssumption ==
  /\ MaxChildren \in Nat \ {0}
  /\ MaxStops \in Nat
  /\ Followed \subseteq Jobs
  /\ None \notin Jobs
  /\ None \notin Workers

VARIABLES
  pc,            \* where each lifetime is in run_forever
  lock,          \* holder of the flock beside the database
  claimed,       \* the job a lifetime has claimed and not yet spawned
  active,        \* RailWorker.active: the children a lifetime supervises
  unpolled,      \* children reap_finished has not polled in this round
  child,         \* the process table
  stops,         \* lifetimes that have ended
  asked          \* history: followed rows request_now'd since their last pass started

workerVars == <<pc, lock, claimed, active, unpolled, child, stops>>
vars == <<jobs, now, workerVars, asked>>

Stage == {"down", "recovering", "reaping", "launching", "spawning",
          "sleeping", "draining", "dying"}
Process == [state : {"free", "running", "exited"},
            job : Jobs \cup {None}, started : Int]
Free == [state |-> "free", job |-> None, started |-> 0]

Alive(p) == child[p].state = "running"

TypeOK ==
  /\ JobsTypeOK
  /\ pc \in [Workers -> Stage]
  /\ lock \in Workers \cup {None}
  /\ claimed \in [Workers -> Jobs \cup {None}]
  /\ active \in [Workers -> SUBSET Pids]
  /\ unpolled \in [Workers -> SUBSET Pids]
  /\ child \in [Pids -> Process]
  /\ stops \in Nat
  /\ asked \subseteq Jobs

Init ==
  /\ JobsInit
  /\ pc = [w \in Workers |-> "down"]
  /\ lock = None
  /\ claimed = [w \in Workers |-> None]
  /\ active = [w \in Workers |-> {}]
  /\ unpolled = [w \in Workers |-> {}]
  /\ child = [p \in Pids |-> Free]
  /\ stops = 0
  /\ asked = {}

-----------------------------------------------------------------------------
(* Producers: MCP tools, and rails that make their successor due. *)

\* request_now: due at once.
RequestNow(j, priority) ==
  /\ Activate(j, now, priority)
  /\ asked' = asked \cup ({j} \cap Followed)
  /\ UNCHANGED <<now, workerVars>>

\* request_in: due one cadence out; it can only bring a schedule forward.
RequestIn(j, priority) ==
  /\ Activate(j, now + Cadence[RailOf(j)], priority)
  /\ UNCHANGED <<now, workerVars, asked>>

-----------------------------------------------------------------------------
(* A worker lifetime. *)

Goto(w, stage) == pc' = [pc EXCEPT ![w] = stage]

\* WorkerLock.acquire, after the service manager has cleared the process group
\* of the lifetime before.  A refused lock ends the process at once: no step.
Start(w) ==
  /\ pc[w] = "down"
  /\ lock = None
  /\ \A v \in Workers : pc[v] # "dying"
  /\ lock' = w
  /\ Goto(w, "recovering")
  /\ UNCHANGED <<jobs, now, claimed, active, unpolled, child, stops, asked>>

\* The first thing a lifetime does with the lock.
RecoverClaims(w) ==
  /\ pc[w] = "recovering"
  /\ RecoverInterruptedClaims(now)
  /\ Goto(w, "reaping")
  /\ UNCHANGED <<now, lock, claimed, active, unpolled, child, stops, asked>>

\* reap_finished, one child of the round: still running, or recorded with
\* finish() whatever its result and dropped.
Poll(w, p) ==
  /\ pc[w] = "reaping"
  /\ p \in unpolled[w]
  /\ unpolled' = [unpolled EXCEPT ![w] = @ \ {p}]
  /\ \/ Alive(p) /\ UNCHANGED <<jobs, active, child>>
     \/ /\ child[p].state = "exited"
        /\ Finish(child[p].job, child[p].started, now)
        /\ active' = [active EXCEPT ![w] = @ \ {p}]
        /\ child' = [child EXCEPT ![p] = Free]
  /\ UNCHANGED <<now, pc, lock, claimed, stops, asked>>

\* The round is over: past the deadline the lifetime drains, otherwise it
\* fills its free slots.
EndReap(w) ==
  /\ pc[w] = "reaping"
  /\ unpolled[w] = {}
  /\ \/ Goto(w, "launching") /\ UNCHANGED stops
     \/ stops < MaxStops /\ stops' = stops + 1 /\ Goto(w, "draining")
  /\ UNCHANGED <<jobs, now, lock, claimed, active, unpolled, child, asked>>

HasSlot(w) == Cardinality(active[w]) < MaxChildren

\* launch_available, the claim.
Claim(w) ==
  /\ pc[w] = "launching"
  /\ HasSlot(w)
  /\ \E j \in Jobs :
       /\ ClaimNext(j, now)
       /\ claimed' = [claimed EXCEPT ![w] = j]
       /\ asked' = asked \ {j}
  /\ Goto(w, "spawning")
  /\ UNCHANGED <<now, lock, active, unpolled, child, stops>>

\* _launch: Popen the claimed rail and supervise it.
Spawn(w) ==
  /\ pc[w] = "spawning"
  /\ \E p \in Pids :
       /\ child[p].state = "free"
       /\ child' = [child EXCEPT ![p] =
                      [state |-> "running", job |-> claimed[w],
                       started |-> jobs[claimed[w]].started]]
       /\ active' = [active EXCEPT ![w] = @ \cup {p}]
  /\ claimed' = [claimed EXCEPT ![w] = None]
  /\ Goto(w, "launching")
  /\ UNCHANGED <<jobs, now, lock, unpolled, stops, asked>>

\* No slot, or claim_next found nothing: sleep until the next round.
EndLaunch(w) ==
  /\ pc[w] = "launching"
  /\ ~HasSlot(w) \/ Claimable(now) = {}
  /\ Goto(w, "sleeping")
  /\ UNCHANGED <<jobs, now, lock, claimed, active, unpolled, child, stops, asked>>

Wake(w) ==
  /\ pc[w] = "sleeping"
  /\ unpolled' = [unpolled EXCEPT ![w] = active[w]]
  /\ Goto(w, "reaping")
  /\ UNCHANGED <<jobs, now, lock, claimed, active, child, stops, asked>>

\* stop_children: terminate (or kill) a child and wait for it, recording
\* nothing, so the row stays claimed for the next lifetime to recover.
StopChild(w, p) ==
  /\ pc[w] = "draining"
  /\ p \in active[w]
  /\ active' = [active EXCEPT ![w] = @ \ {p}]
  /\ child' = [child EXCEPT ![p] = Free]
  /\ UNCHANGED <<jobs, now, pc, lock, claimed, unpolled, stops, asked>>

\* Slip: the lifetime exits without waiting for its children.
EndDrain_Orphans(w) ==
  /\ pc[w] = "draining"
  /\ active' = [active EXCEPT ![w] = {}]
  /\ lock' = None
  /\ Goto(w, "down")
  /\ UNCHANGED <<jobs, now, claimed, unpolled, child, stops, asked>>

\* The drained lifetime releases the lock and exits 0.
EndDrain(w) ==
  /\ pc[w] = "draining"
  /\ active[w] = {}
  /\ lock' = None
  /\ Goto(w, "down")
  /\ UNCHANGED <<jobs, now, claimed, active, unpolled, child, stops, asked>>

\* The lifetime dies anywhere: a kill, or an exception out of the store or out
\* of _launch (a rail it does not know, a log it cannot open).  The kernel
\* drops the lock; the children live on until the group is killed.
Crash(w) ==
  /\ pc[w] \notin {"down", "dying"}
  /\ stops < MaxStops
  /\ stops' = stops + 1
  /\ lock' = None
  /\ claimed' = [claimed EXCEPT ![w] = None]
  /\ unpolled' = [unpolled EXCEPT ![w] = {}]
  /\ Goto(w, "dying")
  /\ UNCHANGED <<jobs, now, active, child, asked>>

\* The service manager kills what is left of the group (KillMode=control-group).
GroupKill(w) ==
  /\ pc[w] = "dying"
  /\ child' = [p \in Pids |-> IF p \in active[w] THEN Free ELSE child[p]]
  /\ active' = [active EXCEPT ![w] = {}]
  /\ Goto(w, "down")
  /\ UNCHANGED <<jobs, now, lock, claimed, unpolled, stops, asked>>

\* A pass ends by itself, well or badly.
Exit(p) ==
  /\ Alive(p)
  /\ child' = [child EXCEPT ![p].state = "exited"]
  /\ UNCHANGED <<jobs, now, pc, lock, claimed, active, unpolled, stops, asked>>

Pass == Tick /\ UNCHANGED <<workerVars, asked>>

WorkerStep(w) ==
  \/ Start(w) \/ RecoverClaims(w)
  \/ EndReap(w) \/ Claim(w) \/ Spawn(w) \/ EndLaunch(w) \/ Wake(w)
  \/ EndDrain(w) \/ Crash(w) \/ GroupKill(w)
  \/ \E p \in Pids : Poll(w, p) \/ StopChild(w, p)

Step ==
  \/ \E j \in Jobs, priority \in Priorities :
       RequestNow(j, priority) \/ RequestIn(j, priority)
  \/ \E w \in Workers : WorkerStep(w)
  \/ \E p \in Pids : Exit(p)

Next == Pass \/ Step

Spec == Init /\ [][Next]_vars

-----------------------------------------------------------------------------
(* Properties. *)

\* The home of a live child is its alone, across lifetimes that drained or
\* died: no rail is ever relaunched beside its own orphan (RailWorker: "keeping
\* each home single-flight"; run_forever: "two processes on one home").
SingleFlight ==
  \A p, q \in Pids :
    Alive(p) /\ Alive(q) /\ HomeOf(child[p].job) = HomeOf(child[q].job) => p = q

Looping(w) == pc[w] \notin {"down", "dying", "recovering"}

\* While a lifetime runs its loop, every open claim is one it holds, with the
\* same token.  A claim nobody holds would shut its home out for good, and
\* finish() on one that was reopened raises "rail claim is no longer active".
ClaimsBacked ==
  \A w \in Workers : Looping(w) /\ pc[w] # "draining" =>
    /\ \A j \in Jobs : Running(j) =>
         \/ claimed[w] = j
         \/ \E p \in active[w] : child[p].job = j
    /\ \A p \in active[w] : ClaimHeld(child[p].job, child[p].started)

-----------------------------------------------------------------------------
(* What the worker implements. *)

Occupant(h) == {p \in Pids : Alive(p) /\ HomeOf(child[p].job) = h}

\* A home's slot holds the rail of its live child.
Slot == [h \in Homes |->
           IF Occupant(h) = {} THEN None
           ELSE RailOf(child[CHOOSE p \in Occupant(h) : TRUE].job)]

Slots == INSTANCE RailSlots WITH
           Idle <- None,
           slot <- Slot,
           asked <- [h \in Homes |-> {r \in Rails : jobs[<<h, r>>].state # "none"}]

\* The worker, its crashes and its restarts implement the slots of RailSlots.
ImplementsSlots == Slots!Spec

=============================================================================
