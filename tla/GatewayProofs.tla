----------------------------- MODULE GatewayProofs -----------------------------
(***************************************************************************)
(* Proofs about Gateway: what its four parts promise, for any number of    *)
(* users, requests, processes, sign-ins, calls, invites and files.  The    *)
(* parts share no state, so each has its own inductive invariant, kept by  *)
(* its own steps and untouched by everyone else's.                         *)
(***************************************************************************)
EXTENDS Gateway, TLAPS

-----------------------------------------------------------------------------
(* The starter allowance. *)

\* A flow for which a subject's slot is held, or whose key nobody has yet.
InMint(c) == flow[c].stage \in {"posted", "made"}
Owes(c) == flow[c].stage \in {"posted", "made", "code"}

\* A subject has at most one flow under way, on a row that says how far it is,
\* and none once the key has been delivered.
TrialInv ==
  /\ ledger \in [People -> {"absent", "reserved", "filled"}]
  /\ flow \in [Calls -> Flow]
  /\ delivered \in [People -> {0, 1}]
  /\ \A s \in People : delivered[s] = 1 => ledger[s] = "filled"
  /\ \A c \in Calls : Owes(c) =>
       /\ flow[c].subject \in People
       /\ delivered[flow[c].subject] = 0
       /\ ledger[flow[c].subject] = IF InMint(c) THEN "reserved" ELSE "filled"
       /\ \A d \in Calls \ {c} : Owes(d) => flow[d].subject /= flow[c].subject

LEMMA TrialStarts == TrialInit => TrialInv
  BY DEF TrialInit, TrialInv, Flow, NoFlow, AsFlow, Owes, InMint

\* Each step of the two doors (trial.py, app.py) keeps it.
LEMMA TrialKeeps == ASSUME TrialInv, [TrialNext]_trialVars PROVE TrialInv'
<1> USE TrialAssumption DEF TrialInv, Flow, AsFlow, NoFlow, Owes, InMint, To
<1>1. ASSUME NEW c \in Calls, NEW s \in People, HostedTrial(c, s) PROVE TrialInv'
  BY <1>1 DEF HostedTrial, Reserve, MayReserve
<1>2. ASSUME NEW c \in Calls, TrialStart(c) PROVE TrialInv'
  BY <1>2 DEF TrialStart
<1>3. ASSUME NEW c \in Calls, TrialGoogle(c) PROVE TrialInv'
  <2>1. CASE \E s \in People : Reserve(s) /\ To(c, AsFlow("posted", s, "local"))
    BY <1>3, <2>1 DEF TrialGoogle, Reserve, MayReserve
  <2>2. CASE To(c, NoFlow) /\ UNCHANGED <<ledger, recent>>
    BY <1>3, <2>2 DEF TrialGoogle
  <2> QED BY <1>3, <2>1, <2>2 DEF TrialGoogle
<1>4. ASSUME NEW c \in Calls, TrialExchange(c) PROVE TrialInv'
  BY <1>4 DEF TrialExchange, Deliver
<1>5. ASSUME NEW c \in Calls, MakeKey(c) PROVE TrialInv'
  BY <1>5 DEF MakeKey
<1>6. ASSUME NEW c \in Calls, Minted(c) PROVE TrialInv'
  <2>1. CASE flow[c].door = "hosted"
    BY <1>6, <2>1 DEF Minted, Fill, Deliver
  <2>2. CASE flow[c].door /= "hosted"
    BY <1>6, <2>2 DEF Minted, Fill
  <2> QED BY <2>1, <2>2
<1>7. ASSUME NEW c \in Calls, MintFails(c) PROVE TrialInv'
  BY <1>7 DEF MintFails, Release
<1>8. ASSUME NEW s \in People, StrayArrives(s) \/ DayPasses(s) PROVE TrialInv'
  BY <1>8 DEF StrayArrives, DayPasses
<1>9. CASE Restart
  BY <1>9 DEF Restart
<1>10. CASE UNCHANGED trialVars
  BY <1>10 DEF trialVars
<1> QED
  BY <1>1, <1>2, <1>3, <1>4, <1>5, <1>6, <1>7, <1>8, <1>9, <1>10 DEF TrialNext

\* No subject is handed two keys, through either door, whatever fails, is
\* retried or restarts (trial.py: "one per person across the two").
THEOREM OneKeyEach == Spec => []DeliveredOnce
<1>1. Init => TrialInv BY TrialStarts DEF Init
<1>2. TrialInv /\ [Next]_vars => TrialInv'
  BY TrialKeeps DEF Next, vars, poolVars, signInVars, shareVars
<1>3. TrialInv => DeliveredOnce BY DEF TrialInv, DeliveredOnce
<1> QED BY <1>1, <1>2, <1>3, PTL DEF Spec

-----------------------------------------------------------------------------
(* The pool of children. *)

PoolTypes ==
  /\ children \in [Subjects -> Pids \cup {None}]
  /\ locks \in [Subjects -> Requests \cup {None}]
  /\ proc \in [Pids -> ProcState]
  /\ subject \in [Pids -> Subjects \cup {None}]
  /\ request \in [Requests -> Request]
  /\ reaper \in Pids \cup {None}
  /\ doomed \subseteq Pids
  /\ watched \subseteq Pids

\* A route leads to a process that was started for the subject, and while a
\* subject's lock is held it has no route at all.
Routes ==
  \A s \in Subjects :
    /\ children[s] # None =>
         /\ subject[children[s]] = s
         /\ proc[children[s]] \notin {"free", "starting"}
    /\ locks[s] # None => children[s] = None

\* A request that spawns has its subject's lock and a process of its own.
Spawner(r) == request[r].stage \in {"spawning", "abandoning"}
Spawners ==
  \A r \in Requests :
    /\ request[r].stage # "none" => request[r].subject \in Subjects \cup {None}
    /\ request[r].stage = "waiting" => request[r].subject \in Subjects
    /\ Spawner(r) =>
         /\ request[r].subject \in Subjects
         /\ request[r].child \in Pids
         /\ locks[request[r].subject] = r
         /\ subject[request[r].child] = request[r].subject
         /\ proc[request[r].child] \in
              IF request[r].stage = "spawning" THEN {"starting", "dead"} ELSE {"stopping", "dead"}

\* A process on its way up has the request that started it; one that is up has
\* the route.
Started ==
  \A p \in Pids :
    /\ proc[p] = "starting" =>
         /\ subject[p] \in Subjects
         /\ locks[subject[p]] # None
         /\ request[locks[subject[p]]].stage = "spawning"
         /\ request[locks[subject[p]]].child = p
    /\ proc[p] = "up" => subject[p] \in Subjects /\ children[subject[p]] = p
    /\ p \in doomed => proc[p] \notin {"free", "starting"}

PoolInv == PoolTypes /\ Routes /\ Spawners /\ Started

LEMMA PoolStarts == PoolInit => PoolInv
  BY DEF PoolInit, PoolInv, PoolTypes, Routes, Spawners, Started, Spawner, Request,
         NoRequest, ProcState

\* A slot that is unused is one no route, request or list leads to.
LEMMA UnusedIsFree ==
  ASSUME PoolInv, NEW p \in Pids, Unused(p)
  PROVE  /\ proc[p] \in {"free", "dead"} /\ p \notin doomed
         /\ \A s \in Subjects : children[s] /= p
         /\ \A r \in Requests : Spawner(r) => request[r].child /= p
  BY PoolAssumption DEF PoolInv, PoolTypes, Unused, Routes, Spawners, Started, Spawner

\* A process starts under the lock of its subject.
LEMMA BeginSpawnKeeps ==
  ASSUME PoolInv, NEW r \in Requests, NEW p \in Pids, Unused(p), BeginSpawn(r, p)
  PROVE  PoolInv'
<1> DEFINE s == request[r].subject
<1>1. s \in Subjects /\ locks[s] = None /\ request[r].stage = "waiting"
  BY DEF BeginSpawn, PoolInv, Spawners
<1>2. /\ locks' = [locks EXCEPT ![s] = r]
      /\ children' = [children EXCEPT ![s] = None]
      /\ proc' = [proc EXCEPT ![p] = "starting"]
      /\ subject' = [subject EXCEPT ![p] = s]
      /\ request' = [request EXCEPT ![r] =
           [stage |-> "spawning", subject |-> s, child |-> p]]
      /\ UNCHANGED <<watched, doomed, reaper>>
  BY DEF BeginSpawn, AsRequest, reaperVars
<1>3. /\ proc[p] \in {"free", "dead"} /\ p \notin doomed
      /\ \A u \in Subjects : children[u] /= p
      /\ \A q \in Requests : Spawner(q) => request[q].child /= p
  BY UnusedIsFree
<1> HIDE DEF s
<1>4. PoolTypes' BY <1>1, <1>2 DEF PoolInv, PoolTypes, Request, ProcState
<1>5. Routes' BY <1>1, <1>2, <1>3 DEF PoolInv, PoolTypes, Routes
<1>6. Spawners'
  <2>1. ASSUME NEW q \in Requests, q /= r, Spawner(q) PROVE request[q].subject /= s
    BY <1>1, <2>1, PoolAssumption DEF PoolInv, Spawners
  <2> QED
    BY <1>1, <1>2, <1>3, <2>1 DEF PoolInv, PoolTypes, Spawners, Spawner
<1>7. Started'
  <2>1. ASSUME NEW q \in Pids, q /= p, proc[q] = "starting"
        PROVE  subject[q] /= s /\ locks[subject[q]] /= r /\ locks[subject[q]] \in Requests
    BY <1>1, <2>1 DEF PoolInv, PoolTypes, Started
  <2>2. ASSUME NEW q \in Pids, q /= p, proc[q] = "up" PROVE subject[q] /= s
    BY <1>1, <2>2, PoolAssumption DEF PoolInv, PoolTypes, Started, BeginSpawn, Alive, s
  <2>3. subject'[p] = s /\ locks'[s] = r /\ request'[r].stage = "spawning"
        /\ request'[r].child = p /\ proc'[p] = "starting" /\ p \notin doomed'
    BY <1>1, <1>2, <1>3 DEF PoolInv, PoolTypes
  <2>4. ASSUME NEW q \in Pids, q /= p
        PROVE  subject'[q] = subject[q] /\ proc'[q] = proc[q]
               /\ (proc[q] = "starting" =>
                     /\ locks'[subject[q]] = locks[subject[q]]
                     /\ request'[locks[subject[q]]] = request[locks[subject[q]]])
               /\ (proc[q] = "up" => children'[subject[q]] = children[subject[q]])
    BY <1>1, <1>2, <2>1, <2>2, <2>4 DEF PoolInv, PoolTypes, Started
  <2> QED
    BY <1>1, <1>2, <2>3, <2>4, PoolAssumption DEF PoolInv, Started
<1> QED BY <1>4, <1>5, <1>6, <1>7 DEF PoolInv

\* The child gets its route as the lock is given back.
LEMMA SpawnReadyKeeps ==
  ASSUME PoolInv, NEW r \in Requests, SpawnReady(r)
  PROVE  PoolInv'
<1> DEFINE s == request[r].subject
           p == request[r].child
<1>1. /\ s \in Subjects /\ p \in Pids /\ locks[s] = r /\ subject[p] = s
      /\ proc[p] = "starting" /\ request[r].stage = "spawning" /\ children[s] = None
  BY PoolAssumption DEF SpawnReady, PoolInv, Spawners, Spawner, Routes
<1>2. /\ locks' = [locks EXCEPT ![s] = None]
      /\ children' = [children EXCEPT ![s] = p]
      /\ proc' = [proc EXCEPT ![p] = "up"]
      /\ request' = [request EXCEPT ![r] = [stage |-> "open", subject |-> s, child |-> p]]
      /\ watched' = watched \cup {p}
      /\ UNCHANGED <<subject, doomed, reaper>>
  BY DEF SpawnReady, CountIn, Unlock, AsRequest, reaperVars
<1> HIDE DEF s, p
<1>3. PoolTypes' BY <1>1, <1>2 DEF PoolInv, PoolTypes, Request, ProcState
<1>4. Routes' BY <1>1, <1>2, PoolAssumption DEF PoolInv, PoolTypes, Routes
<1>5. Spawners'
  <2>1. ASSUME NEW q \in Requests, q /= r, Spawner(q)
        PROVE  request[q].subject /= s /\ request[q].child /= p
    BY <1>1, <2>1 DEF PoolInv, Spawners
  <2> QED BY <1>1, <1>2, <2>1 DEF PoolInv, PoolTypes, Spawners, Spawner
<1>6. Started'
  <2>1. ASSUME NEW q \in Pids, q /= p, proc[q] = "starting"
        PROVE  subject[q] /= s /\ locks[subject[q]] /= r /\ locks[subject[q]] \in Requests
    BY <1>1, <2>1 DEF PoolInv, PoolTypes, Started
  <2>2. ASSUME NEW q \in Pids, q /= p, proc[q] = "up" PROVE subject[q] /= s
    BY <1>1, <2>2, PoolAssumption DEF PoolInv, PoolTypes, Started
  <2> QED BY <1>1, <1>2, <2>1, <2>2 DEF PoolInv, PoolTypes, Started
<1> QED BY <1>3, <1>4, <1>5, <1>6 DEF PoolInv

\* A spawn that failed gives the lock back.
LEMMA SpawnFailsKeeps ==
  ASSUME PoolInv, NEW r \in Requests, SpawnFails(r)
  PROVE  PoolInv'
<1> DEFINE s == request[r].subject
           p == request[r].child
<1>1. /\ s \in Subjects /\ p \in Pids /\ locks[s] = r /\ subject[p] = s
      /\ proc[p] = "dead" /\ request[r].child = p
  BY DEF SpawnFails, PoolInv, Spawners, Spawner
<1>2. /\ locks' = [locks EXCEPT ![s] = None]
      /\ request' = [request EXCEPT ![r] = [stage |-> "none", subject |-> None, child |-> None]]
      /\ UNCHANGED <<children, proc, subject, watched, doomed, reaper>>
  BY DEF SpawnFails, Unlock, NoRequest, childVars, reaperVars
<1> HIDE DEF s, p
<1>3. PoolTypes' BY <1>1, <1>2 DEF PoolInv, PoolTypes, Request
<1>4. Routes' BY <1>1, <1>2 DEF PoolInv, PoolTypes, Routes
<1>5. Spawners'
  <2>1. ASSUME NEW q \in Requests, q /= r, Spawner(q) PROVE request[q].subject /= s
    BY <1>1, <2>1 DEF PoolInv, Spawners
  <2> QED BY <1>1, <1>2, <2>1 DEF PoolInv, PoolTypes, Spawners, Spawner
<1>6. Started'
  <2>1. ASSUME NEW q \in Pids, proc[q] = "starting"
        PROVE  subject[q] /= s /\ locks[subject[q]] /= r /\ locks[subject[q]] \in Requests
    BY <1>1, <2>1 DEF PoolInv, PoolTypes, Started, Spawner
  <2> QED BY <1>1, <1>2, <2>1 DEF PoolInv, PoolTypes, Started
<1> QED BY <1>3, <1>4, <1>5, <1>6 DEF PoolInv

\* The reaper unroutes each child before it signals it.
LEMMA EndNextKeeps ==
  ASSUME PoolInv, NEW D \in SUBSET Pids, EndNext(D),
         \A p \in D : proc[p] \notin {"free", "starting"}
  PROVE  PoolInv'
<1> USE PoolAssumption
<1>1. UNCHANGED <<locks, subject, watched, request>> BY DEF EndNext
<1>2. CASE /\ \A p \in D : ~Alive(p)
           /\ Unroute(D) /\ reaper' = None /\ doomed' = {} /\ UNCHANGED proc
  <2>1. PoolTypes' BY <1>1, <1>2 DEF Unroute, PoolInv, PoolTypes
  <2>2. Routes' BY <1>1, <1>2 DEF Unroute, PoolInv, PoolTypes, Routes
  <2>3. Spawners' BY <1>1, <1>2 DEF PoolInv, Spawners, Spawner
  <2>4. Started' BY <1>1, <1>2 DEF Unroute, PoolInv, PoolTypes, Started, Alive
  <2> QED BY <2>1, <2>2, <2>3, <2>4 DEF PoolInv
<1>3. ASSUME NEW p \in D, NEW E \in SUBSET {q \in D : ~Alive(q)}, Alive(p),
             Unroute(E \cup {p}), proc' = [proc EXCEPT ![p] = "stopping"],
             reaper' = p, doomed' = D \ (E \cup {p})
      PROVE  PoolInv'
  <2>1. PoolTypes' BY <1>1, <1>3 DEF Unroute, PoolInv, PoolTypes, ProcState
  <2>2. Routes' BY <1>1, <1>3 DEF Unroute, PoolInv, PoolTypes, Routes
  <2>3. Spawners'
    <3>1. \A r \in Requests : Spawner(r) /\ request[r].child = p => request[r].stage = "abandoning"
      BY <1>3 DEF PoolInv, Spawners, Spawner, Alive
    <3> QED BY <1>1, <1>3, <3>1 DEF PoolInv, PoolTypes, Spawners, Spawner
  <2>4. Started' BY <1>1, <1>3 DEF Unroute, PoolInv, PoolTypes, Started, Alive
  <2> QED BY <2>1, <2>2, <2>3, <2>4 DEF PoolInv
<1> QED BY <1>2, <1>3 DEF EndNext

\* Each step of acquire, release, the watcher and the reaper keeps it.
LEMMA PoolKeeps == ASSUME PoolInv, [PoolNext]_poolVars PROVE PoolInv'
<1> USE PoolAssumption
<1>1. ASSUME NEW r \in Requests, NEW s \in Subjects, Arrive(r, s) PROVE PoolInv'
  <2>1. /\ request[r].stage = "none"
        /\ request' = [request EXCEPT ![r] =
             [stage |-> "waiting", subject |-> s, child |-> None]]
        /\ UNCHANGED <<children, locks, proc, subject, watched, doomed, reaper>>
    BY <1>1 DEF Arrive, AsRequest, childVars, reaperVars
  <2> QED BY <2>1 DEF PoolInv, PoolTypes, Request, Routes, Spawners, Spawner, Started
<1>2. ASSUME NEW r \in Requests, Acquire(r) PROVE PoolInv'
  <2>1. CASE AcquireRouted(r)
    <3> DEFINE s == request[r].subject
    <3>1. /\ request[r].stage = "waiting" /\ s \in Subjects /\ children[s] \in Pids
          /\ request' = [request EXCEPT ![r] =
               [stage |-> "open", subject |-> s, child |-> children[s]]]
          /\ UNCHANGED <<children, locks, proc, subject, watched, doomed, reaper>>
      BY <2>1 DEF AcquireRouted, CountIn, AsRequest, reaperVars, PoolInv, PoolTypes, Spawners
    <3> HIDE DEF s
    <3> QED BY <3>1 DEF PoolInv, PoolTypes, Request, Routes, Spawners, Spawner, Started
  <2>2. CASE ~AcquireRouted(r)
    <3>1. PICK p \in {q \in Pids : Unused(q)} : BeginSpawn(r, p)
      BY <1>2, <2>2 DEF Acquire
    <3> QED BY <3>1, BeginSpawnKeeps
  <2> QED BY <2>1, <2>2
<1>3. ASSUME NEW r \in Requests, Spawning(r) PROVE PoolInv'
  <2>1. CASE SpawnTimesOut(r)
    <3>1. /\ request[r].stage = "spawning" /\ proc[request[r].child] = "starting"
          /\ proc' = [proc EXCEPT ![request[r].child] = "stopping"]
          /\ request' = [request EXCEPT ![r].stage = "abandoning"]
          /\ UNCHANGED <<children, locks, subject, watched, doomed, reaper>>
      BY <2>1 DEF SpawnTimesOut, reaperVars
    <3>2. \A q \in Requests \ {r} : Spawner(q) => request[q].child /= request[r].child
      BY <3>1 DEF PoolInv, Spawners, Spawner
    <3>3. PoolTypes' BY <3>1, ZenonT(30) DEF PoolInv, PoolTypes, Request, ProcState
    <3>4. Routes' BY <3>1 DEF PoolInv, PoolTypes, Routes
    <3>5. Spawners' BY <3>1, <3>2 DEF PoolInv, PoolTypes, Spawners, Spawner, Request
    <3>6. Started' BY <3>1 DEF PoolInv, PoolTypes, Started, Request
    <3> QED BY <3>3, <3>4, <3>5, <3>6 DEF PoolInv
  <2> QED BY <1>3, <2>1, SpawnReadyKeeps, SpawnFailsKeeps DEF Spawning
<1>4. ASSUME NEW r \in Requests, NEW p \in Pids, Hold(r, p) PROVE PoolInv'
  <2>1. /\ request[r].stage = "none"
        /\ request' = [request EXCEPT ![r] =
             [stage |-> "held", subject |-> subject[p], child |-> p]]
        /\ UNCHANGED <<children, locks, proc, subject, watched, doomed, reaper>>
    BY <1>4 DEF Hold, AsRequest, reaperVars
  <2> QED BY <2>1 DEF PoolInv, PoolTypes, Request, Routes, Spawners, Spawner, Started
<1>5. ASSUME NEW r \in Requests, Done(r) \/ Vanish(r) PROVE PoolInv'
  <2>1. /\ request[r].stage \in {"open", "held"}
        /\ request' = [request EXCEPT ![r] =
             [stage |-> "none", subject |-> None, child |-> None]]
        /\ UNCHANGED <<children, locks, proc, subject, watched, doomed, reaper>>
    BY <1>5 DEF Done, Vanish, Counted, NoRequest, childVars, reaperVars
  <2> QED BY <2>1 DEF PoolInv, PoolTypes, Request, Routes, Spawners, Spawner, Started
<1>6. ASSUME NEW p \in Pids, Exit(p) PROVE PoolInv'
  <2>1. /\ Alive(p) /\ proc' = [proc EXCEPT ![p] = "dead"]
        /\ UNCHANGED <<children, locks, subject, watched, request, doomed, reaper>>
    BY <1>6 DEF Exit, reaperVars
  <2>2. PoolTypes' BY <2>1 DEF PoolInv, PoolTypes, ProcState
  <2>3. Routes' BY <2>1 DEF PoolInv, PoolTypes, Routes
  <2>4. Spawners' BY <2>1 DEF PoolInv, PoolTypes, Spawners, Spawner
  <2>5. Started' BY <2>1 DEF PoolInv, PoolTypes, Started
  <2> QED BY <2>2, <2>3, <2>4, <2>5 DEF PoolInv
<1>7. ASSUME NEW p \in Pids, Watch(p) PROVE PoolInv'
  <2>1. /\ proc[p] = "dead" /\ Unroute({p}) /\ watched' = watched \ {p}
        /\ UNCHANGED <<locks, proc, subject, request, doomed, reaper>>
    BY <1>7 DEF Watch, reaperVars
  <2>2. PoolTypes' BY <2>1 DEF Unroute, PoolInv, PoolTypes
  <2>3. Routes' BY <2>1 DEF Unroute, PoolInv, PoolTypes, Routes
  <2>4. Spawners' BY <2>1 DEF PoolInv, Spawners, Spawner
  <2>5. Started' BY <2>1 DEF Unroute, PoolInv, PoolTypes, Started
  <2> QED BY <2>2, <2>3, <2>4, <2>5 DEF PoolInv
<1>8. ASSUME NEW p \in Pids, GoIdle(p) PROVE PoolInv'
  BY <1>8 DEF GoIdle, reaperVars, PoolInv, PoolTypes, Routes, Spawners, Spawner, Started
<1>9. CASE ReapBegin
  <2>1. Reapable \subseteq Pids /\ \A p \in Reapable : proc[p] \notin {"free", "starting"}
    BY DEF Reapable, Routed, PoolInv, PoolTypes, Routes
  <2> QED BY <1>9, <2>1, EndNextKeeps DEF ReapBegin
<1>10. CASE ReapNext
  <2>1. doomed \subseteq Pids /\ \A p \in doomed : proc[p] \notin {"free", "starting"}
    BY DEF PoolInv, PoolTypes, Started
  <2> QED BY <1>10, <2>1, EndNextKeeps DEF ReapNext
<1>11. CASE UNCHANGED poolVars
  BY <1>11 DEF poolVars, childVars, reaperVars, PoolInv, PoolTypes, Routes, Spawners,
               Spawner, Started
<1> QED
  BY <1>1, <1>2, <1>3, <1>4, <1>5, <1>6, <1>7, <1>8, <1>9, <1>10, <1>11
  DEF PoolNext, ReaperStep

LEMMA PoolSafe == PoolInv => OneServing
<1> SUFFICES ASSUME PoolInv PROVE OneServing OBVIOUS
<1>1. \A p \in Pids : proc[p] = "up" => children[subject[p]] = p
  BY DEF PoolInv, Started
<1>2. ASSUME NEW p \in Pids, NEW q \in Pids \ {p},
             {proc[p], proc[q]} \subseteq {"starting", "up"}, subject[p] = subject[q]
      PROVE  FALSE
  <2>1. subject[p] \in Subjects BY <1>2 DEF PoolInv, Started
  <2>2. CASE proc[p] = "up" /\ proc[q] = "up" BY <1>1, <1>2, <2>2
  <2>3. CASE proc[p] = "starting" /\ proc[q] = "starting"
    BY <1>2, <2>3 DEF PoolInv, Started
  <2>4. \A a, b \in {p, q} : ~(proc[a] = "starting" /\ proc[b] = "up")
    BY <1>1, <1>2, <2>1, PoolAssumption DEF PoolInv, Routes, Started
  <2> QED BY <1>2, <2>2, <2>3, <2>4
<1> QED BY <1>1, <1>2 DEF OneServing

\* A subject has at most one process that is not on its way out, and one that
\* serves is in the routing table (ChildPool of children.py: acquire, _spawn,
\* _watch, reap_once and the exits they race with).
THEOREM OneChildEach == Spec => []OneServing
<1>1. Init => PoolInv BY PoolStarts DEF Init
<1>2. PoolInv /\ [Next]_vars => PoolInv'
  BY PoolKeeps DEF Next, vars, signInVars, trialVars, shareVars
<1> QED BY <1>1, <1>2, PoolSafe, PTL DEF Spec

-----------------------------------------------------------------------------
(* Sign-in links. *)

SignInTypes ==
  /\ childOf \in [Nonces -> Children \cup {None}]
  /\ gate \in [Nonces -> GateState]
  /\ manager \in [Nonces -> ManagerState]
  /\ active \in [Children -> Nonces \cup {None}]
  /\ profile \in [Children -> Nonces \cup {None, Other}]
  /\ registering \subseteq Nonces
  /\ starting \subseteq Nonces
  /\ handed \subseteq Nonces
  /\ newest \in [Children -> Nonces \cup {None}]

\* The child a nonce is known by is the child that minted it, and a desktop has
\* that child's profile for as long as it is up.
Minters ==
  /\ \A c \in Children :
       /\ newest[c] # None => childOf[newest[c]] = c
       /\ active[c] # None => childOf[active[c]] = c
  /\ \A n \in Nonces :
       /\ manager[n] \in {"booting", "open"} =>
            childOf[n] # None /\ profile[childOf[n]] = n
       /\ childOf[n] = None =>
            manager[n] = "none" /\ gate[n] = "none" /\ n \notin registering \cup handed

\* A link nobody has opened: the registration is not over, or nobody can have
\* started its desktop.
Unopened ==
  /\ \A n \in registering : gate[n] \in {"none", "gone"} /\ n \notin starting \cup handed
  /\ \A n \in starting : gate[n] \notin {"none", "link"}
  /\ \A n \in registering : newest[childOf[n]] = n => manager[n] = "pending"

\* As HandedLinkPending, whether or not the link has expired.
LinkPending ==
  \A n \in handed : gate[n] = "link" /\ newest[childOf[n]] = n => manager[n] = "pending"

SignInInv == SignInTypes /\ Minters /\ Unopened /\ LinkPending /\ NewestReachable

LEMMA SignInStarts == SignInInit => SignInInv
  BY SignInAssumption
  DEF SignInInit, SignInInv, SignInTypes, Minters, Unopened, LinkPending, NewestReachable,
      GateState, ManagerState

\* A new sign-in closes the running desktop of its child and what is pending there.
LEMMA CreateKeeps ==
  ASSUME SignInInv, NEW c \in Children, NEW n \in Nonces, Create(c, n)
  PROVE  SignInInv'
<1> USE SignInAssumption
<1> DEFINE closed == {active[c]} \ {None}
<1>1. /\ childOf[n] = None
      /\ childOf' = [childOf EXCEPT ![n] = c]
      /\ manager' = [m \in Nonces |->
           IF m = n THEN "pending"
           ELSE IF m \in closed \/ (m \in Of(c) /\ manager[m] = "pending") THEN "closed"
           ELSE manager[m]]
      /\ active' = [active EXCEPT ![c] = None]
      /\ profile' = [profile EXCEPT ![c] = IF @ \in closed THEN None ELSE @]
      /\ newest' = [newest EXCEPT ![c] = n]
      /\ registering' = registering \cup {n}
      /\ UNCHANGED <<gate, starting, handed>>
  BY DEF Create, Freed, gateVars
<1>2. /\ manager[n] = "none" /\ gate[n] = "none" /\ n \notin registering \cup handed
      /\ n \notin starting
  BY <1>1 DEF SignInInv, Minters, Unopened
<1>3. \A m \in closed : m \in Nonces /\ childOf[m] = c /\ m /= n
  BY <1>1 DEF SignInInv, SignInTypes, Minters
<1> HIDE DEF closed
<1>4. SignInTypes' BY <1>1 DEF SignInInv, SignInTypes, ManagerState
<1>5. Minters' BY <1>1, <1>2, <1>3 DEF SignInInv, SignInTypes, Minters, Of
<1>6. Unopened' BY <1>1, <1>2, <1>3 DEF SignInInv, SignInTypes, Minters, Unopened, Of
<1>7. LinkPending' BY <1>1, <1>2, <1>3 DEF SignInInv, SignInTypes, Minters, LinkPending, Of
<1>8. NewestReachable'
  BY <1>1, <1>2, <1>3 DEF SignInInv, SignInTypes, Minters, NewestReachable, Of
<1> QED BY <1>4, <1>5, <1>6, <1>7, <1>8 DEF SignInInv

\* A registration retires what the child had at the gateway before.
LEMMA RegisterKeeps ==
  ASSUME SignInInv, NEW n \in Nonces, Register(n) \/ RegisterFails(n)
  PROVE  SignInInv'
<1> USE SignInAssumption DEF SignInInv, SignInTypes
<1>1. CASE Register(n)
  <2>1. /\ n \in registering
        /\ gate' = [m \in Nonces |->
             IF m = n THEN "link"
             ELSE IF m \in Of(childOf[n]) THEN "gone" ELSE gate[m]]
        /\ registering' = registering \ {n}
        /\ \/ handed' = handed \cup {n} /\ manager' = manager
           \/ /\ manager' = [manager EXCEPT ![n] = IF @ = "pending" THEN "closed" ELSE @]
              /\ handed' = handed
        /\ UNCHANGED <<childOf, active, profile, starting, newest>>
    BY <1>1 DEF Register, DropPending
  <2>2. n \notin starting \cup handed /\ childOf[n] \in Children
    BY <2>1 DEF Unopened, Minters
  <2>3. SignInTypes' BY <2>1 DEF GateState, ManagerState
  <2>4. Minters' BY <2>1, <2>2 DEF Minters, Of
  <2>5. Unopened' BY <2>1, <2>2 DEF Unopened
  <2>6. LinkPending' BY <2>1, <2>2 DEF LinkPending, Unopened
  <2>7. NewestReachable' BY <2>1 DEF NewestReachable
  <2> QED BY <2>3, <2>4, <2>5, <2>6, <2>7
<1>2. CASE RegisterFails(n)
  <2>1. /\ n \in registering /\ registering' = registering \ {n}
        /\ manager' = [manager EXCEPT ![n] = IF @ = "pending" THEN "closed" ELSE @]
        /\ UNCHANGED <<childOf, gate, active, profile, starting, handed, newest>>
    BY <1>2 DEF RegisterFails, DropPending, gateVars, history
  <2>2. n \notin handed /\ childOf[n] \in Children
    BY <2>1 DEF Unopened, Minters
  <2>3. SignInTypes' BY <2>1 DEF ManagerState
  <2>4. Minters' BY <2>1, <2>2 DEF Minters
  <2>5. Unopened' BY <2>1 DEF Unopened
  <2>6. LinkPending' BY <2>1, <2>2 DEF LinkPending
  <2>7. NewestReachable' BY <2>1 DEF NewestReachable
  <2> QED BY <2>3, <2>4, <2>5, <2>6, <2>7
<1> QED BY <1>1, <1>2

\* A page is opened and its capabilities are used; calls reach the child or not.
LEMMA PagesKeep ==
  ASSUME SignInInv, NEW n \in Nonces,
         LoginPage(n) \/ LoginDesktop(n) \/ CompleteLogin(n) \/ CallLost(n)
  PROVE  SignInInv'
<1> USE SignInAssumption DEF SignInInv, SignInTypes
<1>1. /\ gate' \in {[gate EXCEPT ![n] = "page"], [gate EXCEPT ![n] = "spent"], gate}
      /\ gate' /= gate => gate[n] \in {"link", "page"}
      /\ \/ starting' = starting \cup {n} /\ gate[n] \in {"page", "spent"} /\ gate' = gate
         \/ starting' \subseteq starting
      /\ UNCHANGED <<childOf, manager, active, profile, registering, handed, newest>>
  BY DEF LoginPage, LoginDesktop, CompleteLogin, CallLost, managerVars, callVars, history,
         gateVars, LiveLinks, LiveSessions, LiveCompletions
<1>2. SignInTypes' BY <1>1 DEF GateState
<1>3. Minters' BY <1>1 DEF Minters
<1>4. Unopened' BY <1>1 DEF Unopened
<1>5. LinkPending' BY <1>1 DEF LinkPending
<1>6. NewestReachable' BY <1>1 DEF NewestReachable
<1> QED BY <1>2, <1>3, <1>4, <1>5, <1>6

\* The desktop comes up: only a call whose link is open can start one.
LEMMA DesktopUp ==
  ASSUME SignInInv, NEW n \in Nonces, Start(n) \/ TakeProfile(n) \/ Opens(n)
  PROVE  SignInInv'
<1> USE SignInAssumption DEF SignInInv, SignInTypes
<1>1. CASE Start(n)
  <2>1. /\ n \in starting /\ manager[n] = "pending" /\ starting' = starting \ {n}
        /\ manager' \in {[manager EXCEPT ![n] = "waiting"], [manager EXCEPT ![n] = "closed"]}
        /\ UNCHANGED <<childOf, gate, active, profile, registering, handed, newest>>
    BY <1>1 DEF Start, gateVars, history
  <2>2. gate[n] /= "link" /\ n \notin registering /\ childOf[n] \in Children
    BY <2>1 DEF Unopened, Minters
  <2>3. SignInTypes' BY <2>1 DEF ManagerState
  <2>4. Minters' BY <2>1, <2>2 DEF Minters
  <2>5. Unopened' BY <2>1, <2>2 DEF Unopened
  <2>6. LinkPending' BY <2>1, <2>2 DEF LinkPending
  <2>7. NewestReachable' BY <2>1 DEF NewestReachable
  <2> QED BY <2>3, <2>4, <2>5, <2>6, <2>7
<1>2. CASE TakeProfile(n)
  <2>1. /\ manager[n] = "waiting" /\ profile[childOf[n]] = None
        /\ profile' = [profile EXCEPT ![childOf[n]] = n]
        /\ manager' = [manager EXCEPT ![n] = "booting"]
        /\ UNCHANGED <<childOf, gate, active, registering, starting, handed, newest>>
    BY <1>2 DEF TakeProfile, gateVars, callVars, history
  <2>2. childOf[n] \in Children BY <2>1 DEF Minters
  <2>3. SignInTypes' BY <2>1, <2>2 DEF ManagerState
  <2>4. Minters' BY <2>1, <2>2 DEF Minters
  <2>5. Unopened' BY <2>1 DEF Unopened
  <2>6. LinkPending' BY <2>1 DEF LinkPending
  <2>7. NewestReachable' BY <2>1 DEF NewestReachable
  <2> QED BY <2>3, <2>4, <2>5, <2>6, <2>7
<1>3. CASE Opens(n)
  <2>1. /\ manager[n] = "booting" /\ manager' = [manager EXCEPT ![n] = "open"]
        /\ active' = [active EXCEPT ![childOf[n]] = n]
        /\ UNCHANGED <<childOf, gate, profile, registering, starting, handed, newest>>
    BY <1>3 DEF Opens, gateVars, callVars, history
  <2>2. childOf[n] \in Children /\ profile[childOf[n]] = n
    BY <2>1 DEF Minters
  <2>3. SignInTypes' BY <2>1, <2>2 DEF ManagerState
  <2>4. Minters' BY <2>1, <2>2 DEF Minters
  <2>5. Unopened' BY <2>1 DEF Unopened
  <2>6. LinkPending' BY <2>1 DEF LinkPending
  <2>7. NewestReachable'
    <3>1. ASSUME NEW c \in Children, newest[c] # None, manager'[newest[c]] = "open"
          PROVE  active'[c] = newest[c]
      <4>1. newest[c] \in Nonces /\ childOf[newest[c]] = c BY <3>1 DEF Minters
      <4>2. CASE newest[c] = n BY <2>1, <2>2, <4>1, <4>2
      <4>3. CASE newest[c] /= n
        <5>1. manager[newest[c]] = "open" BY <2>1, <3>1, <4>1, <4>3
        <5>2. profile[c] = newest[c] BY <4>1, <5>1 DEF Minters
        <5>3. c /= childOf[n] BY <2>2, <4>3, <5>2
        <5> QED BY <2>1, <2>2, <5>1, <5>3, <3>1 DEF NewestReachable
      <4> QED BY <4>2, <4>3
    <3> QED BY <2>1, <3>1 DEF NewestReachable
  <2> QED BY <2>3, <2>4, <2>5, <2>6, <2>7
<1> QED BY <1>1, <1>2, <1>3

\* The desktop goes down or breaks, and gives up only its own place.
LEMMA DesktopDown ==
  ASSUME SignInInv, NEW n \in Nonces,
         StartFails(n) \/ StartBreaks(n) \/ TimerFires(n) \/ CompleteCloses(n) \/ CompleteReturns(n)
  PROVE  SignInInv'
<1> USE SignInAssumption DEF SignInInv, SignInTypes
<1>1. CASE StartFails(n) \/ TimerFires(n) \/ CompleteCloses(n)
  <2>1. /\ manager[n] \in {"waiting", "booting", "open"}
        /\ manager' = [manager EXCEPT ![n] = "closed"]
        /\ profile' = [profile EXCEPT ![childOf[n]] = IF @ \in {n} THEN None ELSE @]
        /\ UNCHANGED <<childOf, gate, active, registering, starting, handed, newest>>
    BY <1>1 DEF StartFails, TimerFires, CompleteCloses, Close, Freed, gateVars, callVars, history
  <2>2. childOf[n] \in Children BY <2>1 DEF Minters
  <2>3. SignInTypes' BY <2>1, <2>2 DEF ManagerState
  <2>4. Minters' BY <2>1, <2>2 DEF Minters
  <2>5. Unopened' BY <2>1 DEF Unopened
  <2>6. LinkPending' BY <2>1 DEF LinkPending
  <2>7. NewestReachable' BY <2>1 DEF NewestReachable
  <2> QED BY <2>3, <2>4, <2>5, <2>6, <2>7
<1>2. CASE CompleteReturns(n)
  <2>1. /\ manager[n] = "closed"
        /\ active' = [active EXCEPT ![childOf[n]] = IF @ = n THEN None ELSE @]
        /\ UNCHANGED <<childOf, gate, manager, profile, registering, starting, handed, newest>>
    BY <1>2 DEF CompleteReturns, gateVars, history
  <2>2. SignInTypes' BY <2>1
  <2>3. Minters' BY <2>1 DEF Minters
  <2>4. Unopened' BY <2>1 DEF Unopened
  <2>5. LinkPending' BY <2>1 DEF LinkPending
  <2>6. NewestReachable' BY <2>1 DEF NewestReachable
  <2> QED BY <2>2, <2>3, <2>4, <2>5, <2>6
<1>3. CASE StartBreaks(n)
  <2>1. /\ manager[n] = "booting" /\ manager' = [manager EXCEPT ![n] = "stuck"]
        /\ UNCHANGED <<childOf, gate, active, profile, registering, starting, handed, newest>>
    BY <1>3 DEF StartBreaks, gateVars, callVars, history
  <2>2. SignInTypes' BY <2>1 DEF ManagerState
  <2>3. Minters' BY <2>1 DEF Minters
  <2>4. Unopened' BY <2>1 DEF Unopened
  <2>5. LinkPending' BY <2>1 DEF LinkPending
  <2>6. NewestReachable' BY <2>1 DEF NewestReachable
  <2> QED BY <2>2, <2>3, <2>4, <2>5, <2>6
<1> QED BY <1>1, <1>2, <1>3

\* The child ends, and everything that names it with it.
LEMMA ChildEndsKeeps ==
  ASSUME SignInInv, NEW c \in Children, ChildEnds(c)
  PROVE  SignInInv'
<1> USE SignInAssumption DEF SignInInv, SignInTypes
<1>1. /\ gate' = [n \in Nonces |-> IF n \in Of(c) /\ gate[n] # "none" THEN "gone" ELSE gate[n]]
      /\ manager' = [n \in Nonces |-> IF n \in Of(c) THEN "closed" ELSE manager[n]]
      /\ active' = [active EXCEPT ![c] = None]
      /\ profile' = [profile EXCEPT ![c] = IF @ \in Of(c) THEN None ELSE @]
      /\ registering' = registering \ Of(c) /\ starting' = starting \ Of(c)
      /\ UNCHANGED <<childOf, handed, newest>>
  BY DEF ChildEnds, Freed, history
<1>2. SignInTypes' BY <1>1 DEF GateState, ManagerState
<1>3. Minters' BY <1>1 DEF Minters, Of
<1>4. Unopened' BY <1>1 DEF Unopened, Minters, Of
<1>5. LinkPending' BY <1>1 DEF LinkPending, Of
<1>6. NewestReachable'
  <2>1. ASSUME NEW d \in Children, newest[d] # None, manager'[newest[d]] = "open"
        PROVE  active'[d] = newest[d]
    <3>1. newest[d] \in Nonces /\ childOf[newest[d]] = d BY <2>1 DEF Minters
    <3>2. d /= c /\ manager[newest[d]] = "open" BY <1>1, <2>1, <3>1 DEF Of
    <3> QED BY <1>1, <2>1, <3>2 DEF NewestReachable
  <2> QED BY <1>1, <2>1 DEF NewestReachable
<1> QED BY <1>2, <1>3, <1>4, <1>5, <1>6

LEMMA SignInKeeps == ASSUME SignInInv, [SignInNext]_signInVars PROVE SignInInv'
<1>1. CASE UNCHANGED <<childOf, gate, manager, active, registering, starting, handed, newest>>
           /\ \/ UNCHANGED profile
              \/ \E c \in Children : OtherDrives(c)
  BY <1>1, SignInAssumption
  DEF OtherDrives, SignInInv, SignInTypes, Minters, Unopened, LinkPending, NewestReachable
<1>2. CASE Tick BY <1>1, <1>2 DEF Tick, callVars, history
<1>3. ASSUME NEW c \in Children, OtherDrives(c) PROVE SignInInv'
  BY <1>1, <1>3 DEF OtherDrives, gateVars, callVars, history
<1>4. CASE UNCHANGED signInVars
  BY <1>1, <1>4 DEF signInVars, gateVars, managerVars, callVars, history
<1> QED
  BY <1>2, <1>3, <1>4, CreateKeeps, RegisterKeeps, PagesKeep, DesktopUp, DesktopDown,
     ChildEndsKeeps
  DEF SignInNext

LEMMA SignInStep == SignInInv /\ [Next]_vars => SignInInv'
  BY SignInKeeps DEF Next, vars, poolVars, trialVars, shareVars

\* The desktop of the newest sign-in stays the one completions and restarts
\* reach, whatever an older sign-in's completion, timer or failed registration
\* does (HostedLoginManager of hosted_browser.py).
THEOREM NewestStaysReachable == Spec => []NewestReachable
<1>1. Init => SignInInv BY SignInStarts DEF Init
<1>2. SignInInv => NewestReachable BY DEF SignInInv
<1> QED BY <1>1, <1>2, SignInStep, PTL DEF Spec

\* A link the user was given is one the child will start, as long as it is the
\* newest and unopened (begin_login, register_interaction).
THEOREM HandedLinksWork == Spec => []HandedLinkPending
<1>1. Init => SignInInv BY SignInStarts DEF Init
<1>2. SignInInv => HandedLinkPending
  BY DEF SignInInv, LinkPending, HandedLinkPending, LiveLinks
<1> QED BY <1>1, <1>2, SignInStep, PTL DEF Spec

-----------------------------------------------------------------------------
(* Sharing. *)

ShareTypes ==
  /\ file \in [Files -> [stage : FileStage, version : Nat, whole : BOOLEAN]]
  /\ store \in Nat
  /\ tmp \in Files \cup {None}
  /\ dest \in Files \cup {None}
  /\ crossed \in BOOLEAN

\* As long as no two uploads met, the name of a running upload leads to its own
\* file, and a file is whole once all of it has come.
OwnName ==
  ~crossed => \A f \in Files :
    /\ file[f].stage \in {"receiving", "whole"} => tmp = f
    /\ file[f].stage = "whole" => file[f].whole

ShareInv == ShareTypes /\ OwnName /\ ServedWhole

LEMMA ShareStarts == ShareInit => ShareInv
<1> SUFFICES ASSUME ShareInit PROVE ShareInv OBVIOUS
<1>1. ShareTypes
  <2>1. [stage |-> "none", version |-> 0, whole |-> FALSE]
          \in [stage : FileStage, version : Nat, whole : BOOLEAN]
    BY Zenon DEF FileStage
  <2> QED BY <2>1 DEF ShareInit, ShareTypes
<1> QED BY <1>1 DEF ShareInit, ShareInv, OwnName, ServedWhole

\* A new export has a file of its own: no name leads to it and nobody writes it.
LEMMA NewFileIsFree ==
  ASSUME NEW f \in Files, f = NewFile
  PROVE  ~Uploading(f) /\ f /= tmp /\ f /= dest
<1>1. f \in FreeFiles BY SharingAssumption DEF NewFile
<1> QED BY <1>1 DEF FreeFiles

\* Each step of the service, the owner's tools and the push rail keeps it.
LEMMA ShareKeeps == ASSUME ShareInv, [ShareNext]_shareVars PROVE ShareInv'
<1> USE SharingAssumption DEF ShareInv, ShareTypes, OwnName, ServedWhole, FileStage
<1>1. ASSUME NEW f \in Files, Receive(f) PROVE ShareInv'
  BY <1>1 DEF Receive, ownerVars, shareHistory
<1>2. ASSUME NEW f \in Files, Replace(f) PROVE ShareInv'
  <2>1. CASE tmp = None
    BY <1>2, <2>1 DEF Replace, Stage, ownerVars, shareHistory
  <2>2. CASE tmp /= None
    BY <1>2, <2>2 DEF Replace, Stage, ownerVars, shareHistory
  <2> QED BY <2>1, <2>2
<1>3. ASSUME NEW f \in Files, List(f) PROVE ShareInv'
  BY <1>3 DEF List, Stage, ownerVars, shareHistory
<1>4. ASSUME NEW f \in Files, Record(f) PROVE ShareInv'
  BY <1>4 DEF Record, Stage, ownerVars, shareHistory
<1>5. ASSUME NEW f \in Files, Abort(f) PROVE ShareInv'
  BY <1>5 DEF Abort, Stage, ownerVars, shareHistory
<1>6. ASSUME NEW f \in Files, Upload(f) PROVE ShareInv'
  <2>1. ~Uploading(f) /\ f /= tmp /\ f /= dest BY <1>6, NewFileIsFree DEF Upload
  <2>2. /\ file' = [file EXCEPT ![f] = [stage |-> "receiving", version |-> store, whole |-> FALSE]]
        /\ tmp' = f /\ dest' = dest /\ store' = store
        /\ crossed' \in BOOLEAN
        /\ ~crossed' => ~crossed /\ \A g \in Files : ~Uploading(g)
    BY <1>6 DEF Upload, SomeUpload
  <2>3. ShareTypes' BY <2>2
  <2>4. OwnName' BY <2>2 DEF Uploading
  <2>5. ServedWhole' BY <2>1, <2>2
  <2> QED BY <2>3, <2>4, <2>5
<1>7. CASE Cut
  BY <1>7 DEF Cut, ownerVars, fileVars, SomeUpload
<1>8. CASE UnpublishStep
  BY <1>8 DEF UnpublishStep, Delist, Unlink, Clear, ownerVars, fileVars, shareHistory
<1>9. CASE ServiceRestart
  BY <1>9 DEF ServiceRestart, ownerVars, shareHistory, Uploading
<1>10. CASE Decide \/ RailEnds \/ GiveUp
  BY <1>10 DEF Decide, RailEnds, Published, Failed, GiveUp, fileVars, shareHistory
<1>11. CASE Change
  BY <1>11 DEF Change, fileVars, shareHistory
<1>12. ASSUME NEW c \in Codes,
              \/ Share(c) \/ Redeem(c) \/ Mint(c) \/ Revoke(c)
              \/ BeginRead(c) \/ EndRead(c)
       PROVE  ShareInv'
  BY <1>12 DEF Share, Redeem, Mint, Revoke, BeginRead, EndRead,
               ownerVars, fileVars, shareHistory
<1>13. CASE UNCHANGED shareVars
  BY <1>13 DEF shareVars, ownerVars, fileVars, shareHistory
<1> QED
  BY <1>1, <1>2, <1>3, <1>4, <1>5, <1>6, <1>7, <1>8, <1>9, <1>10, <1>11, <1>12, <1>13
  DEF ShareNext, UploadStep

\* What is served is a whole export as long as no two uploads were under way at
\* once (uploads.py: "a partial upload is never served").
THEOREM OnlyWholeExports == Spec => []ServedWhole
<1>1. Init => ShareInv BY ShareStarts DEF Init
<1>2. ShareInv /\ [Next]_vars => ShareInv'
  BY ShareKeeps DEF Next, vars, shareVars
<1>3. ShareInv => ServedWhole BY DEF ShareInv
<1> QED BY <1>1, <1>2, <1>3, PTL DEF Spec
=============================================================================
