------------------------------- MODULE ChildPool -------------------------------
(***************************************************************************)
(* The hosted gateway's pool of per-user opyt-mcp processes                *)
(* (gateway/children.py, ChildPool) and the requests the gateway proxies   *)
(* to them (gateway/app.py, proxy and the sign-in relays).                 *)
(*                                                                         *)
(* The gateway is one asyncio process: an action is the code between two   *)
(* awaits.  Time is one bit per child: whether last_seen is further back   *)
(* than idle_seconds.  Ports, logs and the child's environment are left    *)
(* out.                                                                    *)
(***************************************************************************)
EXTENDS GatewayValues, Integers, FiniteSets

CONSTANTS
  Subjects,      \* users; a subject names one home
  Requests,      \* slots for requests being served
  Pids,          \* slots for child processes
  MaxVanish      \* bound: clients that disconnect before their release is armed

ASSUME PoolAssumption ==
  /\ MaxVanish \in Nat
  /\ None \notin Subjects \cup Requests \cup Pids

VARIABLES
  children,      \* _children: the routing table
  locks,         \* _locks: the request that holds a subject's lock
  proc,          \* what each process is doing
  subject,       \* Child.subject
  inflight,      \* Child.inflight
  idle,          \* children last seen more than idle_seconds ago
  watched,       \* children whose watcher task has not run yet
  request,       \* the requests being served
  reaper,        \* the child reap_once waits for, or None
  doomed,        \* reap_once's list, less the children it has come to
  vanished       \* clients that disconnected before their release was armed

childVars == <<proc, subject, inflight, idle, watched>>
reaperVars == <<reaper, doomed>>
poolVars == <<children, locks, childVars, request, reaperVars, vanished>>

ProcState == {"free", "starting", "up", "stopping", "dead"}
Request == [stage : {"none", "waiting", "spawning", "abandoning", "open", "held"},
            subject : Subjects \cup {None}, child : Pids \cup {None}]
NoRequest == [stage |-> "none", subject |-> None, child |-> None]

PoolInit ==
  /\ children = [s \in Subjects |-> None]
  /\ locks = [s \in Subjects |-> None]
  /\ proc = [p \in Pids |-> "free"]
  /\ subject = [p \in Pids |-> None]
  /\ inflight = [p \in Pids |-> 0]
  /\ idle = {}
  /\ watched = {}
  /\ request = [r \in Requests |-> NoRequest]
  /\ reaper = None
  /\ doomed = {}
  /\ vanished = 0

\* Child.alive: returncode is None.
Alive(p) == proc[p] \in {"starting", "up", "stopping"}

\* Counted in on a child: an MCP request it serves, or a sign-in relay.
Counted(r) == request[r].stage \in {"open", "held"}

OpenOn(p) == {r \in Requests : Counted(r) /\ request[r].child = p}

\* A process slot nothing refers to any more.
Unused(p) ==
  \/ proc[p] = "free"
  \/ /\ proc[p] = "dead"
     /\ p \notin watched \cup doomed \cup {reaper}
     /\ \A s \in Subjects : children[s] # p
     /\ \A r \in Requests : request[r].child # p

-----------------------------------------------------------------------------
(* acquire and release. *)

AsRequest(stage, s, p) == [stage |-> stage, subject |-> s, child |-> p]

\* A request for subject s reaches acquire.
Arrive(r, s) ==
  /\ request[r].stage = "none"
  /\ request' = [request EXCEPT ![r] = AsRequest("waiting", s, None)]
  /\ UNCHANGED <<children, locks, childVars, reaperVars, vanished>>

\* Count request r in on child p: last_seen = now, inflight += 1.
CountIn(r, p) ==
  /\ inflight' = [inflight EXCEPT ![p] = @ + 1]
  /\ idle' = idle \ {p}
  /\ request' = [request EXCEPT ![r] = AsRequest("open", request[r].subject, p)]

\* acquire with the lock free and a live child routed.
AcquireRouted(r) ==
  LET s == request[r].subject IN
  /\ request[r].stage = "waiting"
  /\ locks[s] = None
  /\ children[s] # None
  /\ Alive(children[s])
  /\ CountIn(r, children[s])
  /\ UNCHANGED <<children, locks, proc, subject, watched, reaperVars, vanished>>

\* Slip: no lock per subject.
BeginSpawn_Unlocked(r, p) ==
  LET s == request[r].subject IN
  /\ request[r].stage = "waiting"
  /\ children[s] # None => ~Alive(children[s])
  /\ children' = [children EXCEPT ![s] = None]
  /\ proc' = [proc EXCEPT ![p] = "starting"]
  /\ subject' = [subject EXCEPT ![p] = s]
  /\ inflight' = [inflight EXCEPT ![p] = 0]
  /\ idle' = idle \ {p}
  /\ request' = [request EXCEPT ![r] = AsRequest("spawning", s, p)]
  /\ UNCHANGED <<locks, watched, reaperVars, vanished>>

\* acquire with no child, or a dead one: drop the route and start a process
\* under the lock.
BeginSpawn(r, p) ==
  LET s == request[r].subject IN
  /\ request[r].stage = "waiting"
  /\ locks[s] = None
  /\ children[s] # None => ~Alive(children[s])
  /\ locks' = [locks EXCEPT ![s] = r]
  /\ children' = [children EXCEPT ![s] = None]
  /\ proc' = [proc EXCEPT ![p] = "starting"]
  /\ subject' = [subject EXCEPT ![p] = s]
  /\ inflight' = [inflight EXCEPT ![p] = 0]
  /\ idle' = idle \ {p}
  /\ request' = [request EXCEPT ![r] = AsRequest("spawning", s, p)]
  /\ UNCHANGED <<watched, reaperVars, vanished>>

Unlock(s) == locks' = [locks EXCEPT ![s] = None]

\* _spawn sees the port listening: route the child, watch it, count r in.
SpawnReady(r) ==
  LET s == request[r].subject
      p == request[r].child IN
  /\ request[r].stage = "spawning"
  /\ proc[p] = "starting"
  /\ proc' = [proc EXCEPT ![p] = "up"]
  /\ children' = [children EXCEPT ![s] = p]
  /\ watched' = watched \cup {p}
  /\ CountIn(r, p)
  /\ Unlock(s)
  /\ UNCHANGED <<subject, reaperVars, vanished>>

\* Slip: a failed spawn is tried again instead of reported.
SpawnFails_Retries(r) ==
  LET s == request[r].subject IN
  /\ request[r].stage \in {"spawning", "abandoning"}
  /\ proc[request[r].child] = "dead"
  /\ request' = [request EXCEPT ![r] = AsRequest("waiting", s, None)]
  /\ locks' = [locks EXCEPT ![s] = None]
  /\ UNCHANGED <<children, childVars, reaperVars, vanished>>

\* _spawn sees the process exited, or has waited for one it gave up on:
\* SpawnFailed, a 503.
SpawnFails(r) ==
  /\ request[r].stage \in {"spawning", "abandoning"}
  /\ proc[request[r].child] = "dead"
  /\ request' = [request EXCEPT ![r] = NoRequest]
  /\ Unlock(request[r].subject)
  /\ UNCHANGED <<children, childVars, reaperVars, vanished>>

\* The spawn deadline passes: _terminate, still under the lock.
SpawnTimesOut(r) ==
  /\ request[r].stage = "spawning"
  /\ proc[request[r].child] = "starting"
  /\ proc' = [proc EXCEPT ![request[r].child] = "stopping"]
  /\ request' = [request EXCEPT ![r].stage = "abandoning"]
  /\ UNCHANGED <<children, locks, subject, inflight, idle, watched, reaperVars, vanished>>

\* A sign-in relay holds the child its capability names (hold_login_child): no
\* lock, no table, only a child that is still alive.
Hold(r, p) ==
  /\ request[r].stage = "none"
  /\ p \in watched
  /\ Alive(p)
  /\ inflight' = [inflight EXCEPT ![p] = @ + 1]
  /\ idle' = idle \ {p}
  /\ request' = [request EXCEPT ![r] = AsRequest("held", subject[p], p)]
  /\ UNCHANGED <<children, locks, proc, subject, watched, reaperVars, vanished>>

\* Slip: a relay that does not release.
Done_Forgets(r) ==
  /\ Counted(r)
  /\ request' = [request EXCEPT ![r] = NoRequest]
  /\ UNCHANGED <<children, locks, childVars, reaperVars, vanished>>

\* The response ends, or the child cannot be reached: release.
Done(r) ==
  LET p == request[r].child IN
  /\ Counted(r)
  /\ inflight' = [inflight EXCEPT ![p] = IF @ > 0 THEN @ - 1 ELSE 0]
  /\ idle' = idle \ {p}
  /\ request' = [request EXCEPT ![r] = NoRequest]
  /\ UNCHANGED <<children, locks, proc, subject, watched, reaperVars, vanished>>

\* The client disconnects while proxy reads its body, or before relay() has
\* begun: the handler ends and nothing releases.
Vanish(r) ==
  /\ request[r].stage = "open"
  /\ vanished < MaxVanish
  /\ vanished' = vanished + 1
  /\ request' = [request EXCEPT ![r] = NoRequest]
  /\ UNCHANGED <<children, locks, childVars, reaperVars>>

-----------------------------------------------------------------------------
(* Lifecycle. *)

\* A process ends: by itself, or because it was told to (SIGKILL in the end).
Exit(p) ==
  /\ Alive(p)
  /\ proc' = [proc EXCEPT ![p] = "dead"]
  /\ UNCHANGED <<children, locks, subject, inflight, idle, watched, request,
                 reaperVars, vanished>>

\* Drop the routes that still lead to a process of S.
Unroute(S) ==
  children' = [s \in Subjects |-> IF children[s] \in S THEN None ELSE children[s]]

\* _watch: the watcher task wakes some time after the exit.
Watch(p) ==
  /\ p \in watched
  /\ proc[p] = "dead"
  /\ watched' = watched \ {p}
  /\ Unroute({p})
  /\ UNCHANGED <<locks, proc, subject, inflight, idle, request, reaperVars, vanished>>

\* idle_seconds pass since p was last seen.
GoIdle(p) ==
  /\ proc[p] = "up"
  /\ p \notin idle
  /\ idle' = idle \cup {p}
  /\ UNCHANGED <<children, locks, proc, subject, inflight, watched, request,
                 reaperVars, vanished>>

Routed == {children[s] : s \in Subjects} \ {None}

\* The children reap_once may end.
Reapable == {p \in Routed \cap idle : inflight[p] = 0}

\* The body of reap_once's loop, up to the next await: unroute and signal one
\* child of the list D, passing over some that have exited.
EndNext(D) ==
  /\ \/ /\ \A p \in D : ~Alive(p)
        /\ Unroute(D)
        /\ reaper' = None
        /\ doomed' = {}
        /\ UNCHANGED proc
     \/ \E p \in D, E \in SUBSET {q \in D : ~Alive(q)} :
          /\ Alive(p)
          /\ Unroute(E \cup {p})
          /\ proc' = [proc EXCEPT ![p] = "stopping"]
          /\ reaper' = p
          /\ doomed' = D \ (E \cup {p})
  /\ UNCHANGED <<locks, subject, inflight, idle, watched, request, vanished>>

\* reap_once draws up its list and ends the first child on it.
ReapBegin ==
  /\ reaper = None
  /\ Reapable # {}
  /\ EndNext(Reapable)

\* _terminate returns: on to the next child of the list drawn up then.
ReapNext ==
  /\ reaper # None
  /\ proc[reaper] = "dead"
  /\ EndNext(doomed)

-----------------------------------------------------------------------------

\* The steps of acquire.
Acquire(r) ==
  \/ AcquireRouted(r)
  \/ LET free == {p \in Pids : Unused(p)} IN   \* which one does not matter
       free # {} /\ BeginSpawn(r, CHOOSE p \in free : TRUE)

Spawning(r) == SpawnReady(r) \/ SpawnFails(r) \/ SpawnTimesOut(r)

ReaperStep == ReapBegin \/ ReapNext

PoolNext ==
  \/ \E r \in Requests :
       \/ \E s \in Subjects : Arrive(r, s)
       \/ Acquire(r)
       \/ Spawning(r)
       \/ \E p \in Pids : Hold(r, p)
       \/ Done(r)
       \/ Vanish(r)
  \/ \E p \in Pids : Exit(p) \/ Watch(p) \/ GoIdle(p)
  \/ ReaperStep

\* asyncio runs every ready task; a Lock wakes its waiters first come, first
\* served, so a request is not overtaken for ever; a process told to stop ends
\* (SIGKILL after the grace), and time passes.
PoolFairness ==
  /\ \A r \in Requests :
       SF_poolVars(Acquire(r)) /\ WF_poolVars(Spawning(r)) /\ WF_poolVars(Done(r))
  /\ \A p \in Pids :
       /\ WF_poolVars(proc[p] = "stopping" /\ Exit(p))
       /\ WF_poolVars(Watch(p))
       /\ WF_poolVars(GoIdle(p))
  /\ WF_poolVars(ReaperStep)

-----------------------------------------------------------------------------
(* Properties. *)

\* A subject has at most one process that is not on its way out, so two
\* processes never serve one home (ChildPool: "two children per user, each
\* writing the same home"), and one that serves is in the table, out of which nothing
\* would ever route to it or reap it.
OneServing ==
  \A p \in Pids :
    /\ proc[p] = "up" => children[subject[p]] = p
    /\ \A q \in Pids \ {p} :
         {proc[p], proc[q]} \subseteq {"starting", "up"} => subject[p] /= subject[q]

\* Every request gets a child or an error, whatever the requests before it on
\* the same lock ran into.  Nothing tells requests apart, so one is followed.
InAcquire(r) == request[r].stage \in {"waiting", "spawning", "abandoning"}
Followed == CHOOSE r \in Requests : TRUE
Answered == InAcquire(Followed) ~> ~InAcquire(Followed)

=============================================================================
