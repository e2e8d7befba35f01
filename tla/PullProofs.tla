------------------------------ MODULE PullProofs ------------------------------
(***************************************************************************)
(* That a pull which calls itself finished has finished its roster, for    *)
(* any number of Oracles, calls and runs.  The argument follows the worker *)
(* through its stages: what it has set out to walk is done, excused, under *)
(* way or still to come, and the last look finds nobody else.              *)
(* That what the user dismissed is not taken up again by a pull.           *)
(* And that no account which is only reached by accounts that point at one *)
(* another is trusted, whatever the order in which evidence comes in.      *)
(* And that no post falls between the windows of two pulls: the argument   *)
(* follows a pull under way, whose window begins before every stamp it has *)
(* met, and which has listed, read, lost or left alone for its date what   *)
(* came out within its window and before it began.                         *)
(***************************************************************************)
EXTENDS PullRuns, Publications, FiniteSetTheorems, WellFoundedInduction, TLAPS

RunRecord ==
  [roster : SUBSET Oracles, done : SUBSET Oracles, finished : BOOLEAN,
   reported : BOOLEAN, fresh : BOOLEAN]
WorkerRecord ==
  [stage : {"gone", "breadth", "deep", "late", "closing"}, broad : BOOLEAN,
   left : SUBSET Oracles, walked : SUBSET Oracles, looks : 0 .. Rounds,
   at : Oracles \cup {None}, held : BOOLEAN]
CallRecord ==
  [step : {"idle", "opening", "joining", "adding"}, picks : SUBSET Oracles,
   slot : Slots \cup {None}, held : BOOLEAN]

\* The state the argument needs, typed.
RunType ==
  /\ run \in [Slots -> RunRecord]
  /\ worker \in [Slots -> WorkerRecord]
  /\ call \in [Calls -> CallRecord]
  /\ \A c \in Calls : call[c].step = "joining" => call[c].slot \in Slots
  /\ latest \in Slots \cup {None}
  /\ excused \in [Slots -> SUBSET Oracles]

Settled(s) == run[s].done \cup excused[s]

\* Where the worker of a run stands with the run's roster.
Accounted(s) ==
  /\ run[s].finished => worker[s].stage = "gone"
  /\ run[s].finished \/ worker[s].stage = "closing" => run[s].roster \subseteq Settled(s)
  /\ worker[s].stage \in {"deep", "late"} =>
       worker[s].walked \subseteq Settled(s) \cup worker[s].left \cup {worker[s].at}
  /\ worker[s].stage \in {"breadth", "deep", "late"} /\ worker[s].looks = 0 =>
       run[s].roster \subseteq Settled(s) \cup worker[s].walked

PullInv == RunType /\ \A s \in Slots : Accounted(s)

LEMMA PullStarts == Init => PullInv
  BY PullAssumption
     DEF Init, PullInv, RunType, RunRecord, WorkerRecord, CallRecord, Accounted, Settled, NoRun, Gone, Idle

\* A step that leaves runs, workers, calls and excuses alone.
LEMMA PullStutters ==
  ASSUME PullInv, UNCHANGED <<run, worker, call, excused, latest>> PROVE PullInv'
  BY DEF PullInv, RunType, Accounted, Settled

\* The calls: ingest, open_run, add_picks, progress, add_oracle.
LEMMA IngestKeeps ==
  ASSUME PullInv, NEW c \in Calls, NEW picks \in SUBSET Oracles, Ingest(c, picks) PROVE PullInv'
<1>1. InFlight => latest \in Slots BY DEF InFlight, PullInv, RunType
<1>2. RunType'
  BY <1>1 DEF Ingest, PullInv, RunType, CallRecord, Idle
<1> QED BY <1>2 DEF Ingest, PullInv, Accounted, Settled

LEMMA OpensKeeps == ASSUME PullInv, NEW c \in Calls, Opens(c) PROVE PullInv'
<1>1. PICK s \in Slots :
        /\ Spare(s)
        /\ run' = [t \in Slots |->
             IF t = s THEN [NoRun EXCEPT !.roster = call[c].picks, !.fresh = TRUE]
             ELSE IF Spare(t) THEN NoRun ELSE run[t]]
        /\ worker' = [worker EXCEPT ![s] =
             [Gone EXCEPT !.stage = IF c \in Deepens THEN "breadth" ELSE "deep",
                          !.broad = c \in Deepens, !.left = call[c].picks, !.walked = call[c].picks,
                          !.looks = Rounds]]
        /\ excused' = [t \in Slots |-> IF Spare(t) THEN {} ELSE excused[t]]
        /\ latest' = s
        /\ call' = [call EXCEPT ![c] = Idle]
  BY DEF Opens
<1>2. RunType'
  <2> DEFINE fresh == [NoRun EXCEPT !.roster = call[c].picks, !.fresh = TRUE]
             thread == [Gone EXCEPT !.stage = IF c \in Deepens THEN "breadth" ELSE "deep",
                          !.broad = c \in Deepens, !.left = call[c].picks, !.walked = call[c].picks,
                          !.looks = Rounds]
  <2>0. call[c].picks \in SUBSET Oracles BY DEF PullInv, RunType, CallRecord
  <2>1. fresh \in RunRecord /\ NoRun \in RunRecord BY <2>0 DEF RunRecord, NoRun
  <2>2. thread \in WorkerRecord
    <3> DEFINE broad == c \in Deepens
               stage == IF c \in Deepens THEN "breadth" ELSE "deep"
    <3>1. broad \in BOOLEAN /\ stage \in {"breadth", "deep"} OBVIOUS
    <3>2. thread = [Gone EXCEPT !.stage = stage, !.broad = broad, !.left = call[c].picks,
                                !.walked = call[c].picks, !.looks = Rounds]
      OBVIOUS
    <3>3. Rounds \in 0 .. Rounds BY PullAssumption
    <3> HIDE DEF broad, stage, thread
    <3> QED BY <2>0, <3>1, <3>2, <3>3 DEF WorkerRecord, Gone
  <2>3. /\ Idle \in CallRecord /\ Idle.step /= "joining" BY DEF CallRecord, Idle
  <2>4. run' \in [Slots -> RunRecord] /\ excused' \in [Slots -> SUBSET Oracles]
    <3> HIDE DEF fresh
    <3> QED BY <1>1, <2>1 DEF PullInv, RunType, fresh
  <2>5. worker' \in [Slots -> WorkerRecord]
    <3>1. worker' = [worker EXCEPT ![s] = thread] BY <1>1
    <3> HIDE DEF thread
    <3> QED BY <3>1, <2>2 DEF PullInv, RunType
  <2>6. /\ call' \in [Calls -> CallRecord]
        /\ \A d \in Calls : call'[d].step = "joining" => call'[d].slot \in Slots
    BY <1>1, <2>3 DEF PullInv, RunType
  <2> QED BY <1>1, <2>4, <2>5, <2>6 DEF RunType
<1>3. ASSUME NEW t \in Slots PROVE Accounted(t)'
  <2>1. CASE t = s
    <3>1. run'[t] = [NoRun EXCEPT !.roster = call[c].picks, !.fresh = TRUE]
      BY <1>1, <2>1 DEF PullInv, RunType
    <3>2. ~run'[t].finished BY <3>1 DEF NoRun
    <3>3. /\ worker'[t].walked = call[c].picks /\ worker'[t].left = call[c].picks
          /\ worker'[t].stage \in {"breadth", "deep"} /\ worker'[t].looks = Rounds
      BY <1>1, <2>1 DEF PullInv, RunType, Gone
    <3> QED BY <3>2, <3>3, PullAssumption DEF Accounted
  <2>2. CASE t /= s /\ Spare(t)
    BY <1>1, <2>2 DEF PullInv, RunType, Accounted, Settled, NoRun, Spare, Working
  <2>3. CASE t /= s /\ ~Spare(t)
    BY <1>1, <2>3 DEF PullInv, RunType, Accounted, Settled
  <2> QED BY <2>1, <2>2, <2>3
<1> QED BY <1>2, <1>3 DEF PullInv

LEMMA JoinsKeeps == ASSUME PullInv, NEW c \in Calls, Joins(c) PROVE PullInv'
<1> DEFINE s == call[c].slot
           fresh == call[c].picks \ run[s].roster
<1>1. s \in Slots /\ fresh \subseteq Oracles BY DEF Joins, PullInv, RunType, CallRecord
<1>2. /\ run' = [run EXCEPT ![s].roster = @ \cup fresh]
      /\ excused' = [excused EXCEPT ![s] = IF WillLook(s) THEN @ ELSE @ \cup fresh]
      /\ call' = [call EXCEPT ![c] = Idle]
      /\ UNCHANGED <<worker, latest>>
  BY DEF Joins
<1> HIDE DEF fresh
<1>3. RunType'
  <2>1. run[s] \in RunRecord /\ run[s].roster \cup fresh \in SUBSET Oracles
    BY <1>1 DEF PullInv, RunType, RunRecord
  <2>2. [run[s] EXCEPT !.roster = @ \cup fresh] \in RunRecord
    BY <2>1 DEF RunRecord
  <2>3. run' \in [Slots -> RunRecord] BY <1>1, <1>2, <2>2 DEF PullInv, RunType
  <2>4. excused' \in [Slots -> SUBSET Oracles]
    BY <1>1, <1>2 DEF PullInv, RunType
  <2>5. /\ call' \in [Calls -> CallRecord]
        /\ \A d \in Calls : call'[d].step = "joining" => call'[d].slot \in Slots
    BY <1>2 DEF PullInv, RunType, CallRecord, Idle
  <2> QED BY <1>2, <2>3, <2>4, <2>5 DEF PullInv, RunType
<1>4. ASSUME NEW t \in Slots PROVE Accounted(t)'
  <2>1. CASE t /= s BY <1>1, <1>2, <2>1 DEF PullInv, RunType, RunRecord, Accounted, Settled
  <2>2. CASE t = s /\ WillLook(s)
    BY <1>1, <1>2, <2>2 DEF PullInv, RunType, RunRecord, Accounted, Settled, WillLook
  <2>3. CASE t = s /\ ~WillLook(s)
    BY <1>1, <1>2, <2>3 DEF PullInv, RunType, RunRecord, Accounted, Settled, WillLook
  <2> QED BY <2>1, <2>2, <2>3
<1> QED BY <1>3, <1>4 DEF PullInv

\* Steps that change a run only in its reported and fresh fields.
LEMMA FlagsKeep ==
  ASSUME PullInv, NEW s \in Slots, UNCHANGED <<worker, call, excused, latest>>,
         \/ run' = [run EXCEPT ![s].reported = TRUE]
         \/ run' = [run EXCEPT ![s].fresh = TRUE]
         \/ run' = [run EXCEPT ![s].fresh = FALSE]
  PROVE  PullInv'
<1>1. run[s] \in RunRecord BY DEF PullInv, RunType
<1>2. /\ [run[s] EXCEPT !.reported = TRUE] \in RunRecord
      /\ [run[s] EXCEPT !.fresh = TRUE] \in RunRecord
      /\ [run[s] EXCEPT !.fresh = FALSE] \in RunRecord
  BY <1>1 DEF RunRecord
<1>3. run' \in [Slots -> RunRecord] BY <1>2 DEF PullInv, RunType
<1>4. RunType' BY <1>3 DEF PullInv, RunType
<1>5. \A t \in Slots : run'[t].roster = run[t].roster /\ run'[t].done = run[t].done
                       /\ run'[t].finished = run[t].finished
  BY DEF PullInv, RunType, RunRecord
<1>6. ASSUME NEW t \in Slots PROVE Accounted(t)'
  BY <1>5 DEF PullInv, Accounted, Settled
<1> QED BY <1>4, <1>6 DEF PullInv

LEMMA AddKeeps ==
  ASSUME PullInv, NEW c \in Calls, (\E o \in Oracles : AddBegins(c, o)) \/ AddEnds(c) PROVE PullInv'
<1>1. PICK entry \in CallRecord : call' = [call EXCEPT ![c] = entry] /\ entry.step /= "joining"
  <2>1. CASE AddEnds(c)
    <3>1. Idle \in CallRecord /\ Idle.step /= "joining" BY DEF CallRecord, Idle
    <3> QED BY <2>1, <3>1 DEF AddEnds
  <2>2. ASSUME NEW o \in Oracles, AddBegins(c, o)
        PROVE  \E entry \in CallRecord :
                 call' = [call EXCEPT ![c] = entry] /\ entry.step /= "joining"
    <3>1. HeldOut(o) \in BOOLEAN BY DEF HeldOut
    <3>2. [Idle EXCEPT !.step = "adding", !.picks = {o}, !.held = HeldOut(o)] \in CallRecord
      BY <3>1 DEF Idle, CallRecord
    <3>3. [Idle EXCEPT !.step = "adding", !.picks = {o}, !.held = HeldOut(o)].step /= "joining"
      BY DEF Idle
    <3> QED BY <2>2, <3>2, <3>3 DEF AddBegins
  <2> QED BY <2>1, <2>2
<1>3. RunType'
  BY <1>1 DEF AddBegins, AddEnds, PullInv, RunType
<1>2. UNCHANGED <<run, worker, excused>> BY DEF AddBegins, AddEnds
<1> QED BY <1>2, <1>3 DEF PullInv, Accounted, Settled

-----------------------------------------------------------------------------
(* The worker thread *)

\* Steps that change no more than the worker of s and what it is excused.
LEMMA WorkerTyped ==
  ASSUME PullInv, NEW s \in Slots, NEW thread \in WorkerRecord,
         worker' = [worker EXCEPT ![s] = thread],
         run' \in [Slots -> RunRecord], excused' \in [Slots -> SUBSET Oracles],
         UNCHANGED <<call, latest>>,
         \A t \in Slots \ {s} : run'[t] = run[t] /\ excused'[t] = excused[t],
         Accounted(s)'
  PROVE  PullInv'
<1>1. RunType' BY DEF PullInv, RunType
<1>2. ASSUME NEW t \in Slots PROVE Accounted(t)'
  <2>1. CASE t /= s BY <2>1 DEF PullInv, RunType, Accounted, Settled
  <2> QED BY <2>1
<1> QED BY <1>1, <1>2 DEF PullInv

LEMMA VisitKeeps == ASSUME PullInv, NEW s \in Slots, Visit(s) PROVE PullInv'
<1>1. PICK o \in worker[s].left :
        IF worker[s].stage = "late" /\ o \notin confirmed
        THEN /\ worker' = [worker EXCEPT ![s].left = @ \ {o}]
             /\ excused' = [excused EXCEPT ![s] = @ \cup {o}]
        ELSE /\ worker' = [worker EXCEPT ![s].left = @ \ {o}, ![s].at = o, ![s].held = HeldOut(o)]
             /\ UNCHANGED excused
  BY DEF Visit
<1>2. /\ worker[s] \in WorkerRecord /\ o \in Oracles /\ worker[s].at = None
      /\ UNCHANGED <<run, call, latest>> /\ Working(s)
  BY <1>1 DEF Visit, PullInv, RunType, WorkerRecord
<1>3. CASE worker[s].stage = "late" /\ o \notin confirmed
  <2> DEFINE thread == [worker[s] EXCEPT !.left = @ \ {o}]
  <2>1. thread \in WorkerRecord BY <1>2 DEF WorkerRecord
  <2>2. worker' = [worker EXCEPT ![s] = thread] BY <1>1, <1>3 DEF PullInv, RunType
  <2>3. excused' \in [Slots -> SUBSET Oracles] /\ excused'[s] = excused[s] \cup {o}
    BY <1>1, <1>2, <1>3 DEF PullInv, RunType
  <2>4. worker'[s] = thread BY <2>2 DEF PullInv, RunType
  <2>5. Accounted(s)' BY <1>2, <1>3, <2>3, <2>4 DEF PullInv, Accounted, Settled, WorkerRecord, Working
  <2>6. \A t \in Slots \ {s} : run'[t] = run[t] /\ excused'[t] = excused[t]
    BY <1>1, <1>2, <1>3 DEF PullInv, RunType
  <2> HIDE DEF thread
  <2> QED BY <1>2, <2>1, <2>2, <2>3, <2>5, <2>6, WorkerTyped DEF PullInv, RunType
<1>4. CASE ~(worker[s].stage = "late" /\ o \notin confirmed)
  <2> DEFINE thread == [worker[s] EXCEPT !.left = @ \ {o}, !.at = o, !.held = HeldOut(o)]
  <2>1. thread \in WorkerRecord
    <3>1. HeldOut(o) \in BOOLEAN BY DEF HeldOut
    <3> QED BY <1>2, <3>1 DEF WorkerRecord
  <2>2. worker' = [worker EXCEPT ![s] = thread] BY <1>1, <1>4 DEF PullInv, RunType
  <2>3. worker'[s] = thread /\ UNCHANGED excused BY <1>1, <1>4, <2>2 DEF PullInv, RunType
  <2>4. /\ worker'[s].left = worker[s].left \ {o} /\ worker'[s].at = o
        /\ worker'[s].stage = worker[s].stage /\ worker'[s].walked = worker[s].walked
    BY <1>2, <2>3 DEF WorkerRecord
  <2>5. None \notin worker[s].walked BY <1>2, PullAssumption DEF WorkerRecord
  <2>6. Accounted(s)' BY <1>1, <1>2, <2>3, <2>4, <2>5 DEF PullInv, Accounted, Settled, Working
  <2> HIDE DEF thread
  <2> QED BY <1>2, <2>1, <2>2, <2>3, <2>6, WorkerTyped DEF PullInv, RunType
<1> QED BY <1>3, <1>4

LEMMA VisitEndKeeps == ASSUME PullInv, NEW s \in Slots, VisitEnds(s) PROVE PullInv'
<1> DEFINE o == worker[s].at
           thread == [worker[s] EXCEPT !.at = None, !.held = FALSE]
           mine == [run[s] EXCEPT !.done = @ \cup {o}]
<1>1. /\ worker[s] \in WorkerRecord /\ run[s] \in RunRecord /\ o \in Oracles
      /\ UNCHANGED <<call, latest>>
  BY DEF VisitEnds, PullInv, RunType, WorkerRecord
<1>2. thread \in WorkerRecord /\ worker' = [worker EXCEPT ![s] = thread] /\ worker'[s] = thread
  BY <1>1 DEF VisitEnds, PullInv, RunType, WorkerRecord
<1>3. mine \in RunRecord BY <1>1 DEF RunRecord
<1>4. CASE worker[s].stage = "breadth"
  <2>1. UNCHANGED <<run, excused>> BY <1>4 DEF VisitEnds
  <2>2. Accounted(s)' BY <1>1, <1>2, <1>4, <2>1 DEF PullInv, Accounted, Settled, WorkerRecord
  <2> HIDE DEF thread
  <2> QED BY <1>1, <1>2, <2>1, <2>2, WorkerTyped DEF PullInv, RunType
<1>5. CASE worker[s].stage /= "breadth" /\ run' = [run EXCEPT ![s].done = @ \cup {o}] /\ UNCHANGED excused
  <2>1. run' = [run EXCEPT ![s] = mine] BY <1>5 DEF PullInv, RunType
  <2>2. run' \in [Slots -> RunRecord] /\ run'[s] = mine /\ \A t \in Slots \ {s} : run'[t] = run[t]
    BY <1>3, <2>1 DEF PullInv, RunType
  <2>3. /\ run'[s].done = run[s].done \cup {o} /\ run'[s].roster = run[s].roster
        /\ run'[s].finished = run[s].finished
    BY <1>1, <2>2 DEF RunRecord
  <2>4. Accounted(s)' BY <1>1, <1>2, <1>5, <2>3 DEF PullInv, Accounted, Settled, WorkerRecord
  <2> HIDE DEF thread, mine
  <2> QED BY <1>1, <1>2, <1>5, <2>2, <2>4, WorkerTyped DEF PullInv, RunType
<1>6. CASE worker[s].stage /= "breadth" /\ excused' = [excused EXCEPT ![s] = @ \cup {o}] /\ UNCHANGED run
  <2>1. /\ excused' \in [Slots -> SUBSET Oracles] /\ excused'[s] = excused[s] \cup {o}
        /\ \A t \in Slots \ {s} : excused'[t] = excused[t]
    BY <1>1, <1>6 DEF PullInv, RunType
  <2>2. Accounted(s)' BY <1>1, <1>2, <1>6, <2>1 DEF PullInv, Accounted, Settled, WorkerRecord
  <2> HIDE DEF thread
  <2> QED BY <1>1, <1>2, <1>6, <2>1, <2>2, WorkerTyped DEF PullInv, RunType
<1> QED BY <1>4, <1>5, <1>6 DEF VisitEnds, Marks

\* A thread that is gone owes nothing more than it did.
LEMMA GoneKeeps ==
  ASSUME PullInv, NEW s \in Slots, Working(s), worker' = [worker EXCEPT ![s] = Gone],
         UNCHANGED <<run, call, latest, excused>>
  PROVE  PullInv'
<1>1. Gone \in WorkerRecord BY PullAssumption DEF Gone, WorkerRecord
<1>2. worker'[s].stage = "gone" BY DEF PullInv, RunType, Gone
<1>3. Accounted(s)' BY <1>2 DEF PullInv, Accounted, Settled
<1> HIDE DEF Gone
<1> QED BY <1>1, <1>3, WorkerTyped DEF PullInv, RunType

LEMMA VisitFailKeeps == ASSUME PullInv, NEW s \in Slots, VisitFails(s) PROVE PullInv'
<1> DEFINE o == worker[s].at
           thread == [worker[s] EXCEPT !.at = None, !.held = FALSE]
<1>1. /\ worker[s] \in WorkerRecord /\ o \in Oracles
      /\ UNCHANGED <<run, call, latest>>
  BY DEF VisitFails, PullInv, RunType, WorkerRecord
<1>2. CASE worker[s].stage = "late"
  <2>1. thread \in WorkerRecord /\ worker' = [worker EXCEPT ![s] = thread] /\ worker'[s] = thread
    BY <1>1, <1>2 DEF VisitFails, PullInv, RunType, WorkerRecord
  <2>2. /\ excused' \in [Slots -> SUBSET Oracles] /\ excused'[s] = excused[s] \cup {o}
        /\ \A t \in Slots \ {s} : excused'[t] = excused[t]
    BY <1>1, <1>2 DEF VisitFails, PullInv, RunType
  <2>3. Accounted(s)' BY <1>1, <1>2, <2>1, <2>2 DEF PullInv, Accounted, Settled, WorkerRecord
  <2> HIDE DEF thread
  <2> QED BY <1>1, <2>1, <2>2, <2>3, WorkerTyped DEF PullInv, RunType
<1>3. CASE worker[s].stage /= "late"
  <2>1. Working(s) \/ worker[s].stage = "gone" BY DEF Working
  <2>2. worker' = [worker EXCEPT ![s] = Gone] /\ UNCHANGED excused
    BY <1>3 DEF VisitFails
  <2>3. CASE Working(s) BY <1>1, <2>2, <2>3, GoneKeeps
  <2>4. CASE worker[s].stage = "gone"
    <3>1. Gone \in WorkerRecord BY PullAssumption DEF Gone, WorkerRecord
    <3>2. worker'[s].stage = "gone" BY <2>2 DEF PullInv, RunType, Gone
    <3>3. Accounted(s)' BY <1>1, <2>2, <2>4, <3>2 DEF PullInv, Accounted, Settled
    <3> HIDE DEF Gone
    <3> QED BY <1>1, <2>2, <3>1, <3>3, WorkerTyped DEF PullInv, RunType
  <2> QED BY <2>1, <2>3, <2>4
<1> QED BY <1>2, <1>3

\* A worker that closes has everyone on the roster settled.
LEMMA ClosingKeeps ==
  ASSUME PullInv, NEW s \in Slots, StageOver(s), worker[s].stage /= "breadth",
         worker' = [worker EXCEPT ![s].stage = "closing"], UNCHANGED <<run, call, latest>>,
         NEW also \in SUBSET Oracles, excused' = [excused EXCEPT ![s] = @ \cup also],
         run[s].roster \subseteq Settled(s) \cup worker[s].walked \cup also
  PROVE  PullInv'
<1> DEFINE thread == [worker[s] EXCEPT !.stage = "closing"]
<1>1. worker[s] \in WorkerRecord /\ run[s] \in RunRecord BY DEF PullInv, RunType
<1>2. thread \in WorkerRecord /\ worker' = [worker EXCEPT ![s] = thread] /\ worker'[s] = thread
  BY <1>1 DEF PullInv, RunType, WorkerRecord
<1>3. /\ excused' \in [Slots -> SUBSET Oracles] /\ excused'[s] = excused[s] \cup also
      /\ \A t \in Slots \ {s} : excused'[t] = excused[t]
  BY DEF PullInv, RunType
<1>4. worker[s].walked \subseteq Settled(s) \cup {None} BY DEF StageOver, PullInv, Accounted
<1>5. None \notin Oracles BY PullAssumption
<1>6. run[s].roster \subseteq Settled(s)' BY <1>1, <1>3, <1>4, <1>5 DEF Settled, RunRecord
<1>7. ~run[s].finished BY DEF StageOver, PullInv, Accounted
<1>8. worker'[s].stage = "closing" BY <1>1, <1>2 DEF WorkerRecord
<1>9. Accounted(s)' BY <1>6, <1>7, <1>8 DEF Accounted
<1> HIDE DEF thread
<1> QED BY <1>2, <1>3, <1>9, WorkerTyped DEF PullInv, RunType

LEMMA LookFailKeeps == ASSUME PullInv, NEW s \in Slots, LookFails(s) PROVE PullInv'
<1>1. Late(s) \in SUBSET Oracles BY DEF Late, PullInv, RunType, RunRecord
<1>2. run[s].roster \subseteq Settled(s) \cup worker[s].walked \cup Late(s) BY DEF Late, Settled
<1> QED BY <1>1, <1>2, ClosingKeeps DEF LookFails

\* The look that finds nobody has everyone on the roster settled, and so has a worker
\* that has had its looks: whoever came after the last of them is excused.
LEMMA StageEndKeeps == ASSUME PullInv, NEW s \in Slots, StageEnds(s) PROVE PullInv'
<1> DEFINE deep == [worker[s] EXCEPT !.stage = "deep", !.left = worker[s].walked]
           looked == [worker[s] EXCEPT !.stage = "late", !.left = Late(s),
                                       !.walked = @ \cup Late(s), !.looks = @ - 1]
<1>1. /\ worker[s] \in WorkerRecord /\ run[s] \in RunRecord
      /\ UNCHANGED <<run, call, latest, excused>> /\ StageOver(s)
      /\ worker[s].at = None /\ worker[s].left = {}
      /\ worker[s].stage \in {"breadth", "deep", "late"}
  BY DEF StageEnds, StageOver, PullInv, RunType
<1>2. CASE worker[s].stage = "breadth"
  <2>1. deep \in WorkerRecord /\ worker' = [worker EXCEPT ![s] = deep] /\ worker'[s] = deep
    BY <1>1, <1>2 DEF StageEnds, PullInv, RunType, WorkerRecord
  <2>2. Accounted(s)' BY <1>1, <1>2, <2>1 DEF PullInv, Accounted, Settled, WorkerRecord
  <2> HIDE DEF deep
  <2> QED BY <1>1, <1>2, <2>1, <2>2, WorkerTyped DEF PullInv, RunType
<1>3. CASE worker[s].stage /= "breadth" /\ (worker[s].looks = 0 \/ Late(s) = {})
  <2>1. worker' = [worker EXCEPT ![s].stage = "closing"] BY <1>3 DEF StageEnds, PullInv, RunType
  <2>2. run[s].roster \subseteq Settled(s) \cup worker[s].walked
    BY <1>1, <1>3 DEF PullInv, Accounted, Late, Settled
  <2>3. excused' = [excused EXCEPT ![s] = @ \cup {}] BY <1>1 DEF PullInv, RunType
  <2> QED BY <1>1, <1>3, <2>1, <2>2, <2>3, ClosingKeeps
<1>4. CASE worker[s].stage /= "breadth" /\ worker[s].looks /= 0 /\ Late(s) /= {}
  <2>1. Late(s) \in SUBSET Oracles BY <1>1 DEF RunRecord, Late
  <2>2. worker' = [worker EXCEPT ![s] = looked] BY <1>1, <1>4 DEF StageEnds, PullInv, RunType
  <2>3. looked \in WorkerRecord
    <3>1. worker[s].looks - 1 \in 0 .. Rounds BY <1>1, <1>4, PullAssumption DEF WorkerRecord
    <3>2. worker[s].walked \cup Late(s) \in SUBSET Oracles BY <1>1, <2>1 DEF WorkerRecord
    <3> QED BY <1>1, <2>1, <3>1, <3>2 DEF WorkerRecord
  <2>4. worker'[s] = looked BY <2>2 DEF PullInv, RunType
  <2>5. /\ worker'[s].stage = "late" /\ worker'[s].left = Late(s) /\ worker'[s].at = None
        /\ worker'[s].walked = worker[s].walked \cup Late(s)
    BY <1>1, <2>4 DEF WorkerRecord
  <2>6. worker[s].walked \subseteq Settled(s) \cup {None}
    BY <1>1, <1>4 DEF PullInv, Accounted
  <2>7. ~run[s].finished BY <1>1 DEF PullInv, Accounted
  <2>8. Accounted(s)' BY <1>1, <2>5, <2>6, <2>7 DEF Accounted, Settled, Late
  <2> HIDE DEF looked
  <2> QED BY <1>1, <2>2, <2>3, <2>8, WorkerTyped DEF PullInv, RunType
<1> QED BY <1>2, <1>3, <1>4

LEMMA CloseKeeps == ASSUME PullInv, NEW s \in Slots, Closes(s) PROVE PullInv'
<1>1. /\ Gone \in WorkerRecord /\ worker' = [worker EXCEPT ![s] = Gone]
      /\ worker'[s].stage = "gone" /\ UNCHANGED <<call, latest, excused>>
  BY PullAssumption DEF Closes, Gone, WorkerRecord, PullInv, RunType
<1>2. [run[s] EXCEPT !.finished = TRUE] \in RunRecord BY ZenonT(30) DEF PullInv, RunType, RunRecord
<1>3. run' = [run EXCEPT ![s] = [run[s] EXCEPT !.finished = TRUE]]
  BY DEF Closes, PullInv, RunType
<1>4. /\ run' \in [Slots -> RunRecord] /\ \A t \in Slots \ {s} : run'[t] = run[t]
      /\ run'[s] = [run[s] EXCEPT !.finished = TRUE]
  BY <1>2, <1>3 DEF PullInv, RunType
<1>5. run'[s].roster = run[s].roster /\ run'[s].done = run[s].done
  BY <1>4 DEF PullInv, RunType, RunRecord
<1>6. run[s].roster \subseteq Settled(s) BY DEF Closes, PullInv, Accounted
<1>7. Accounted(s)' BY <1>1, <1>5, <1>6 DEF Accounted, Settled
<1> HIDE DEF Gone
<1> QED BY <1>1, <1>4, <1>7, WorkerTyped DEF PullInv, RunType

-----------------------------------------------------------------------------
(* All steps together *)

LEMMA PullSteps == ASSUME PullInv, [Next]_vars PROVE PullInv'
<1>1. CASE UNCHANGED vars BY <1>1, PullStutters DEF vars
<1>2. ASSUME NEW o \in Oracles, Confirm(o) \/ Forget(o) PROVE PullInv'
  BY <1>2, PullStutters DEF Confirm, Forget
<1>3. ASSUME NEW c \in Calls, NEW picks \in SUBSET Oracles, Ingest(c, picks) PROVE PullInv'
  BY <1>3, IngestKeeps
<1>4. ASSUME NEW c \in Calls, (\E o \in Oracles : AddBegins(c, o)) \/ AddEnds(c) PROVE PullInv'
  BY <1>4, AddKeeps
<1>5. ASSUME NEW c \in Calls, Opens(c) \/ Joins(c) PROVE PullInv'
  BY <1>5, OpensKeeps, JoinsKeeps
<1>6. ASSUME NEW c \in Calls, Decides(c) \/ Dismisses PROVE PullInv'
  BY <1>6, PullStutters DEF Decides, Dismisses
<1>7. CASE Progress
  <2>1. latest \in Slots BY <1>7 DEF Progress, PullInv, RunType
  <2> QED BY <1>7, <2>1, FlagsKeep DEF Progress
<1>8. ASSUME NEW s \in Slots, Notice(s) \/ Lapses(s) \/ Beats(s) PROVE PullInv'
  BY <1>8, FlagsKeep DEF Notice, Lapses, Beats
<1>9. ASSUME NEW s \in Slots, WorkerStep(s) \/ VisitFails(s) \/ LookFails(s) PROVE PullInv'
  BY <1>9, VisitKeeps, VisitEndKeeps, StageEndKeeps, CloseKeeps, VisitFailKeeps, LookFailKeeps
     DEF WorkerStep
<1>10. ASSUME NEW s \in Slots, Dies(s) PROVE PullInv'
  BY <1>10, GoneKeeps DEF Dies
<1>11. CASE Dismisses BY <1>11, PullStutters DEF Dismisses
<1> QED BY <1>1, <1>2, <1>3, <1>4, <1>5, <1>6, <1>7, <1>8, <1>9, <1>10, <1>11 DEF Next, CallStep

\* RosterFinished, for any number of Oracles, calls, runs, looks and troubles: a pull that
\* calls itself finished has finished everyone on its roster, but for those it was told
\* of after its last look, lost to an exception, could not record, could not look for or
\* that were forgotten (pull_runs.close_run after oracle_tools._finish_late_arrivals).
THEOREM FinishedRosters == Spec => []RosterFinished
<1>1. Init => PullInv BY PullStarts
<1>2. PullInv /\ [Next]_vars => PullInv' BY PullSteps
<1>3. PullInv => RosterFinished BY DEF PullInv, Accounted, Settled, RosterFinished
<1> QED BY <1>1, <1>2, <1>3, PTL DEF Spec, SafeSpec
-----------------------------------------------------------------------------
(* What the user decided (SourceReviews).  A dismissed source is safe because   *)
(* no decision about it is under way: none can begin on it any more, and one    *)
(* that had begun before makes it a crossed one.                                *)

Statuses == {"none", "pending", "verified", "approved", "dismissed"}
Decision == [action : {"none", "add", "verify"}, of : Oracles \cup {None}]

\* What the steps of the pulls and of the reviews keep.
ReviewInv ==
  /\ review \in [Oracles -> Statuses]
  /\ deciding \in [Calls -> Decision]
  /\ crossed \subseteq Oracles
  /\ \A o \in Oracles : review[o] = "dismissed" /\ o \notin crossed => ~UnderWay(o)

\* One step's part of the property.
StaysOut ==
  \A o \in Oracles :
    review[o] = "dismissed" /\ o \notin crossed =>
      review'[o] = "dismissed" \/ o \notin confirmed'

LEMMA ReviewsStart == Init => ReviewInv
  BY DEF Init, ReviewInit, ReviewInv, Statuses, Decision, NoDecision

\* Steps of discovery: an item may be opened, none that a decision holds moves.
Replays ==
  /\ UNCHANGED <<deciding, crossed>>
  /\ review' \in [Oracles -> Statuses]
  /\ \A o \in Oracles : review[o] \in Held => review'[o] = review[o]
  /\ \A o \in Oracles : review'[o] = "dismissed" => review[o] = "dismissed"

LEMMA ReplaysKeep == ASSUME ReviewInv, Replays PROVE ReviewInv' /\ StaysOut
<1>1. \A o \in Oracles : UnderWay(o)' <=> UnderWay(o) BY DEF Replays, UnderWay
<1> QED BY <1>1 DEF Replays, ReviewInv, StaysOut, Held

LEMMA SameReviews == ASSUME ReviewInv, UNCHANGED reviewVars PROVE Replays
  BY DEF ReviewInv, Replays, reviewVars

LEMMA RouteReplays ==
  ASSUME ReviewInv, NEW o \in Oracles, NEW held \in BOOLEAN, Route(o, held),
         UNCHANGED <<deciding, crossed>>
  PROVE  Replays
<1>1. CASE UNCHANGED review BY <1>1 DEF ReviewInv, Replays
<1>2. CASE RecordOutcome(o) BY <1>2 DEF RecordOutcome, ReviewInv, Replays, Statuses, Held
<1> QED BY <1>1, <1>2 DEF Route

LEMMA ForgetsKeepOut ==
  ASSUME ReviewInv, NEW o \in Oracles, Forget(o) PROVE ReviewInv' /\ StaysOut
<1>1. /\ o \notin confirmed' /\ review' = [review EXCEPT ![o] = "none"]
      /\ crossed' = crossed \ {o} /\ deciding' = deciding
  BY DEF Forget, ReviewForgets
<1>2. review' \in [Oracles -> Statuses] BY <1>1 DEF ReviewInv, Statuses
<1>3. \A p \in Oracles : UnderWay(p)' <=> UnderWay(p) BY <1>1 DEF UnderWay
<1> QED BY <1>1, <1>2, <1>3 DEF ReviewInv, StaysOut

LEMMA DismissKeepsOut ==
  ASSUME ReviewInv, NEW o \in Oracles, ReviewDismisses(o) PROVE ReviewInv' /\ StaysOut
<1>1. /\ review' = [review EXCEPT ![o] = IF @ = "none" THEN @ ELSE "dismissed"]
      /\ crossed' = (IF UnderWay(o) THEN crossed \cup {o} ELSE crossed)
      /\ deciding' = deciding
  BY DEF ReviewDismisses, SetStatus
<1>2. review' \in [Oracles -> Statuses] BY <1>1 DEF ReviewInv, Statuses
<1>3. \A p \in Oracles : UnderWay(p)' <=> UnderWay(p) BY <1>1 DEF UnderWay
<1> QED BY <1>1, <1>2, <1>3 DEF ReviewInv, StaysOut

\* A decision begins on an open item only.
LEMMA BeginKeepsOut ==
  ASSUME ReviewInv, NEW c \in Calls, NEW o \in Oracles, ReviewBegins(c, o)
  PROVE  ReviewInv' /\ StaysOut
<1>1. PICK action \in {"add", "verify"} :
        deciding' = [deciding EXCEPT ![c] = [action |-> action, of |-> o]]
  BY DEF ReviewBegins
<1>2. review[o] \in Open /\ UNCHANGED <<review, crossed>> BY DEF ReviewBegins
<1>3. deciding' \in [Calls -> Decision] BY <1>1 DEF ReviewInv, Decision
<1>4. \A p \in Oracles : p /= o => (UnderWay(p)' => UnderWay(p))
  BY <1>1 DEF ReviewInv, UnderWay
<1>5. review[o] /= "dismissed" BY <1>2 DEF Open
<1> QED BY <1>2, <1>3, <1>4, <1>5 DEF ReviewInv, StaysOut

\* A decision ends on an item it had under way.
LEMMA EndKeepsOut ==
  ASSUME ReviewInv, NEW c \in Calls, ReviewEnds(c) PROVE ReviewInv' /\ StaysOut
<1>1. /\ deciding' = [deciding EXCEPT ![c] = NoDecision] /\ crossed' = crossed
      /\ deciding[c] /= NoDecision
  BY DEF ReviewEnds
<1>2. deciding[c] \in Decision BY DEF ReviewInv
<1>3. PICK status \in {"approved", "verified"} :
        SetStatus(deciding[c].of, status) \/ UNCHANGED review
  BY DEF ReviewEnds
<1>4. review' \in [Oracles -> Statuses]
  BY <1>3 DEF ReviewInv, SetStatus, Statuses
<1>5. \A p \in Oracles : p /= deciding[c].of => review'[p] = review[p]
  BY <1>3 DEF ReviewInv, SetStatus
<1>6. \A p \in Oracles : review'[p] = "dismissed" => review[p] = "dismissed"
  BY <1>3 DEF ReviewInv, SetStatus
<1>7. NoDecision \in Decision BY DEF NoDecision, Decision
<1>8. deciding' \in [Calls -> Decision] BY <1>1, <1>7 DEF ReviewInv
<1>9. \A p \in Oracles : UnderWay(p)' => UnderWay(p)
  <2> SUFFICES ASSUME NEW p \in Oracles, UnderWay(p)' PROVE UnderWay(p)
    OBVIOUS
  <2>1. PICK d \in Calls : deciding'[d].of = p BY DEF UnderWay
  <2>2. CASE d /= c BY <1>1, <2>1, <2>2 DEF ReviewInv, UnderWay
  <2>3. CASE d = c
    <3>1. deciding'[c] = NoDecision BY <1>1 DEF ReviewInv
    <3>2. p = None BY <2>1, <2>3, <3>1 DEF NoDecision
    <3> QED BY <3>2, PullAssumption
  <2> QED BY <2>2, <2>3
<1>10. UnderWay(deciding[c].of) BY DEF UnderWay
<1>11. StaysOut BY <1>5, <1>10 DEF ReviewInv, StaysOut
<1> QED BY <1>1, <1>4, <1>6, <1>8, <1>9, <1>11 DEF ReviewInv

LEMMA PullReplays ==
  ASSUME PullInv, ReviewInv, NEW s \in Slots, WorkerStep(s) PROVE Replays
<1>1. CASE Visit(s) \/ StageEnds(s) \/ Closes(s)
  BY <1>1, SameReviews DEF Visit, StageEnds, Closes
<1>2. CASE VisitEnds(s)
  <2>1. worker[s] \in WorkerRecord BY DEF PullInv, RunType
  <2>2. worker[s].at \in Oracles /\ worker[s].held \in BOOLEAN
    BY <1>2, <2>1 DEF VisitEnds, WorkerRecord
  <2>3. UNCHANGED <<deciding, crossed>> BY <1>2 DEF VisitEnds
  <2>4. Route(worker[s].at, worker[s].held) \/ UNCHANGED review BY <1>2 DEF VisitEnds
  <2>5. UNCHANGED review => Replays BY <2>3 DEF ReviewInv, Replays
  <2> QED BY <2>2, <2>3, <2>4, <2>5, RouteReplays
<1> QED BY <1>1, <1>2 DEF WorkerStep

LEMMA AddReplays ==
  ASSUME PullInv, ReviewInv, NEW c \in Calls, AddEnds(c) PROVE Replays
<1>1. call[c] \in CallRecord BY DEF PullInv, RunType
<1>2. call[c].picks \subseteq Oracles /\ call[c].held \in BOOLEAN BY <1>1 DEF CallRecord
<1>3. UNCHANGED <<deciding, crossed>> BY DEF AddEnds
<1>4. UNCHANGED review \/ \E o \in Oracles : Route(o, call[c].held) BY <1>2 DEF AddEnds
<1>5. UNCHANGED review => Replays BY <1>3 DEF ReviewInv, Replays
<1> QED BY <1>2, <1>3, <1>4, <1>5, RouteReplays

LEMMA ReviewSteps ==
  ASSUME PullInv, ReviewInv, [Next]_vars PROVE ReviewInv' /\ StaysOut
<1>1. CASE UNCHANGED vars
  BY <1>1, SameReviews, ReplaysKeep DEF vars, reviewVars
<1>2. ASSUME NEW o \in Oracles, Confirm(o) \/ Forget(o) PROVE ReviewInv' /\ StaysOut
  <2>1. Confirm(o) => Replays BY SameReviews DEF Confirm
  <2> QED BY <1>2, <2>1, ReplaysKeep, ForgetsKeepOut
<1>3. ASSUME NEW c \in Calls, NEW picks \in SUBSET Oracles, Ingest(c, picks)
      PROVE  ReviewInv' /\ StaysOut
  <2>1. UNCHANGED reviewVars BY <1>3 DEF Ingest
  <2> QED BY <2>1, SameReviews, ReplaysKeep
<1>4. ASSUME NEW c \in Calls, NEW o \in Oracles, AddBegins(c, o) PROVE ReviewInv' /\ StaysOut
  <2>1. UNCHANGED reviewVars BY <1>4 DEF AddBegins
  <2> QED BY <2>1, SameReviews, ReplaysKeep
<1>5. ASSUME NEW c \in Calls, CallStep(c) PROVE ReviewInv' /\ StaysOut
  <2>1. Opens(c) \/ Joins(c) => UNCHANGED reviewVars BY DEF Opens, Joins
  <2> QED BY <1>5, <2>1, SameReviews, AddReplays, ReplaysKeep DEF CallStep
<1>6. ASSUME NEW c \in Calls, Decides(c) PROVE ReviewInv' /\ StaysOut
  <2>1. ReviewEnds(c) \/ \E o \in Oracles : ReviewBegins(c, o)
    BY <1>6, PullAssumption DEF Decides
  <2> QED BY <2>1, BeginKeepsOut, EndKeepsOut
<1>7. CASE Progress
  <2>1. UNCHANGED reviewVars BY <1>7 DEF Progress
  <2> QED BY <2>1, SameReviews, ReplaysKeep
<1>8. CASE Dismisses
  BY <1>8, PullAssumption, DismissKeepsOut DEF Dismisses
<1>9. ASSUME NEW s \in Slots, WorkerStep(s) PROVE ReviewInv' /\ StaysOut
  BY <1>9, PullReplays, ReplaysKeep
<1>10. ASSUME NEW s \in Slots,
              \/ Notice(s) \/ VisitFails(s) \/ LookFails(s) \/ Dies(s) \/ Lapses(s) \/ Beats(s)
       PROVE  ReviewInv' /\ StaysOut
  <2>1. UNCHANGED reviewVars BY <1>10 DEF Notice, VisitFails, LookFails, Dies, Lapses, Beats
  <2> QED BY <2>1, SameReviews, ReplaysKeep
<1> QED
  BY <1>1, <1>2, <1>3, <1>4, <1>5, <1>6, <1>7, <1>8, <1>9, <1>10 DEF Next

\* "This will keep this source out for this Oracle permanently" (oracle_reviews.py), for
\* any Oracles, calls and runs: no replay of discovery by any pull, and no decision
\* taken up later, brings back what was dismissed while no decision was under way.
THEOREM DismissedStayOut == Spec => DismissedStays
<1>1. Init => PullInv /\ ReviewInv BY PullStarts, ReviewsStart
<1>2. PullInv /\ ReviewInv /\ [Next]_vars => PullInv' /\ ReviewInv'
  BY PullSteps, ReviewSteps
<1>3. PullInv /\ ReviewInv /\ [Next]_vars =>
        [\A o \in Oracles :
           review[o] = "dismissed" /\ o \notin crossed =>
             \/ review'[o] = "dismissed"
             \/ o \notin confirmed']_<<confirmed, reviewVars>>
  BY ReviewSteps DEF StaysOut
<1> QED BY <1>1, <1>2, <1>3, PTL DEF Spec, SafeSpec, DismissedStays
--------------------------------------------------------------------------------
(* Which accounts are trusted (SourceTrust).  A set that the root is in and that the   *)
(* rules do not lead out of holds all that is trusted, whatever order it was judged in; *)
(* it holds the pages read for more too, since more links only make such sets fewer,   *)
(* so that the second verdict trusts the pages of the first.                           *)

Closed(S) == root \in S /\ \A c \in Accounts : Earns(c, S) => c \in S

TrustType ==
  /\ phase \in {"probing", "judging", "reading hubs", "judging again", "told"}
  /\ root \in Accounts /\ trusted \subseteq Accounts
  /\ phase /= "probing" => root \in trusted
  /\ phase = "probing" => trusted = {} /\ links = {}
  /\ phase \in {"probing", "judging"} => hubs = {} /\ surfaced = {}
  /\ links \subseteq Accounts \X Accounts
  /\ hubs \subseteq Hubs
  /\ surfaced \subseteq links \cap (Hubs \X Accounts)
  /\ phase /= "told" => owned = {}
Reached ==
  \A S \in SUBSET Accounts :
    Closed(S) => trusted \subseteq S /\ hubs \subseteq S /\ \A l \in surfaced : l[1] \in S
OwnedShown == \A a \in owned : \E h \in trusted \cap Hubs : <<h, a>> \in links
TrustInv == TrustType /\ NoRing /\ Reached /\ OwnedShown

\* The rules read no more than the graph and the set.
LEMMA EarnsMore ==
  ASSUME NEW c, NEW S, NEW T, S \subseteq T, Earns(c, S) PROVE Earns(c, T)
  BY DEF Earns, Attested, Mutual, Cited

\* What is earned or vouched for by some links is so by more.
LEMMA EdgesMore ==
  ASSUME Edges \subseteq Edges', UNCHANGED <<root, declared>> PROVE
    /\ \A c, S : Attested(c, S) => Attested(c, S)'
    /\ \A c, S : Mutual(c, S) => Mutual(c, S)'
    /\ \A c, S : Cited(c, S) => Cited(c, S)'
<1>1. ASSUME NEW c, NEW S, Attested(c, S) PROVE Attested(c, S)' BY <1>1 DEF Attested
<1>2. ASSUME NEW c, NEW S, Mutual(c, S) PROVE Mutual(c, S)'
  <2>1. PICK t \in S : {<<t, c>>, <<c, t>>} \subseteq Edges BY <1>2 DEF Mutual
  <2>2. {<<t, c>>, <<c, t>>} \subseteq Edges' BY <2>1
  <2> QED BY <2>2 DEF Mutual
<1>3. ASSUME NEW c, NEW S, Cited(c, S) PROVE Cited(c, S)'
  <2>1. PICK t \in S, u \in S : t /= u /\ {<<t, c>>, <<u, c>>} \subseteq Edges BY <1>3 DEF Cited
  <2>2. {<<t, c>>, <<u, c>>} \subseteq Edges' BY <2>1
  <2> QED BY <2>1, <2>2 DEF Cited
<1> QED BY <1>1, <1>2, <1>3

LEMMA SameEarned ==
  ASSUME UNCHANGED <<root, declared, links>> PROVE
    /\ Edges' = Edges
    /\ \A c, S : Earns(c, S)' = Earns(c, S)
    /\ \A S : Closed(S)' = Closed(S)
    /\ \A c, S : Vouched(c, S)' = Vouched(c, S)
<1>1. Edges' = Edges BY DEF Edges
<1>2. ASSUME NEW c, NEW S PROVE Earns(c, S)' = Earns(c, S)
  BY <1>1 DEF Earns, Attested, Mutual, Cited
<1>3. ASSUME NEW S PROVE Closed(S)' = Closed(S) BY <1>2 DEF Closed
<1>4. ASSUME NEW c, NEW S PROVE Vouched(c, S)' = Vouched(c, S) BY <1>1 DEF Vouched
<1> QED BY <1>1, <1>2, <1>3, <1>4

LEMMA TrustStarts == TrustInit => TrustInv
  BY DEF TrustInit, TrustInv, TrustType, NoRing, Reached, OwnedShown, Hubs, Accounts, Kinds

LEMMA ProbesEarn == ASSUME TrustInv, Probes PROVE TrustInv'
<1>1. /\ phase = "probing" /\ phase' = "judging" /\ trusted' = {root}
      /\ UNCHANGED <<root, hubs, surfaced, owned>>
  BY DEF Probes
<1>2. links' \subseteq Accounts \X Accounts
  <2>1. PICK accounts \in SUBSET Accounts, guessed \in SUBSET Namesakes, suggested \in SUBSET Suggestible :
          \E field \in SUBSET Field(guessed) :
            /\ Declares(accounts)
            /\ sources' = Itself \cup Declared(accounts) \cup guessed \cup field \cup suggested
            /\ \E shown \in SUBSET Shows((sources' \cap Hubs) \cup (guessed \cap GitHub),
                                        {root} \cup declared' \cup sources') :
                 links' = shown \cup {l \in (guessed \cap GitHub) \X field : l[1] /= l[2]}
    BY ZenonT(30) DEF Probes
  <2>2. PICK field \in SUBSET Field(guessed) :
          /\ Declares(accounts)
          /\ sources' = Itself \cup Declared(accounts) \cup guessed \cup field \cup suggested
          /\ \E shown \in SUBSET Shows((sources' \cap Hubs) \cup (guessed \cap GitHub),
                                      {root} \cup declared' \cup sources') :
               links' = shown \cup {l \in (guessed \cap GitHub) \X field : l[1] /= l[2]}
    BY <2>1
  <2>3. field \subseteq Accounts BY DEF Field
  <2>4. root \in Accounts BY DEF TrustInv, TrustType
  <2>5. guessed \subseteq Accounts BY DEF Namesakes, Accounts, Kinds
  <2>6. sources' \subseteq Accounts
    BY <2>2, <2>3, <2>4, <2>5 DEF Itself, Declared, Suggestible, Hubs, Accounts, Kinds
  <2>7. declared' \subseteq Accounts BY <2>2 DEF Declares
  <2> QED BY <2>2, <2>3, <2>4, <2>5, <2>6, <2>7 DEF Shows
<1>3. TrustType' BY <1>1, <1>2 DEF TrustInv, TrustType
<1>4. NoRing' BY <1>1 DEF NoRing
<1>5. Reached'
  BY <1>1 DEF TrustInv, TrustType, Reached, Closed
<1>6. OwnedShown' BY <1>1 DEF TrustInv, TrustType, OwnedShown
<1> QED BY <1>3, <1>4, <1>5, <1>6 DEF TrustInv

LEMMA GraduatesEarn == ASSUME TrustInv, NEW c \in Accounts, Graduates(c) PROVE TrustInv'
<1>1. /\ Earns(c, trusted) /\ c \notin trusted /\ trusted' = trusted \cup {c}
      /\ UNCHANGED <<phase, root, declared, links, hubs, surfaced, owned>>
  BY DEF Graduates
<1>2. phase \in {"judging", "judging again"} BY DEF Graduates
<1>3. root \in trusted BY <1>2 DEF TrustInv, TrustType
<1>4. TrustType' BY <1>1, <1>2 DEF TrustInv, TrustType
<1>5. NoRing'
  <2> SUFFICES ASSUME NEW ring \in SUBSET (trusted' \ {root'}), ring /= {}
               PROVE  \E d \in ring : Vouched(d, trusted \ ring)'
    BY DEF NoRing
  <2>1. CASE ring = {c}
    <3>1. trusted' \ ring = trusted BY <2>1, <1>1
    <3>2. Vouched(c, trusted) BY <1>1 DEF Earns, Attested, Mutual, Cited, Vouched
    <3>3. PICK others : others = trusted OBVIOUS
    <3>4. Vouched(c, others)' BY <1>1, <3>2, <3>3, SameEarned
    <3>5. others = trusted' \ ring /\ c \in ring BY <2>1, <3>1, <3>3
    <3> QED BY <3>4, <3>5 DEF Vouched
  <2>2. CASE ring \ {c} /= {}
    <3>1. ring \ {c} \in SUBSET (trusted \ {root}) BY <1>1
    <3>2. PICK d \in ring \ {c} : Vouched(d, trusted \ (ring \ {c}))
      BY <2>2, <3>1 DEF TrustInv, NoRing
    <3>3. trusted \ (ring \ {c}) \subseteq trusted' \ ring BY <1>1
    <3>4. PICK others : others = trusted' \ ring OBVIOUS
    <3>5. Vouched(d, others) BY <3>2, <3>3, <3>4 DEF Vouched
    <3>6. Vouched(d, others)' BY <1>1, <3>5, SameEarned
    <3> QED BY <3>4, <3>6 DEF Vouched
  <2> QED BY <2>1, <2>2
<1>6. Reached'
  <2> SUFFICES ASSUME NEW S \in SUBSET Accounts, Closed(S)
               PROVE  trusted' \subseteq S /\ hubs \subseteq S /\ \A l \in surfaced : l[1] \in S
    BY <1>1, SameEarned DEF Reached
  <2>1. trusted \subseteq S /\ hubs \subseteq S /\ \A l \in surfaced : l[1] \in S BY DEF TrustInv, Reached
  <2>2. Earns(c, S) BY <1>1, <2>1, EarnsMore
  <2>3. c \in S BY <2>2 DEF Closed
  <2> QED BY <1>1, <2>1, <2>3
<1>7. OwnedShown' BY <1>1 DEF TrustInv, OwnedShown
<1> QED BY <1>4, <1>5, <1>6, <1>7 DEF TrustInv

\* A step that leaves the graph and the verdict alone.
LEMMA SameVerdict ==
  ASSUME TrustInv, UNCHANGED <<root, declared, links, trusted>> PROVE
    /\ NoRing'
    /\ \A S : Closed(S)' = Closed(S)
<1>1. \A S : Closed(S)' = Closed(S) BY SameEarned
<1>2. ASSUME NEW ring \in SUBSET (trusted' \ {root'}), ring /= {}
      PROVE  \E d \in ring : Vouched(d, trusted \ ring)'
  <2>1. PICK others : others = trusted \ ring OBVIOUS
  <2>2. PICK d \in ring : Vouched(d, others) BY <1>2, <2>1 DEF TrustInv, NoRing
  <2>3. Vouched(d, others)' BY <2>2, SameEarned
  <2> QED BY <2>1, <2>3 DEF Vouched
<1>3. NoRing' BY <1>2 DEF NoRing
<1> QED BY <1>1, <1>3

LEMMA JudgedEarns == ASSUME TrustInv, Judged PROVE TrustInv'
<1>1. /\ phase = "judging" /\ hubs' = sources \cap trusted \cap Hubs
      /\ phase' \in {"told", "reading hubs"}
      /\ UNCHANGED <<root, declared, links, trusted, surfaced, owned>>
  BY DEF Judged
<1>2. TrustType' BY <1>1 DEF TrustInv, TrustType
<1>3. NoRing' /\ \A S : Closed(S)' = Closed(S) BY <1>1, SameVerdict
<1>4. Reached' BY <1>1, <1>3 DEF TrustInv, Reached
<1>5. OwnedShown' BY <1>1 DEF TrustInv, OwnedShown
<1> QED BY <1>2, <1>3, <1>4, <1>5 DEF TrustInv

LEMMA HubEarns == ASSUME TrustInv, NEW h \in Accounts, ReadsHub(h) PROVE TrustInv'
<1>1. /\ phase = "reading hubs" /\ h \in hubs /\ hubs' = hubs \ {h}
      /\ UNCHANGED <<phase, root, declared, trusted, owned>>
  BY DEF ReadsHub
<1>2. PICK handle \in SUBSET X, found \in SUBSET (Accounts \ {h}) :
        /\ links' = links \cup ({h} \X (handle \cup found))
        /\ surfaced' = surfaced \cup ({h} \X found)
  BY DEF ReadsHub
<1>3. handle \subseteq Accounts BY DEF Accounts, Kinds
<1>4. h \in Hubs BY <1>1 DEF TrustInv, TrustType
<1>5. links \subseteq links' BY <1>2
<1>6. TrustType'
  <2>1. links' \subseteq Accounts \X Accounts BY <1>2, <1>3 DEF TrustInv, TrustType
  <2>2. surfaced' \subseteq links' \cap (Hubs \X Accounts) BY <1>2, <1>4, ZenonT(30) DEF TrustInv, TrustType
  <2> QED BY <1>1, <2>1, <2>2 DEF TrustInv, TrustType
<1>7. Edges \subseteq Edges' BY <1>1, <1>5 DEF Edges
<1>8. NoRing'
  <2> SUFFICES ASSUME NEW ring \in SUBSET (trusted \ {root}), ring /= {}
               PROVE  \E d \in ring : Vouched(d, trusted \ ring)'
    BY <1>1 DEF NoRing
  <2>1. PICK d \in ring : Vouched(d, trusted \ ring) BY DEF TrustInv, NoRing
  <2>2. PICK others : others = trusted \ ring OBVIOUS
  <2>3. Vouched(d, others) BY <2>1, <2>2
  <2>4. Vouched(d, others)'
    <3>1. CASE d \in declared BY <1>1, <3>1 DEF Vouched
    <3>2. CASE Mutual(d, others) BY <1>1, <1>7, <3>2, EdgesMore DEF Vouched, Mutual
    <3>3. CASE Cited(d, others)
      <4>1. Cited(d, others)' BY <1>1, <1>7, <3>3, EdgesMore
      <4> QED BY <4>1 DEF Vouched, Cited
    <3> QED BY <2>3, <3>1, <3>2, <3>3 DEF Vouched, Mutual, Cited
  <2> QED BY <1>1, <2>2, <2>4 DEF Vouched
<1>9. Reached'
  <2> SUFFICES ASSUME NEW S \in SUBSET Accounts, Closed(S)'
               PROVE  trusted \subseteq S /\ hubs' \subseteq S /\ \A l \in surfaced' : l[1] \in S
    BY <1>1 DEF Reached
  <2>1. root \in S /\ \A c \in Accounts : Earns(c, S)' => c \in S BY <1>1 DEF Closed
  <2>2. \A c \in Accounts : Earns(c, S) => Earns(c, S)'
    BY <1>1, <1>7, EdgesMore DEF Earns
  <2>3. Closed(S) BY <2>1, <2>2 DEF Closed
  <2>4. trusted \subseteq S /\ hubs \subseteq S /\ \A l \in surfaced : l[1] \in S
    BY <2>3 DEF TrustInv, Reached
  <2> QED BY <1>1, <1>2, <2>4
<1>10. OwnedShown' BY <1>1 DEF TrustInv, TrustType, OwnedShown
<1> QED BY <1>6, <1>8, <1>9, <1>10 DEF TrustInv

LEMMA RejudgesEarn == ASSUME TrustInv, Rejudges PROVE TrustInv'
<1>1. /\ phase = "reading hubs" /\ phase' = "judging again" /\ trusted' = {root}
      /\ UNCHANGED <<root, declared, links, hubs, surfaced, owned>>
  BY DEF Rejudges
<1>2. TrustType' BY <1>1 DEF TrustInv, TrustType
<1>3. NoRing' BY <1>1 DEF NoRing
<1>4. \A S : Closed(S)' = Closed(S)
  BY <1>1 DEF Closed, Earns, Attested, Mutual, Cited, Edges
<1>5. Reached' BY <1>1, <1>4 DEF TrustInv, Reached, Closed
<1>6. OwnedShown' BY <1>1 DEF TrustInv, TrustType, OwnedShown
<1> QED BY <1>2, <1>3, <1>5, <1>6 DEF TrustInv

LEMMA PromotesEarn == ASSUME TrustInv, Promotes PROVE TrustInv'
<1>1. /\ phase = "judging again" /\ AllJudged /\ phase' = "told"
      /\ owned' \subseteq {l[2] : l \in surfaced}
      /\ UNCHANGED <<root, declared, links, trusted, hubs, surfaced>>
  BY DEF Promotes
<1>2. TrustType' BY <1>1 DEF TrustInv, TrustType
<1>3. NoRing' /\ \A S : Closed(S)' = Closed(S) BY <1>1, SameVerdict
<1>4. Reached' BY <1>1, <1>3 DEF TrustInv, Reached
<1>5. Closed(trusted) BY <1>1 DEF AllJudged, Closed, TrustInv, TrustType
<1>6. \A l \in surfaced : l[1] \in trusted
  BY <1>5 DEF TrustInv, TrustType, Reached
<1>7. ASSUME NEW a \in owned' PROVE \E h \in trusted \cap Hubs : <<h, a>> \in links
  <2>1. PICK l \in surfaced : l[2] = a BY <1>1
  <2>2. l \in links /\ l \in Hubs \X Accounts BY DEF TrustInv, TrustType
  <2>3. l = <<l[1], a>> /\ l[1] \in Hubs BY <2>1, <2>2
  <2> QED BY <1>6, <2>2, <2>3
<1>8. OwnedShown' BY <1>1, <1>7 DEF OwnedShown
<1> QED BY <1>2, <1>3, <1>4, <1>8 DEF TrustInv

LEMMA TrustSteps ==
  ASSUME TrustInv, [SourceNext]_<<part, pubVars, trustVars>> PROVE TrustInv'
<1>1. CASE UNCHANGED trustVars
  <2>1. UNCHANGED <<phase, root, declared, links, trusted, hubs, surfaced, owned>>
    BY <1>1 DEF trustVars
  <2>2. NoRing' /\ \A S : Closed(S)' = Closed(S) BY <2>1, SameVerdict
  <2> QED BY <2>1, <2>2 DEF TrustInv, TrustType, Reached, OwnedShown
<1>2. CASE TrustNext
  BY <1>2, ProbesEarn, JudgedEarns, RejudgesEarn, PromotesEarn, GraduatesEarn, HubEarns DEF TrustNext
<1> QED BY <1>1, <1>2 DEF SourceNext

\* Nobody is trusted for a ring of accounts that vouch for one another, whatever
\* accounts, pages and handles there are; and what is trusted for its handle was found
\* on a page still trusted at the end (trust_graph.propagate, and
\* discover_profile._expand_from_trusted_hubs, which judges everything again).
THEOREM NoRingTrusted == SourceSpec => []TrustEarned
<1>1. SourceInit => TrustInv BY TrustStarts DEF SourceInit
<1>2. TrustInv /\ [SourceNext]_<<part, pubVars, trustVars>> => TrustInv' BY TrustSteps
<1>3. TrustInv => TrustEarned BY DEF TrustInv, OwnedShown, TrustEarned
<1> QED BY <1>1, <1>2, <1>3, PTL DEF SourceSpec

-----------------------------------------------------------------------------
(* Publications: no post falls between two windows. *)

Times == {Never} \cup Nat
PostRecord ==
  [at : {"unborn", "out", "held", "passed", "predated"}, out : Nat, date : Nat, door : {"archive", "sitemap", "hub"}]
WalkFields == {"step", "since", "began", "offset", "left", "jobs", "lost"}

PubTypes ==
  /\ posts \in [Posts -> PostRecord] /\ now \in 0 .. MaxNow
  /\ kind = "blog" => \A p \in Posts : posts[p].door /= "archive"
  /\ kind = "substack" => \A p \in Posts : posts[p].door = "archive" /\ posts[p].date = posts[p].out
  /\ \A p \in Posts : posts[p].date <= posts[p].out
  /\ row \in [last : Times, cursor : Times] /\ row.last <= now /\ row.cursor <= now
  /\ reach \in Int /\ (row.last = Never => reach = MaxNow + 1)
  /\ DOMAIN walks = Walkers /\ \A w \in Walkers : DOMAIN walks[w] = WalkFields

\* What a post may have come to: held, or one of the two ways it is passed over.
Told == {"held", "passed", "predated"}

\* Posts come out in the order of their numbers.
InOrder ==
  \E n \in 0 .. MostPosts :
    /\ Published = 1 .. n
    /\ \A p \in 1 .. n : posts[p].out <= now
    /\ \A p, q \in 1 .. n : p <= q => posts[p].out <= posts[q].out

\* How far back a pull reaches that follows one of time t.
Back(t) == IF t = Never THEN Never ELSE IF t < OVERLAP THEN 0 ELSE t - OVERLAP

\* The window of a pull under way reaches behind the moment it began, and behind every
\* stamp made since.
Window(k) ==
  k.step /= "idle" =>
    /\ k.began \in Nat /\ k.began <= now /\ now - k.began <= OVERLAP
    /\ k.since \in Times /\ k.since <= Back(k.began)
    /\ row.last /= Never => k.since <= SinceFor(row)

\* Of what was out before the pull began: what it has listed, and what it owes.
Listed(k) ==
  k.step = "lists" =>
    /\ k.offset \in Nat
    /\ \A n \in 0 .. MostPosts : Published = 1 .. n =>
         \A p \in 1 .. n : p + k.offset > n /\ posts[p].out < k.began => p \in k.left
Owes(k) ==
  k.step = "reads" =>
    \A p \in Published :
      Dated(p) /\ posts[p].out < k.began /\ posts[p].out >= k.since =>
        posts[p].at \in Told \/ p \in k.left \cup k.jobs \cup k.lost

\* A pull has nothing in hand but what is out.
Seen(k) == k.left \cup k.jobs \subseteq Published

WalkInv(k) ==
  /\ k.step \in {"idle", "lists", "reads"}
  /\ Window(k) /\ Listed(k) /\ Owes(k) /\ Seen(k)
WalksInv == \A w \in Walkers : WalkInv(walks[w])

PubInv == PubTypes /\ InOrder /\ WalksInv /\ StillInReach

LEMMA PubConstants ==
  /\ MostPosts \in Nat /\ MaxNow \in Nat /\ OVERLAP \in Nat /\ LOOKBACK \in Nat
  /\ LOOKBACK > OVERLAP /\ Never = -1
  BY PublicationsAssumption DEF Never

LEMMA Floor == ASSUME NEW x \in Int PROVE Max({0, x}) = IF x < 0 THEN 0 ELSE x
  BY DEF Max

LEMMA SinceForBack ==
  ASSUME NEW r \in [last : Times, cursor : Times]
  PROVE  /\ SinceFor(r) = Back(IF r.last /= Never THEN r.last ELSE r.cursor)
         /\ SinceFor(r) \in Times
<1> DEFINE base == IF r.last /= Never THEN r.last ELSE r.cursor
<1>1. base \in Times OBVIOUS
<1>2. SinceFor(r) = IF base = Never THEN Never ELSE Max({0, base - OVERLAP})
  BY DEF SinceFor
<1> HIDE DEF base
<1>3. CASE base = Never BY <1>2, <1>3 DEF Back, Times, base
<1>4. CASE base /= Never
  <2>1. base \in Nat BY <1>1, <1>4 DEF Times
  <2>2. Max({0, base - OVERLAP}) = IF base - OVERLAP < 0 THEN 0 ELSE base - OVERLAP
    BY <2>1, Floor, PubConstants
  <2>3. SinceFor(r) = Back(base) /\ SinceFor(r) \in Nat
    BY <1>2, <1>4, <2>1, <2>2, PubConstants DEF Back
  <2> QED BY <2>3 DEF Times, base
<1> QED BY <1>3, <1>4

LEMMA BackGrows ==
  ASSUME NEW s \in Times, NEW t \in Times, s <= t
  PROVE  Back(s) \in Times /\ Back(t) \in Times /\ Back(s) <= Back(t) /\ Back(s) <= s
  BY PubConstants DEF Back, Times

LEMMA LeastOf ==
  ASSUME NEW n \in Nat, NEW S, S \subseteq 0..n, S /= {}
  PROVE  \E m \in S : \A k \in S : m <= k
<1> DEFINE R == OpToRel(<, Nat)
<1>1. \A a, b \in Nat : a < b => <<a, b>> \in R BY DEF OpToRel
<1>2. IsWellFoundedOn(R, Nat) BY NatLessThanWellFounded
<1> HIDE DEF R
<1>3. S \subseteq Nat OBVIOUS
<1>4. PICK m \in S : \A k \in S : ~(<<k, m>> \in R) BY <1>2, <1>3, WFMin
<1>5. \A k \in S : ~(k < m) BY <1>1, <1>3, <1>4
<1> QED BY <1>3, <1>5

LEMMA MaxIsOne ==
  ASSUME NEW n \in Nat, NEW S, S \subseteq -1..n, S /= {}
  PROVE  Max(S) \in S
<1> DEFINE T == {n - s : s \in S}
<1>1. \A s \in S : s \in Int /\ n - s \in 0..(n + 1) OBVIOUS
<1>2. T \subseteq 0..(n + 1) /\ T /= {} BY <1>1
<1>3. \A s \in S : n - s \in T OBVIOUS
<1> HIDE DEF T
<1>4. PICK x \in T : \A y \in T : x <= y
  <2>1. n + 1 \in Nat OBVIOUS
  <2> QED BY <1>2, <2>1, LeastOf
<1>5. PICK m \in S : x = n - m BY DEF T
<1>6. \A s \in S : n - m <= n - s BY <1>3, <1>4, <1>5
<1>7. \A s \in S : m >= s BY <1>1, <1>6
<1> QED BY <1>7 DEF Max

\* The date of the newest post that is held, if there is one.
LEMMA NewestHeld == ASSUME PubTypes, InOrder PROVE Newest \in Times /\ Newest <= now
<1>1. PICK S : S = {Never} \cup {posts[p].date : p \in {q \in Posts : posts[q].at = "held"}}
  OBVIOUS
<1>2. now \in Nat /\ Never = -1 BY PubConstants DEF PubTypes
<1>3. \A p \in Posts : posts[p].at = "held" => posts[p].date \in 0..now
  BY DEF PubTypes, PostRecord, InOrder, Published
<1>4. \A s \in S : s \in -1..now BY <1>1, <1>2, <1>3
<1>5. Max(S) \in S BY <1>1, <1>2, <1>4, MaxIsOne
<1>6. Max(S) \in -1..now BY <1>4, <1>5
<1> QED BY <1>1, <1>2, <1>6 DEF Newest, Times

\* What happens to posts but that they come out.
Onward ==
  /\ kind' = kind /\ now' = now /\ posts' \in [Posts -> PostRecord]
  /\ \A p \in Posts :
       /\ posts'[p].out = posts[p].out /\ posts'[p].date = posts[p].date
       /\ posts'[p].door = posts[p].door
       /\ posts'[p].at = "unborn" <=> posts[p].at = "unborn"
       /\ posts[p].at \in Told => posts'[p].at \in Told

LEMMA OnwardKeeps ==
  ASSUME PubTypes, InOrder, Onward
  PROVE  Published' = Published /\ InOrder'
<1>1. Published' = Published BY DEF Onward, Published
<1>2. PICK n \in 0 .. MostPosts :
        /\ Published = 1 .. n
        /\ \A p \in 1 .. n : posts[p].out <= now
        /\ \A p, q \in 1 .. n : p <= q => posts[p].out <= posts[q].out
  BY DEF InOrder
<1>3. 1 .. n \subseteq Posts BY PubConstants DEF Posts
<1> QED BY <1>1, <1>2, <1>3 DEF InOrder, Onward

\* A walk that is left as it is.
LEMMA WalkKeeps ==
  ASSUME PubTypes, InOrder, Onward, NEW k, WalkInv(k),
         row' \in [last : Times, cursor : Times],
         row'.last = row.last \/ row'.last = now
  PROVE  WalkInv(k)'
<1>1. Published' = Published /\ Published \subseteq Posts BY OnwardKeeps DEF Published
<1>2. Window(k)'
  <2> SUFFICES ASSUME k.step /= "idle", row'.last /= Never PROVE k.since <= SinceFor(row')
    BY DEF WalkInv, Window, Onward
  <2>1. SinceFor(row') = Back(row'.last) BY SinceForBack
  <2>2. CASE row'.last = row.last
    <3>1. SinceFor(row) = Back(row.last) BY <2>2, SinceForBack DEF PubTypes
    <3> QED BY <2>1, <2>2, <3>1 DEF WalkInv, Window
  <2>3. CASE row'.last = now
    <3>1. now \in Times /\ k.began \in Times /\ k.began <= now
      BY PubConstants DEF WalkInv, Window, PubTypes, Times
    <3>2. Back(k.began) <= Back(now) /\ Back(k.began) \in Times /\ Back(now) \in Times
      BY <3>1, BackGrows
    <3> QED BY <2>1, <2>3, <3>1, <3>2, PubConstants DEF WalkInv, Window, Times
  <2> QED BY <2>2, <2>3
<1>3. Listed(k)'
  <2> SUFFICES ASSUME k.step = "lists", NEW n \in 0 .. MostPosts, Published = 1 .. n,
                      NEW p \in 1 .. n, p + k.offset > n, posts'[p].out < k.began
               PROVE  k.offset \in Nat /\ p \in k.left
    BY <1>1 DEF Listed, WalkInv
  <2>1. p \in Posts BY PubConstants DEF Posts
  <2> QED BY <2>1 DEF WalkInv, Listed, Onward
<1>4. Owes(k)'
  <2> SUFFICES ASSUME k.step = "reads", NEW p \in Published, Dated(p)',
                      posts'[p].out < k.began, posts'[p].out >= k.since
               PROVE  posts'[p].at \in Told \/ p \in k.left \cup k.jobs \cup k.lost
    BY <1>1 DEF Owes
  <2>1. p \in Posts /\ Dated(p) BY <1>1 DEF Onward, Dated
  <2> QED BY <2>1 DEF WalkInv, Owes, Onward
<1>5. Seen(k)' BY <1>1 DEF Seen, WalkInv
<1> QED BY <1>2, <1>3, <1>4, <1>5 DEF WalkInv

\* A step of one walk, or of none, that leaves the row within its types.
LEMMA WalkTurns ==
  ASSUME PubInv, Onward, NEW w \in Walkers, NEW k, Becomes(w, k),
         DOMAIN k = WalkFields, WalkInv(k)',
         row' \in [last : Times, cursor : Times], row'.cursor <= now,
         row'.last = row.last \/ row'.last = now,
         reach' \in Int /\ (row'.last = Never => reach' = MaxNow + 1),
         StillInReach'
  PROVE  PubInv'
<1>1. walks' = [walks EXCEPT ![w] = k] BY DEF Becomes
<1>2. /\ DOMAIN walks' = Walkers /\ walks'[w] = k
      /\ \A e \in Walkers \ {w} : walks'[e] = walks[e]
  BY <1>1 DEF PubInv, PubTypes
<1>3. PubTypes'
  BY <1>2 DEF PubInv, PubTypes, Onward
<1>4. InOrder' BY OnwardKeeps DEF PubInv
<1>5. WalksInv'
  <2> SUFFICES ASSUME NEW e \in Walkers PROVE WalkInv(walks[e])' BY DEF WalksInv
  <2>1. CASE e = w
    <3>1. walks'[e] = k BY <1>2, <2>1
    <3> QED BY <3>1 DEF WalkInv, Window, Listed, Owes, Seen
  <2>2. CASE e /= w
    <3>1. PICK o : o = walks[e] /\ WalkInv(o) BY DEF PubInv, WalksInv
    <3>2. WalkInv(o)' BY <3>1, WalkKeeps DEF PubInv
    <3>3. walks'[e] = o BY <1>2, <2>2, <3>1
    <3> QED BY <3>2, <3>3 DEF WalkInv, Window, Listed, Owes, Seen
  <2> QED BY <2>1, <2>2
<1> QED BY <1>3, <1>4, <1>5 DEF PubInv

\* Posts, row and reach stay.
LEMMA SamePosts ==
  ASSUME PubInv, UNCHANGED <<kind, now, posts, row, reach>>
  PROVE  /\ Onward /\ StillInReach'
         /\ row' \in [last : Times, cursor : Times] /\ row'.cursor <= now
         /\ row'.last = row.last
         /\ reach' \in Int /\ (row'.last = Never => reach' = MaxNow + 1)
<1>1. Onward BY DEF PubInv, PubTypes, Onward
<1>2. StillInReach' BY DEF PubInv, StillInReach, CameBefore, Dated, SinceFor
<1> QED BY <1>1, <1>2 DEF PubInv, PubTypes

LEMMA RestingWalk ==
  /\ DOMAIN Resting = WalkFields /\ Resting.step = "idle" /\ WalkInv(Resting)'
  BY DEF Resting, WalkFields, WalkInv, Window, Listed, Owes, Seen

LEMMA FailsKeep == ASSUME PubInv, NEW w \in Walkers, Fails(w) PROVE PubInv'
<1>1. Becomes(w, Resting) /\ UNCHANGED <<kind, now, posts, row, reach>> BY DEF Fails, Rests
<1> QED BY <1>1, SamePosts, RestingWalk, WalkTurns

\* A pull begins behind the row as it is, and behind the moment.
LEMMA StartKeeps ==
  ASSUME PubInv, NEW w \in Walkers, NEW since \in Times, Starts(w, since),
         UNCHANGED <<kind, now, posts, reach>>,
         row' \in [last : Times, cursor : Times], row'.cursor <= now, row'.last = row.last,
         since <= Back(now), row.last /= Never => since <= Back(row.last)
  PROVE  PubInv'
<1>1. PICK k : k = [Resting EXCEPT !.step = "lists", !.since = since, !.began = now] OBVIOUS
<1>2. /\ DOMAIN k = WalkFields /\ k.step = "lists" /\ k.since = since /\ k.began = now
      /\ k.offset = 0 /\ k.left = {} /\ k.jobs = {} /\ Becomes(w, k)
  BY <1>1 DEF Resting, WalkFields, Starts
<1>3. Onward BY DEF PubInv, PubTypes, Onward
<1>4. now' = now /\ now \in Nat BY PubConstants DEF PubInv, PubTypes
<1>5. row'.last /= Never => since <= SinceFor(row') BY SinceForBack
<1>6. StillInReach'
  <2>1. row.last /= Never => SinceFor(row') = SinceFor(row)
    BY SinceForBack DEF PubInv, PubTypes
  <2> QED BY <2>1 DEF PubInv, StillInReach, CameBefore, Dated
<1>7. Window(k)' BY <1>2, <1>4, <1>5, PubConstants DEF Window
<1>8. Listed(k)'
  <2> SUFFICES ASSUME NEW n \in 0 .. MostPosts, NEW p \in 1 .. n PROVE ~(p + k.offset > n)
    BY <1>2 DEF Listed
  <2> QED BY <1>2, PubConstants
<1>9. Owes(k)' BY <1>2 DEF Owes
<1>10. WalkInv(k)' BY <1>2, <1>7, <1>8, <1>9 DEF WalkInv, Seen
<1> QED BY <1>2, <1>3, <1>6, <1>10, WalkTurns DEF PubInv, PubTypes


LEMMA SeededRow ==
  ASSUME PubInv
  PROVE  /\ Seeded \in [last : Times, cursor : Times] /\ Seeded.last = row.last
         /\ Seeded.cursor <= now
<1>1. Newest \in Times /\ Newest <= now BY NewestHeld DEF PubInv
<1> QED BY <1>1 DEF Seeded, PubInv, PubTypes

LEMMA RailBeginsKeeps == ASSUME PubInv, RailBegins PROVE PubInv'
<1>1. PICK s : s = SinceFor(Seeded) OBVIOUS
<1>2. /\ row' = Seeded /\ Starts("rail", s) /\ UNCHANGED <<kind, now, posts, reach>>
      /\ "rail" \in Walkers
  BY <1>1 DEF RailBegins, Walkers
<1>3. /\ Seeded \in [last : Times, cursor : Times] /\ Seeded.last = row.last
      /\ Seeded.cursor <= now
  BY SeededRow
<1>4. now \in Times /\ row.last \in Times /\ row.last <= now
  BY PubConstants DEF PubInv, PubTypes, Times
<1>5. s \in Times /\ s = Back(IF row.last /= Never THEN row.last ELSE Seeded.cursor)
  BY <1>1, <1>3, SinceForBack
<1>6. s <= Back(now)
  <2>1. CASE row.last /= Never BY <1>4, <1>5, <2>1, BackGrows
  <2>2. CASE row.last = Never
    <3>1. Seeded.cursor \in Times BY <1>3
    <3> QED BY <1>3, <1>4, <1>5, <2>2, <3>1, BackGrows
  <2> QED BY <2>1, <2>2
<1>7. ASSUME row.last /= Never PROVE s <= Back(row.last)
  <2>1. s = Back(row.last) BY <1>5, <1>7
  <2> QED BY <1>4, <2>1, BackGrows, PubConstants DEF Times
<1> QED BY <1>2, <1>3, <1>5, <1>6, <1>7, StartKeeps

LEMMA ToolBeginsKeeps == ASSUME PubInv, ToolBegins PROVE PubInv'
<1>1. /\ "tool" \in Walkers /\ UNCHANGED <<kind, now, posts, reach, row>>
      /\ row' \in [last : Times, cursor : Times] /\ row'.cursor <= now /\ row'.last = row.last
  BY DEF ToolBegins, Walkers, PubInv, PubTypes
<1>2. now \in Times /\ now \in Nat /\ row.last \in Times /\ row.last <= now
  BY PubConstants DEF PubInv, PubTypes, Times
<1>3. CASE Starts("tool", Never)
  <2>1. /\ Never \in Times /\ Never <= Back(now)
        /\ row.last /= Never => Never <= Back(row.last)
    BY <1>2, PubConstants DEF Times, Back
  <2> QED BY <1>1, <1>3, <2>1, StartKeeps
<1>4. CASE /\ row.last /= Never => now - row.last <= LOOKBACK - OVERLAP
           /\ Starts("tool", Max({0, now - LOOKBACK}))
  <2>1. PICK s : s = Max({0, now - LOOKBACK}) OBVIOUS
  <2>2. s = IF now - LOOKBACK < 0 THEN 0 ELSE now - LOOKBACK
    BY <1>2, <2>1, Floor, PubConstants
  <2>3. /\ s \in Times /\ s <= Back(now)
        /\ row.last /= Never => s <= Back(row.last)
    BY <1>2, <1>4, <2>2, PubConstants DEF Times, Back
  <2>4. Starts("tool", s) BY <1>4, <2>1
  <2> QED BY <1>1, <2>3, <2>4, StartKeeps
<1> QED BY <1>3, <1>4 DEF ToolBegins

\* What is passed over is passed over for good.
LEMMA PassesOnward ==
  ASSUME PubInv, NEW gone, \A p \in Posts : p \in gone => posts[p].at = "out",
         Passes(gone), UNCHANGED <<kind, now>>
  PROVE  /\ Onward
         /\ \A p \in Posts : posts'[p].at = "out" <=> posts[p].at = "out" /\ p \notin gone
<1>1. posts' = [p \in Posts |-> IF p \in gone THEN [posts[p] EXCEPT !.at = "passed"] ELSE posts[p]]
  BY DEF Passes
<1>2. ASSUME NEW p \in Posts
      PROVE  /\ posts'[p] \in PostRecord
             /\ posts'[p].out = posts[p].out /\ posts'[p].date = posts[p].date
             /\ posts'[p].door = posts[p].door
             /\ p \in gone => posts'[p].at = "passed" /\ posts[p].at = "out"
             /\ p \notin gone => posts'[p].at = posts[p].at
  BY <1>1 DEF PubInv, PubTypes, PostRecord
<1>3. posts' \in [Posts -> PostRecord] BY <1>1, <1>2
<1> QED BY <1>2, <1>3 DEF Onward, Told

LEMMA RailSkipsKeeps == ASSUME PubInv, RailSkips PROVE PubInv'
<1>1. /\ row' = [Seeded EXCEPT !.last = now] /\ Passes(Behind(Published, row'))
      /\ UNCHANGED <<kind, now, reach, walks>>
  BY DEF RailSkips
<1>2. /\ row' \in [last : Times, cursor : Times] /\ row'.last = now /\ row'.cursor <= now
      /\ row'.last /= Never
  BY <1>1, SeededRow, PubConstants DEF PubInv, PubTypes, Times
<1>3. PICK gone : gone = Behind(Published, row') OBVIOUS
<1>4. \A p \in Posts : p \in gone => posts[p].at = "out" BY <1>3 DEF Behind
<1>5. /\ Onward
      /\ \A p \in Posts : posts'[p].at = "out" <=> posts[p].at = "out" /\ p \notin gone
  BY <1>1, <1>3, <1>4, PassesOnward
<1>6. StillInReach'
  <2> SUFFICES ASSUME NEW p \in Posts, posts'[p].at = "out" PROVE ~CameBefore(p, SinceFor(row))'
    BY DEF StillInReach
  <2>1. posts[p].at = "out" /\ p \notin gone /\ p \in Published BY <1>5 DEF Published
  <2>2. ~Older(p, SinceFor(row')) BY <1>3, <2>1 DEF Behind
  <2>3. SinceFor(row') \in Nat
    <3>1. SinceFor(row') = Back(now) BY <1>2, SinceForBack
    <3> QED BY <1>2, <3>1, PubConstants DEF Back, PubInv, PubTypes
  <2>4. posts[p].date \in Nat /\ posts[p].out \in Nat /\ posts[p].date <= posts[p].out
    BY DEF PubInv, PubTypes, PostRecord
  <2>5. ~CameBefore(p, SinceFor(row')) BY <2>2, <2>3, <2>4, PubConstants DEF Older, CameBefore
  <2> QED BY <1>5, <2>5 DEF CameBefore, Dated, Onward, SinceFor
<1>7. /\ walks' = walks /\ InOrder' /\ PubTypes'
  BY <1>1, <1>2, <1>5, OnwardKeeps DEF PubInv, PubTypes, Onward
<1>8. WalksInv'
  <2> SUFFICES ASSUME NEW e \in Walkers PROVE WalkInv(walks[e])' BY DEF WalksInv
  <2>1. PICK o : o = walks[e] /\ WalkInv(o) BY DEF PubInv, WalksInv
  <2>2. WalkInv(o)' BY <1>2, <1>5, <2>1, WalkKeeps DEF PubInv
  <2> QED BY <1>7, <2>1, <2>2 DEF WalkInv, Window, Listed, Owes, Seen
<1> QED BY <1>6, <1>7, <1>8 DEF PubInv

\* The archive is as long as the number of its newest post.
LEMMA Archive ==
  ASSUME NEW n \in 0 .. MostPosts, Published = 1 .. n
  PROVE  /\ Cardinality(Published) = n
         /\ \A m \in Nat : m < n => OnPage(m) = n - m
<1>1. n \in Nat /\ Cardinality(Published) = n
  <2>1. n \in Nat BY PubConstants
  <2>2. Cardinality(1 .. n) = IF 1 > n THEN 0 ELSE n - 1 + 1 BY <2>1, FS_Interval
  <2> QED BY <2>1, <2>2
<1>2. ASSUME NEW m \in Nat, m < n PROVE OnPage(m) = n - m
  <2>1. ASSUME NEW p \in Published
        PROVE  Cardinality({q \in Published : q > p}) = n - p
    <3>1. {q \in Published : q > p} = (p + 1) .. n BY <1>1, <2>1
    <3>2. p \in Int /\ p + 1 \in Int /\ n \in Int BY <1>1, <2>1
    <3>3. Cardinality((p + 1) .. n) = IF p + 1 > n THEN 0 ELSE n - (p + 1) + 1
      BY <3>2, FS_Interval
    <3>4. p \in 1 .. n BY <2>1
    <3>5. Cardinality((p + 1) .. n) = n - p BY <1>1, <3>3, <3>4
    <3> QED BY <3>1, <3>5
  <2>2. n - m \in Published /\ n - (n - m) = m BY <1>1, <1>2
  <2>3. Cardinality({q \in Published : q > n - m}) = m BY <2>1, <2>2
  <2>4. \A p \in Published :
          Cardinality({q \in Published : q > p}) = m => p = n - m
    <3>1. ASSUME NEW p \in Published, Cardinality({q \in Published : q > p}) = m PROVE p = n - m
      <4>1. n - p = m BY <2>1, <3>1
      <4> QED BY <1>1, <4>1
    <3> QED BY <3>1
  <2>5. OnPage(m) \in Published /\ Cardinality({q \in Published : q > OnPage(m)}) = m
    BY <2>2, <2>3 DEF OnPage
  <2> QED BY <2>4, <2>5
<1> QED BY <1>1, <1>2

LEMMA ListsPageKeeps == ASSUME PubInv, NEW w \in Walkers, ListsPage(w) PROVE PubInv'
<1>1. PICK n \in 0 .. MostPosts :
        /\ Published = 1 .. n
        /\ \A p \in 1 .. n : posts[p].out <= now
        /\ \A p, q \in 1 .. n : p <= q => posts[p].out <= posts[q].out
  BY DEF PubInv, InOrder
<1>2. PICK o : o = walks[w] /\ WalkInv(o) /\ DOMAIN o = WalkFields /\ o.step = "lists"
  BY DEF PubInv, PubTypes, WalksInv, ListsPage, At
<1>3. PICK page : page = OnPage(o.offset) OBVIOUS
<1>4. o.offset \in Nat /\ n \in Nat /\ 1 .. n \subseteq Posts
  BY <1>2, PubConstants DEF WalkInv, Listed, Posts
<1>5. /\ Cardinality(Published) = n
      /\ o.offset < n => page = n - o.offset /\ page \in 1 .. n
  BY <1>1, <1>3, <1>4, Archive
<1>6. UNCHANGED <<kind, now, posts, row, reach>> BY DEF ListsPage
<1>7. Published' = Published BY <1>6 DEF Published
<1>8. CASE o.offset >= n \/ Older(page, o.since)
  <2>1. PICK k : k = [o EXCEPT !.step = "reads", !.offset = 0] OBVIOUS
  <2>2. Becomes(w, k) BY <1>2, <1>3, <1>5, <1>8, <2>1 DEF ListsPage
  <2>3. /\ DOMAIN k = WalkFields /\ k.step = "reads" /\ k.since = o.since
        /\ k.began = o.began /\ k.left = o.left /\ k.jobs = o.jobs /\ k.lost = o.lost
    BY <1>2, <2>1 DEF WalkFields
  <2>4. Owes(k)'
    <3> SUFFICES ASSUME NEW p \in Published, posts[p].out < o.began, posts[p].out >= o.since
                 PROVE  p \in o.left
      BY <1>6, <1>7, <2>3 DEF Owes
    <3>1. p \in 1 .. n /\ p \in Posts BY <1>1, <1>4
    <3>2. p + o.offset > n => p \in o.left BY <1>1, <1>2, <3>1 DEF WalkInv, Listed
    <3>3. CASE o.offset >= n BY <1>4, <3>1, <3>2, <3>3
    <3>4. CASE o.offset < n /\ Older(page, o.since)
      <4>1. page \in 1 .. n /\ page = n - o.offset /\ posts[page].out < o.since
        BY <1>4, <1>5, <3>4 DEF Older, ListsPage, PubInv, PubTypes
      <4>2. posts[p].out \in Nat /\ posts[page].out \in Nat /\ o.since \in Int
        BY <1>2, <1>4, <3>1, <4>1, PubConstants
        DEF PubInv, PubTypes, PostRecord, WalkInv, Window, Times
      <4>3. ~(p <= page) BY <1>1, <3>1, <4>1, <4>2
      <4> QED BY <1>4, <3>1, <3>2, <4>1, <4>3
    <3> QED BY <1>4, <1>8, <3>3, <3>4
  <2>5. WalkInv(k)' BY <1>2, <1>6, <1>7, <2>3, <2>4 DEF WalkInv, Window, Listed, SinceFor, Seen
  <2> QED BY <1>6, <2>2, <2>3, <2>5, SamePosts, WalkTurns
<1>9. CASE ~(o.offset >= n \/ Older(page, o.since))
  <2>1. PICK k : k = [o EXCEPT !.offset = @ + 1, !.left = @ \cup {page}] OBVIOUS
  <2>2. Becomes(w, k) BY <1>2, <1>3, <1>5, <1>9, <2>1 DEF ListsPage
  <2>3. /\ DOMAIN k = WalkFields /\ k.step = "lists" /\ k.since = o.since
        /\ k.began = o.began /\ k.left = o.left \cup {page} /\ k.offset = o.offset + 1
        /\ k.jobs = o.jobs
    BY <1>2, <2>1 DEF WalkFields
  <2>4. Listed(k)'
    <3> SUFFICES ASSUME NEW m \in 0 .. MostPosts, Published = 1 .. m, NEW p \in 1 .. m,
                        p + (o.offset + 1) > m, posts[p].out < o.began
                 PROVE  p \in o.left \cup {page}
      BY <1>4, <1>6, <1>7, <2>3 DEF Listed
    <3>1. m = n /\ p \in 1 .. n BY <1>1, <1>5, Archive
    <3>2. CASE p + o.offset > n BY <1>1, <1>2, <3>1, <3>2 DEF WalkInv, Listed
    <3>3. CASE ~(p + o.offset > n) BY <1>4, <1>5, <1>9, <3>1, <3>3
    <3> QED BY <3>2, <3>3
  <2>5. page \in Published BY <1>1, <1>4, <1>5, <1>9
  <2>6. Seen(k)' BY <1>2, <1>7, <2>3, <2>5 DEF WalkInv, Seen
  <2>7. WalkInv(k)' BY <1>2, <1>6, <2>3, <2>4, <2>6 DEF WalkInv, Window, Owes, SinceFor
  <2> QED BY <1>6, <2>2, <2>3, <2>7, SamePosts, WalkTurns
<1> QED BY <1>8, <1>9

LEMMA HarvestsKeeps == ASSUME PubInv, NEW w \in Walkers, Harvests(w) PROVE PubInv'
<1>1. PICK o : o = walks[w] /\ WalkInv(o) /\ DOMAIN o = WalkFields /\ o.step = "lists"
  BY DEF PubInv, PubTypes, WalksInv, Harvests, At
<1>2. /\ UNCHANGED <<kind, now, posts, row, reach>> /\ kind = "blog" BY DEF Harvests
<1>3. PICK sitemap \in BOOLEAN, hub \in BOOLEAN, kept \in SUBSET Posts :
        kept \subseteq FromHubs(hub) /\ Becomes(w, [o EXCEPT !.step = "reads", !.left = FromSitemap(sitemap) \cup kept,
                             !.lost = Shown("sitemap") \ FromSitemap(sitemap)])
  BY <1>1 DEF Harvests, Triages
<1>4. PICK k : k = [o EXCEPT !.step = "reads", !.left = FromSitemap(sitemap) \cup kept,
                             !.lost = Shown("sitemap") \ FromSitemap(sitemap)]
  OBVIOUS
<1>5. /\ DOMAIN k = WalkFields /\ k.step = "reads" /\ k.since = o.since /\ k.began = o.began
      /\ k.left = FromSitemap(sitemap) \cup kept
      /\ k.lost = Shown("sitemap") \ FromSitemap(sitemap) /\ k.jobs = o.jobs
  BY <1>1, <1>2, <1>4 DEF WalkFields
<1>6. Published' = Published BY <1>2 DEF Published
<1>7. Owes(k)'
  <2> SUFFICES ASSUME NEW p \in Published, Dated(p)
               PROVE  p \in k.left \cup k.jobs \cup k.lost
    BY <1>2, <1>6 DEF Owes, Dated
  <2>1. posts[p].door = "sitemap"
    BY <1>2 DEF Dated, PubInv, PubTypes, Published
  <2> QED BY <1>5, <2>1 DEF Shown
<1>8. Seen(k)' BY <1>1, <1>3, <1>5, <1>6 DEF WalkInv, Seen, FromSitemap, FromHubs, Shown
<1>9. WalkInv(k)' BY <1>1, <1>2, <1>5, <1>7, <1>8 DEF WalkInv, Window, Listed, SinceFor
<1> QED BY <1>2, <1>3, <1>4, <1>5, <1>9, SamePosts, WalkTurns

\* A post leaves the list of a run: handed on, come to nothing, or left alone because it is
\* held or older than the window.
LEMMA ReadsKeeps ==
  ASSUME PubInv, NEW w \in Walkers, NEW skipped, ReadsOn(w, skipped),
         \A p \in skipped : posts[p].at = "held" \/ Older(p, walks[w].since)
  PROVE  PubInv'
<1>1. PICK o : o = walks[w] /\ WalkInv(o) /\ DOMAIN o = WalkFields /\ o.step = "reads"
  BY DEF PubInv, PubTypes, WalksInv, ReadsOn, At
<1>2. PICK p : p = Max(o.left) /\ p \in Published
  <2>1. o.left \subseteq Published /\ o.left /= {} BY <1>1 DEF WalkInv, Seen, ReadsOn
  <2>2. Published \subseteq -1 .. MostPosts BY PubConstants DEF Published, Posts
  <2> QED BY <2>1, <2>2, MaxIsOne, PubConstants
<1>3. PICK rest : rest = [o EXCEPT !.left = @ \ {p}] OBVIOUS
<1>4. /\ UNCHANGED <<kind, now, row, reach>>
      /\ posts' = (IF p \in skipped /\ Predated(w, p)
                  THEN [posts EXCEPT ![p].at = "predated"] ELSE posts)
      /\ \/ p \in skipped /\ Becomes(w, rest)
         \/ HandsOn(w, rest, p) \/ ComesToNothing(w, rest, p)
  BY <1>1, <1>2, <1>3 DEF ReadsOn
<1>5. /\ DOMAIN rest = WalkFields /\ rest.left = o.left \ {p}
      /\ rest.step = "reads" /\ rest.since = o.since /\ rest.began = o.began
      /\ rest.jobs = o.jobs /\ rest.lost = o.lost
  BY <1>1, <1>3 DEF WalkFields
<1>6. PICK k : /\ k \in {rest, [rest EXCEPT !.jobs = @ \cup {p}], [rest EXCEPT !.lost = @ \cup {p}]}
               /\ Becomes(w, k)
               /\ k = rest => p \in skipped \/ p \in k.jobs \cup k.lost
  <2>1. CASE p \in skipped /\ Becomes(w, rest) BY <2>1
  <2>2. CASE HandsOn(w, rest, p)
    <3>1. PICK k : k = [rest EXCEPT !.jobs = @ \cup {p}] OBVIOUS
    <3>2. p \in k.jobs BY <1>5, <3>1 DEF WalkFields
    <3> QED BY <2>2, <3>1, <3>2 DEF HandsOn
  <2>3. CASE ComesToNothing(w, rest, p)
    <3>1. PICK k : k = [rest EXCEPT !.lost = @ \cup {p}] OBVIOUS
    <3>2. p \in k.lost BY <1>5, <3>1 DEF WalkFields
    <3> QED BY <2>3, <3>1, <3>2 DEF ComesToNothing
  <2> QED BY <1>4, <2>1, <2>2, <2>3
<1>7. /\ DOMAIN k = WalkFields /\ k.step = "reads" /\ k.since = o.since /\ k.began = o.began
      /\ k.left = o.left \ {p} /\ o.jobs \subseteq k.jobs /\ o.lost \subseteq k.lost
      /\ p \in skipped \/ p \in k.jobs \cup k.lost
      /\ k.jobs \subseteq o.jobs \cup {p}
  BY <1>5, <1>6 DEF WalkFields
<1>8. ASSUME NEW q \in Posts
      PROVE  /\ posts'[q] \in PostRecord
             /\ posts'[q].out = posts[q].out /\ posts'[q].date = posts[q].date
             /\ posts'[q].door = posts[q].door
             /\ posts'[q].at = (IF q = p /\ p \in skipped /\ Predated(w, p) THEN "predated"
                               ELSE posts[q].at)
  BY <1>4 DEF PubInv, PubTypes, PostRecord
<1>9. posts' \in [Posts -> PostRecord] BY <1>4, <1>8 DEF PubInv, PubTypes
<1>10. Onward BY <1>4, <1>8, <1>9 DEF Onward, Predated, Told
<1>11. Published' = Published /\ Published \subseteq Posts
  BY <1>10, OnwardKeeps DEF PubInv, Published
<1>12. StillInReach'
  <2> SUFFICES ASSUME NEW q \in Posts, posts'[q].at = "out", row.last /= Never,
                      posts'[q].out >= reach
               PROVE  ~CameBefore(q, SinceFor(row))'
    BY <1>4 DEF StillInReach
  <2>1. posts[q].at = "out" /\ posts[q].out >= reach BY <1>8
  <2>2. ~CameBefore(q, SinceFor(row)) BY <2>1 DEF PubInv, StillInReach
  <2> QED BY <1>4, <1>8, <2>2 DEF CameBefore, Dated, SinceFor
<1>13. Owes(k)'
  <2> SUFFICES ASSUME NEW q \in Published, Dated(q), posts[q].out < o.began,
                      posts[q].out >= o.since
               PROVE  posts'[q].at \in Told \/ q \in k.left \cup k.jobs \cup k.lost
    BY <1>7, <1>8, <1>11 DEF Owes, Dated
  <2>1. q \in Posts /\ posts[q] \in PostRecord /\ posts[q].at /= "unborn"
    BY <1>11 DEF PubInv, PubTypes, Published
  <2>2. posts[q].at \in Told \/ q \in o.left \cup o.jobs \cup o.lost
    BY <1>1 DEF WalkInv, Owes
  <2>3. posts[q].at \in Told => posts'[q].at \in Told BY <1>10, <2>1 DEF Onward
  <2>4. CASE q = p /\ p \in skipped /\ posts[q].at \notin Told
    <3>1. posts[q].at = "out" BY <2>1, <2>4 DEF PostRecord, Told
    <3>2. Older(p, o.since) BY <1>1, <2>4, <3>1
    <3>3. Predated(w, p) BY <1>1, <2>4, <3>1, <3>2 DEF Predated
    <3> QED BY <1>8, <2>1, <2>4, <3>3 DEF Told
  <2> QED BY <1>7, <2>2, <2>3, <2>4
<1>14. Seen(k)' BY <1>1, <1>2, <1>6, <1>7, <1>11 DEF WalkInv, Seen
<1>15. WalkInv(k)'
  <2>1. Window(k)' BY <1>1, <1>4, <1>7 DEF WalkInv, Window, SinceFor
  <2> QED BY <1>7, <1>13, <1>14, <2>1 DEF WalkInv, Listed
<1>16. /\ row' \in [last : Times, cursor : Times] /\ row'.cursor <= now /\ row'.last = row.last
       /\ reach' \in Int /\ (row'.last = Never => reach' = MaxNow + 1)
  BY <1>4 DEF PubInv, PubTypes
<1> QED BY <1>6, <1>7, <1>10, <1>12, <1>15, <1>16, WalkTurns

LEMMA ReadersKeep ==
  ASSUME PubInv, NEW w \in Walkers, ReadsSubstack(w) \/ ReadsBlog(w) PROVE PubInv'
<1>1. CASE ReadsSubstack(w)
  <2>1. PICK skipped : skipped = {p \in Posts : HeldAlready(w, p)} OBVIOUS
  <2> QED BY <1>1, <2>1, ReadsKeeps DEF ReadsSubstack, HeldAlready
<1>2. CASE ReadsBlog(w)
  <2>1. PICK skipped : skipped = {p \in Posts : LeftAlone(w, p)} OBVIOUS
  <2> QED BY <1>2, <2>1, ReadsKeeps DEF ReadsBlog, LeftAlone, HeldAlready
<1> QED BY <1>1, <1>2

LEMMA FlushesKeeps == ASSUME PubInv, NEW w \in Walkers, Flushes(w) PROVE PubInv'
<1>1. PICK o : o = walks[w] /\ WalkInv(o) /\ DOMAIN o = WalkFields
  BY DEF PubInv, PubTypes, WalksInv
<1>2. PICK kept \in SUBSET o.jobs :
        /\ posts' = [p \in Posts |-> IF p \in kept THEN [posts[p] EXCEPT !.at = "held"] ELSE posts[p]]
        /\ Becomes(w, [o EXCEPT !.jobs = {}, !.lost = @ \cup (o.jobs \ kept)])
  BY <1>1 DEF Flushes
<1>3. UNCHANGED <<kind, now, row, reach>> BY DEF Flushes
<1>4. PICK k : k = [o EXCEPT !.jobs = {}, !.lost = @ \cup (o.jobs \ kept)] OBVIOUS
<1>5. /\ DOMAIN k = WalkFields /\ k.step = o.step /\ k.since = o.since /\ k.began = o.began
      /\ k.left = o.left /\ k.offset = o.offset /\ k.lost = o.lost \cup (o.jobs \ kept)
      /\ k.jobs = {} /\ Becomes(w, k)
  BY <1>1, <1>2, <1>4 DEF WalkFields
<1>6. kept \subseteq Published BY <1>1, <1>2 DEF WalkInv, Seen
<1>7. ASSUME NEW p \in Posts
      PROVE  /\ posts'[p] \in PostRecord
             /\ posts'[p].out = posts[p].out /\ posts'[p].date = posts[p].date
             /\ posts'[p].door = posts[p].door
             /\ p \in kept => posts'[p].at = "held" /\ posts[p].at /= "unborn"
             /\ p \notin kept => posts'[p].at = posts[p].at
  BY <1>2, <1>6 DEF PubInv, PubTypes, PostRecord, Published
<1>8. posts' \in [Posts -> PostRecord] BY <1>2, <1>7
<1>9. Onward BY <1>3, <1>7, <1>8 DEF Onward, Told
<1>10. Published' = Published /\ Published \subseteq Posts
  BY <1>9, OnwardKeeps DEF PubInv, Published
<1>11. StillInReach'
  <2> SUFFICES ASSUME NEW p \in Posts, posts'[p].at = "out", row.last /= Never,
                      posts'[p].out >= reach
               PROVE  ~CameBefore(p, SinceFor(row))'
    BY <1>3 DEF StillInReach
  <2>1. posts[p].at = "out" /\ posts[p].out >= reach BY <1>7
  <2>2. ~CameBefore(p, SinceFor(row)) BY <2>1 DEF PubInv, StillInReach
  <2> QED BY <1>3, <1>7, <2>2 DEF CameBefore, Dated, SinceFor
<1>12. Owes(k)'
  <2> SUFFICES ASSUME k.step = "reads", NEW p \in Published, Dated(p)',
                      posts'[p].out < k.began, posts'[p].out >= k.since
               PROVE  posts'[p].at \in Told \/ p \in k.left \cup k.jobs \cup k.lost
    BY <1>10 DEF Owes
  <2>1. p \in Posts /\ Dated(p) BY <1>7, <1>10 DEF Dated
  <2>2. posts[p].at \in Told \/ p \in o.left \cup o.jobs \cup o.lost
    BY <1>1, <1>5, <1>7, <2>1 DEF WalkInv, Owes
  <2> QED BY <1>5, <1>7, <2>1, <2>2 DEF Told
<1>13. WalkInv(o)' BY <1>1, <1>3, <1>9, WalkKeeps DEF PubInv, PubTypes
<1>14. WalkInv(k)' BY <1>5, <1>12, <1>13 DEF WalkInv, Window, Listed, Seen
<1> QED BY <1>3, <1>5, <1>9, <1>11, <1>14, WalkTurns DEF PubInv, PubTypes

\* A pull is stamped: whatever was out before it began and within its window is held,
\* or it saw it; and what is older was out of reach before.
LEMMA StampsKeep == ASSUME PubInv, NEW w \in Walkers, Stamps(w) PROVE PubInv'
<1>1. PICK o : o = walks[w] /\ WalkInv(o) /\ DOMAIN o = WalkFields /\ o.step = "reads"
  BY DEF PubInv, PubTypes, WalksInv, Stamps, At
<1>2. /\ o.left = {} /\ o.jobs = {} /\ UNCHANGED <<kind, now>> /\ Becomes(w, Resting)
      /\ row' = [last |-> now, cursor |-> IF Newest /= Never THEN Newest ELSE row.cursor]
      /\ reach' = IF o.since < reach THEN o.since ELSE reach
      /\ Passes(Behind(o.lost, row'))
  BY <1>1 DEF Stamps, Rests
<1>3. Newest \in Times /\ Newest <= now BY NewestHeld DEF PubInv
<1>4. /\ row' \in [last : Times, cursor : Times] /\ row'.last = now /\ row'.cursor <= now
      /\ row'.last /= Never /\ now \in Nat /\ now <= MaxNow
  BY <1>2, <1>3, PubConstants DEF PubInv, PubTypes, Times
<1>5. PICK gone : gone = Behind(o.lost, row') OBVIOUS
<1>6. \A p \in Posts : p \in gone => posts[p].at = "out" BY <1>5 DEF Behind
<1>7. /\ Onward
      /\ \A p \in Posts : posts'[p].at = "out" <=> posts[p].at = "out" /\ p \notin gone
  BY <1>2, <1>5, <1>6, PassesOnward
<1>8. /\ o.since \in Int /\ Never = -1 /\ reach \in Int /\ reach' \in Int
      /\ row.last = Never => reach = MaxNow + 1
  BY <1>1, <1>2, PubConstants DEF WalkInv, Window, PubInv, PubTypes, Times
<1>9. SinceFor(row') = Back(now) /\ Back(now) \in Nat /\ Back(now) <= o.began /\ o.began \in Nat
  <2>1. SinceFor(row') = Back(now) BY <1>4, SinceForBack
  <2>2. now /= Never BY <1>4, <1>8
  <2> QED BY <1>1, <1>4, <2>1, <2>2, PubConstants DEF WalkInv, Window, Back
<1>10. ASSUME NEW p \in Posts, posts[p].at = "out", p \notin gone, posts[p].out >= reach',
              Dated(p), posts[p].out < Back(now)
       PROVE  FALSE
  <2>1. /\ posts[p].out \in Nat /\ p \in Published /\ posts[p].out <= now
        /\ posts[p].date \in Nat /\ posts[p].date <= posts[p].out
    BY <1>10 DEF PubInv, PubTypes, PostRecord, Published, InOrder
  <2>2. Older(p, SinceFor(row')) BY <1>4, <1>8, <1>9, <1>10, <2>1 DEF Older
  <2>3. p \notin o.lost BY <1>5, <1>10, <2>2 DEF Behind
  <2>4. posts[p].out < o.since
    BY <1>1, <1>2, <1>8, <1>9, <1>10, <2>1, <2>3 DEF WalkInv, Owes, Told
  <2>5. posts[p].out >= reach /\ reach <= o.since BY <1>2, <1>8, <1>10, <2>1, <2>4
  <2>6. row.last /= Never BY <1>4, <1>8, <2>1, <2>5, PubConstants
  <2>7. ~CameBefore(p, SinceFor(row)) BY <1>10, <2>5, <2>6 DEF PubInv, StillInReach
  <2>8. SinceFor(row) \in Int /\ o.since <= SinceFor(row)
    BY <1>1, <2>6, SinceForBack, PubConstants DEF PubInv, PubTypes, WalkInv, Window, Times
  <2> QED BY <1>8, <1>10, <2>1, <2>4, <2>7, <2>8 DEF CameBefore
<1>11. StillInReach'
  <2> SUFFICES ASSUME NEW p \in Posts, posts'[p].at = "out", posts'[p].out >= reach'
               PROVE  ~CameBefore(p, SinceFor(row))'
    BY DEF StillInReach
  <2>1. /\ posts[p].at = "out" /\ p \notin gone /\ posts[p].out >= reach'
        /\ posts'[p].out = posts[p].out /\ posts'[p].door = posts[p].door
    BY <1>7 DEF Onward
  <2>2. ~(Dated(p) /\ posts[p].out < Back(now)) BY <1>10, <2>1
  <2>3. SinceFor(row)' = Back(now) BY <1>9 DEF SinceFor
  <2> QED BY <2>1, <2>2, <2>3 DEF CameBefore, Dated
<1>12. /\ DOMAIN Resting = WalkFields /\ WalkInv(Resting)' BY RestingWalk
<1> QED BY <1>2, <1>4, <1>7, <1>8, <1>11, <1>12, WalkTurns

\* A post comes out: it is dated now, behind no window and in front of every list.
LEMMA PublishesKeeps == ASSUME PubInv, Publishes PROVE PubInv'
<1>p. PICK p \in Posts \ Published : \E date \in DatesShown(p) :
        /\ p - 1 \in Published \cup {0}
        /\ posts' = [posts EXCEPT ![p].at = "out", ![p].out = now, ![p].date = date]
  BY DEF Publishes
<1>1. PICK date \in DatesShown(p) :
        /\ p - 1 \in Published \cup {0}
        /\ posts' = [posts EXCEPT ![p].at = "out", ![p].out = now, ![p].date = date]
  BY <1>p
<1>0. /\ date \in Nat /\ date <= now
      /\ posts[p].door /= "sitemap" => date = now
  <2>1. now \in Nat /\ COARSE \in Nat BY PublicationsAssumption DEF PubInv, PubTypes
  <2>2. Max({0, now - COARSE}) = IF now - COARSE < 0 THEN 0 ELSE now - COARSE
    BY <2>1, Floor
  <2> QED BY <1>1, <2>1, <2>2 DEF DatesShown
<1>2. UNCHANGED <<kind, now, row, reach, walks>> BY DEF Publishes
<1>3. /\ \A q \in Posts \ {p} : posts'[q] = posts[q]
      /\ posts'[p].at = "out" /\ posts'[p].out = now /\ posts'[p].door = posts[p].door
      /\ posts'[p].date = date /\ now \in Nat
  BY <1>1, PubConstants DEF PubInv, PubTypes, PostRecord
<1>4. posts' \in [Posts -> PostRecord]
  <2>1. PICK new : new = [posts[p] EXCEPT !.at = "out", !.out = now, !.date = date] OBVIOUS
  <2>2. posts[p] \in PostRecord BY DEF PubInv, PubTypes
  <2>3. new \in PostRecord BY <1>0, <1>3, <2>1, <2>2 DEF PostRecord
  <2>4. posts' = [posts EXCEPT ![p] = new] BY <1>1, <2>1 DEF PubInv, PubTypes
  <2> QED BY <2>3, <2>4 DEF PubInv, PubTypes
<1>5. PubTypes'
  <2>1. ASSUME NEW q \in Posts
        PROVE  /\ kind = "blog" => posts'[q].door /= "archive"
               /\ kind = "substack" => posts'[q].door = "archive" /\ posts'[q].date = posts'[q].out
               /\ posts'[q].date <= posts'[q].out
    <3>1. CASE q = p BY <1>0, <1>3, <3>1 DEF PubInv, PubTypes
    <3>2. CASE q /= p
      <4>1. posts'[q] = posts[q] BY <1>3, <3>2
      <4> QED BY <4>1 DEF PubInv, PubTypes
    <3> QED BY <3>1, <3>2
  <2> QED BY <1>2, <1>4, <2>1 DEF PubInv, PubTypes
<1>6. PICK n \in 0 .. MostPosts :
        /\ Published = 1 .. n
        /\ \A q \in 1 .. n : posts[q].out <= now
        /\ \A q, r \in 1 .. n : q <= r => posts[q].out <= posts[r].out
  BY DEF PubInv, InOrder
<1>7. /\ n \in Nat /\ 1 .. n \subseteq Posts /\ p = n + 1 /\ n + 1 \in 0 .. MostPosts
  BY <1>1, <1>6, PubConstants DEF Posts
<1>8. Published' = 1 .. (n + 1)
  <2>1. Published' = Published \cup {p} BY <1>1, <1>3 DEF Published
  <2> QED BY <1>6, <1>7, <2>1
<1>9. \A q \in 1 .. n : q \in Posts /\ q /= p /\ posts'[q] = posts[q] /\ q \in 1 .. (n + 1)
  BY <1>3, <1>7
<1>10. InOrder'
  <2>1. \A q \in 1 .. (n + 1) : q = p \/ q \in 1 .. n BY <1>7
  <2>2. \A q \in 1 .. (n + 1) : posts'[q].out <= now' BY <1>2, <1>3, <1>6, <1>9, <2>1
  <2>3. ASSUME NEW q \in 1 .. (n + 1), NEW r \in 1 .. (n + 1), q <= r
        PROVE  posts'[q].out <= posts'[r].out
    <3>1. CASE r = p BY <1>2, <1>3, <2>2, <3>1
    <3>2. CASE r /= p
      <4>1. r \in 1 .. n /\ q \in 1 .. n BY <1>7, <2>1, <2>3, <3>2
      <4> QED BY <1>6, <1>9, <2>3, <4>1
    <3> QED BY <3>1, <3>2
  <2> QED BY <1>7, <1>8, <2>2, <2>3 DEF InOrder
<1>11. StillInReach'
  <2> SUFFICES ASSUME NEW q \in Posts, posts'[q].at = "out", row.last /= Never,
                      posts'[q].out >= reach
               PROVE  ~CameBefore(q, SinceFor(row))'
    BY <1>2 DEF StillInReach
  <2>1. CASE q = p
    <3>1. SinceFor(row) = Back(row.last) /\ row.last \in Times /\ row.last <= now
      BY SinceForBack DEF PubInv, PubTypes
    <3>2. SinceFor(row) \in Times /\ SinceFor(row) <= now
      BY <1>3, <3>1, BackGrows, PubConstants DEF Times
    <3>3. ~(now < SinceFor(row)) BY <1>3, <3>2, PubConstants DEF Times
    <3> QED BY <1>2, <1>3, <2>1, <3>3 DEF CameBefore, SinceFor
  <2>2. CASE q /= p
    <3>1. posts'[q] = posts[q] BY <1>3, <2>2
    <3>2. ~CameBefore(q, SinceFor(row)) BY <3>1 DEF PubInv, StillInReach
    <3> QED BY <1>2, <3>1, <3>2 DEF CameBefore, Dated, SinceFor
  <2> QED BY <2>1, <2>2
<1>12. ASSUME NEW k, WalkInv(k) PROVE WalkInv(k)'
  <2>1. Window(k)' BY <1>2, <1>12 DEF WalkInv, Window, SinceFor
  <2>2. k.step /= "idle" => k.began \in Nat /\ ~(now < k.began)
    BY <1>3, <1>12 DEF WalkInv, Window
  <2>3. Listed(k)'
    <3> SUFFICES ASSUME k.step = "lists", NEW m \in 0 .. MostPosts, 1 .. (n + 1) = 1 .. m,
                        NEW q \in 1 .. m, q + k.offset > m, posts'[q].out < k.began
                 PROVE  q \in k.left
      BY <1>8, <1>12 DEF WalkInv, Listed
    <3>1. m = n + 1
      <4>1. n + 1 \in 1 .. m BY <1>7
      <4>2. m \in 1 .. (n + 1) BY <4>1, PubConstants
      <4> QED BY <1>7, <4>1, <4>2
    <3>2. q /= p BY <1>3, <2>2
    <3>3. q \in 1 .. n BY <1>7, <3>1, <3>2
    <3>4. q + k.offset > n BY <1>7, <1>12, <3>1, <3>3 DEF WalkInv, Listed
    <3>5. posts[q].out < k.began BY <1>9, <3>3
    <3> QED BY <1>6, <1>12, <3>3, <3>4, <3>5 DEF WalkInv, Listed
  <2>4. Owes(k)'
    <3> SUFFICES ASSUME k.step = "reads", NEW q \in 1 .. (n + 1), Dated(q)',
                        posts'[q].out < k.began, posts'[q].out >= k.since
                 PROVE  posts'[q].at \in Told \/ q \in k.left \cup k.jobs \cup k.lost
      BY <1>8 DEF Owes
    <3>1. q /= p BY <1>3, <2>2
    <3>2. q \in 1 .. n /\ posts'[q] = posts[q] BY <1>7, <1>9, <3>1
    <3>3. q \in Published /\ Dated(q) BY <1>6, <3>2 DEF Dated
    <3> QED BY <1>12, <3>2, <3>3 DEF WalkInv, Owes
  <2>5. Seen(k)' BY <1>6, <1>8, <1>9, <1>12 DEF WalkInv, Seen
  <2> QED BY <1>12, <2>1, <2>3, <2>4, <2>5 DEF WalkInv
<1>13. WalksInv'
  <2> SUFFICES ASSUME NEW w \in Walkers PROVE WalkInv(walks[w])' BY DEF WalksInv
  <2>1. PICK o : o = walks[w] /\ WalkInv(o) BY DEF PubInv, WalksInv
  <2> QED BY <1>2, <1>12, <2>1 DEF WalkInv, Window, Listed, Owes, Seen
<1> QED BY <1>5, <1>10, <1>11, <1>13 DEF PubInv

LEMMA TickKeeps == ASSUME PubInv, Tick PROVE PubInv'
<1>1. /\ UNCHANGED <<kind, posts, row, reach, walks>> /\ now' = now + 1 /\ now < MaxNow
      /\ now \in Nat /\ now' \in 0 .. MaxNow
  BY PubConstants DEF Tick, PubInv, PubTypes
<1>2. PubTypes' BY <1>1, PubConstants DEF PubInv, PubTypes, Times
<1>3. InOrder'
  <2>1. PICK n \in 0 .. MostPosts :
          /\ Published = 1 .. n
          /\ \A p \in 1 .. n : posts[p].out <= now
          /\ \A p, q \in 1 .. n : p <= q => posts[p].out <= posts[q].out
    BY DEF PubInv, InOrder
  <2>2. \A p \in 1 .. n : posts[p].out \in Nat
    BY PubConstants DEF PubInv, PubTypes, PostRecord, Posts
  <2>3. \A p \in 1 .. n : posts'[p].out <= now' BY <1>1, <2>1, <2>2
  <2>4. Published' = 1 .. n BY <1>1, <2>1 DEF Published
  <2> QED BY <1>1, <2>1, <2>3, <2>4 DEF InOrder
<1>4. StillInReach' BY <1>1 DEF PubInv, StillInReach, CameBefore, Dated, SinceFor
<1>5. WalksInv'
  <2> SUFFICES ASSUME NEW w \in Walkers PROVE WalkInv(walks[w])' BY DEF WalksInv
  <2>1. PICK o : o = walks[w] /\ WalkInv(o) BY DEF PubInv, WalksInv
  <2>2. o.step /= "idle" => now' - o.began <= OVERLAP BY <2>1 DEF Tick, At
  <2>3. Window(o)' BY <1>1, <2>1, <2>2 DEF WalkInv, Window, SinceFor
  <2>4. WalkInv(o)' BY <1>1, <2>1, <2>3 DEF WalkInv, Listed, Owes, Dated, Published, Seen
  <2> QED BY <1>1, <2>1, <2>4 DEF WalkInv, Window, Listed, Owes, Seen
<1> QED BY <1>2, <1>3, <1>4, <1>5 DEF PubInv

LEMMA PubBegins == SourceInit => PubInv
<1> SUFFICES ASSUME SourceInit PROVE PubInv OBVIOUS
<1>1. PICK archive \in 0 .. MostPosts : \E door \in [Posts -> Doors] :
        posts = [p \in Posts |-> [at |-> IF p <= archive THEN "out" ELSE "unborn",
                                  out |-> 0, date |-> 0, door |-> door[p]]]
  BY DEF SourceInit, PubInit
<1>2. PICK door \in [Posts -> Doors] :
        posts = [p \in Posts |-> [at |-> IF p <= archive THEN "out" ELSE "unborn",
                                  out |-> 0, date |-> 0, door |-> door[p]]]
  BY <1>1
<1>3. /\ now = 0 /\ kind \in {"substack", "blog"} /\ row.last = Never /\ row.cursor = Never
      /\ row \in [last : Times, cursor : Times] /\ reach = MaxNow + 1
      /\ walks = [w \in Walkers |-> Resting]
  BY DEF SourceInit, PubInit, Times
<1>4. \A p \in Posts :
        /\ posts[p].at = (IF p <= archive THEN "out" ELSE "unborn")
        /\ posts[p].out = 0 /\ posts[p].date = 0 /\ posts[p].door \in Doors
        /\ posts[p] \in PostRecord
  BY <1>2, <1>3 DEF PostRecord, Doors
<1>5. PubTypes
  BY <1>2, <1>3, <1>4, PubConstants DEF PubTypes, Doors, Resting, WalkFields
<1>6. InOrder
  <2>1. 1 .. archive \subseteq Posts BY PubConstants DEF Posts
  <2>2. Published = 1 .. archive BY <1>4, <2>1 DEF Published, Posts
  <2> QED BY <1>3, <1>4, <2>1, <2>2 DEF InOrder
<1>7. WalksInv
  BY <1>3 DEF WalksInv, WalkInv, Resting, Window, Listed, Owes, Seen
<1>8. StillInReach BY <1>3 DEF StillInReach
<1> QED BY <1>5, <1>6, <1>7, <1>8 DEF PubInv

LEMMA PubKeeps == ASSUME PubInv, [SourceNext]_<<part, pubVars, trustVars>> PROVE PubInv'
<1>1. CASE PubNext
  <2>1. CASE RailBegins BY <2>1, RailBeginsKeeps
  <2>2. CASE RailSkips BY <2>2, RailSkipsKeeps
  <2>3. CASE ToolBegins BY <2>3, ToolBeginsKeeps
  <2>4. ASSUME NEW w \in Walkers,
               \/ ListsPage(w) \/ Harvests(w) \/ Fails(w)
               \/ ReadsSubstack(w) \/ ReadsBlog(w) \/ Flushes(w)
        PROVE  PubInv'
    BY <2>4, ListsPageKeeps, HarvestsKeeps, FailsKeep, ReadersKeep, FlushesKeeps
  <2>5. CASE RailEnds \/ ToolEnds BY <2>5, StampsKeep DEF RailEnds, ToolEnds, Walkers
  <2>6. CASE Publishes BY <2>6, PublishesKeeps
  <2>7. CASE Tick BY <2>7, TickKeeps
  <2> QED BY <1>1, <2>1, <2>2, <2>3, <2>4, <2>5, <2>6, <2>7 DEF PubNext
<1>2. CASE UNCHANGED pubVars
  <2>1. UNCHANGED <<kind, now, posts, row, reach, walks>> BY <1>2 DEF pubVars
  <2>2. PubTypes' /\ StillInReach'
    BY <2>1 DEF PubInv, PubTypes, StillInReach, CameBefore, Dated, SinceFor
  <2>3. InOrder' BY <2>1 DEF PubInv, InOrder, Published
  <2>4. WalksInv'
    <3> SUFFICES ASSUME NEW w \in Walkers PROVE WalkInv(walks[w])' BY DEF WalksInv
    <3>1. PICK o : o = walks[w] /\ WalkInv(o) BY DEF PubInv, WalksInv
    <3>2. Window(o)' BY <2>1, <3>1 DEF WalkInv, Window, SinceFor
    <3>3. Published' = Published BY <2>1 DEF Published
    <3>4. Listed(o)' /\ Owes(o)' /\ Seen(o)'
      BY <2>1, <3>1, <3>3 DEF WalkInv, Listed, Owes, Seen, Dated
    <3> QED BY <2>1, <3>1, <3>2, <3>4 DEF WalkInv, Window, Listed, Owes, Seen
  <2> QED BY <2>2, <2>3, <2>4 DEF PubInv
<1> QED BY <1>1, <1>2 DEF SourceNext

\* StillInReach (oracle_refresh_state.py, substack.py, blog.py), for any number of posts,
\* any archive, and pulls of the rail and of the user that begin, break off and end
\* anywhere: a post that came out since the oldest window ever pulled is held, or came out
\* within the next window, or was seen by a pull that could not store it or that left it
\* alone for the day the blog dates it by.
THEOREM NothingBetweenWindows == SourceSpec => []StillInReach
<1>1. PubInv => StillInReach BY DEF PubInv
<1> QED BY <1>1, PubBegins, PubKeeps, PTL DEF SourceSpec
=============================================================================
