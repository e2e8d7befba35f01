------------------------------- MODULE PullRuns -------------------------------
(***************************************************************************)
(* Pulls of confirmed Oracles that outlive the call that asked for them:   *)
(* the run record of pipeline/kb/pull_runs.py, the calls and the worker    *)
(* thread of mcp_server/oracle_tools.py, and add_oracle, which pulls in    *)
(* the call itself.  What a walk does to the registry is OracleRefresh's   *)
(* subject; here it is what a pull owes to those who asked for it.         *)
(*                                                                         *)
(* A slot of Slots stands for one run record; it is used again once its    *)
(* worker is gone and there is nothing left to tell about it.              *)
(***************************************************************************)
EXTENDS SourceReviews, Naturals, FiniteSets

CONSTANTS
  Deepens,       \* the calls that ask for a window of X deeper than its breadth
  Rounds,        \* looks a run takes for latecomers
  Slots,         \* bound: run records with a worker or a report outstanding
  MaxTroubles,   \* bound: walks, beats and processes that may go wrong
  MaxAsks        \* bound: calls of the user, but for asking again for what has not come

ASSUME PullAssumption ==
  Doubtful \subseteq Oracles /\ Deepens \subseteq Calls /\ None \notin Oracles \cup Slots
  /\ MaxTroubles \in Nat /\ MaxAsks \in Nat /\ Rounds \in Nat \ {0}

VARIABLES
  run,           \* pull_runs and pull_run_oracles, per slot
  latest,        \* the run that was started last
  worker,        \* the thread of _run_pull, per slot
  call,          \* per call of the tools: what it has read and not yet used
  wanted,        \* history: asked for and not pulled since
  excused,       \* history, per run: picks its worker was not bound to finish
  troubles, asks

vars == <<confirmed, reviewVars, run, latest, worker, call, wanted, excused, troubles, asks>>

NoRun == [roster |-> {}, done |-> {}, finished |-> FALSE, reported |-> FALSE, fresh |-> FALSE]
Gone == [stage |-> "gone", broad |-> FALSE, left |-> {}, walked |-> {}, looks |-> 0,
         at |-> None, held |-> FALSE]
Idle == [step |-> "idle", picks |-> {}, slot |-> None, held |-> FALSE]

Init ==
  /\ confirmed = Oracles /\ ReviewInit
  /\ run = [s \in Slots |-> NoRun]
  /\ latest = None
  /\ worker = [s \in Slots |-> Gone]
  /\ call = [c \in Calls |-> Idle]
  /\ wanted = {} /\ excused = [s \in Slots |-> {}] /\ troubles = 0 /\ asks = 0

Asked == asks < MaxAsks /\ asks' = asks + 1
Trouble == troubles < MaxTroubles /\ troubles' = troubles + 1
Working(s) == worker[s].stage /= "gone"

-----------------------------------------------------------------------------
(* The roster *)

\* confirm of what the tool screens or resolves to one person.
Confirm(o) ==
  /\ o \notin confirmed /\ confirmed' = confirmed \cup {o}
  /\ UNCHANGED <<reviewVars, run, latest, worker, call, wanted, excused, troubles, asks>>

\* forget: the subscription and its review items; runs keep their rosters.
Forget(o) ==
  /\ o \in confirmed /\ confirmed' = confirmed \ {o}
  /\ wanted' = wanted \ {o}
  /\ ReviewForgets(o)
  /\ UNCHANGED <<run, latest, worker, call, excused, troubles>>
  /\ Asked

-----------------------------------------------------------------------------
(* The calls *)

\* A slip: a run that is not finished is in flight.
InFlight_Unfinished == latest /= None /\ ~run[latest].finished

\* in_flight: the latest run, if it is not finished and its heart beats.
InFlight == latest /= None /\ ~run[latest].finished /\ run[latest].fresh

\* Asking again for what has not come ("a fresh ingest picks up where this
\* stopped"), which is not counted.
Again(picks) == picks = wanted /\ ~InFlight /\ \A c \in Calls : call[c] = Idle

\* action='ingest': the picks that are confirmed, and whether a run is in flight.
Ingest(c, picks) ==
  /\ call[c] = Idle
  /\ picks \subseteq confirmed /\ picks /= {}
  /\ call' = [call EXCEPT ![c] =
       [Idle EXCEPT !.step = IF InFlight THEN "joining" ELSE "opening", !.picks = picks,
                    !.slot = IF InFlight THEN latest ELSE None]]
  /\ UNCHANGED <<confirmed, reviewVars, run, latest, worker, wanted, excused, troubles>>
  /\ IF Again(picks) THEN UNCHANGED asks ELSE Asked

\* A run record whose worker is gone, and which no call or notice will read.
Spare(s) ==
  /\ ~Working(s)
  /\ run[s].finished => run[s].reported
  /\ \A c \in Calls : call[c].slot /= s

\* open_run over the picks, and a thread to walk them: breadth first where the
\* window asked for is deeper than that.
Opens(c) ==
  /\ call[c].step = "opening"
  /\ \E s \in Slots :
       /\ Spare(s) /\ s = CHOOSE t \in Slots : Spare(t)
       /\ run' = [t \in Slots |->
            IF t = s THEN [NoRun EXCEPT !.roster = call[c].picks, !.fresh = TRUE]
            ELSE IF Spare(t) THEN NoRun ELSE run[t]]
       /\ worker' = [worker EXCEPT ![s] =
            [Gone EXCEPT !.stage = IF c \in Deepens THEN "breadth" ELSE "deep",
                         !.broad = c \in Deepens, !.left = call[c].picks, !.walked = call[c].picks,
                         !.looks = Rounds]]
       /\ excused' = [t \in Slots |-> IF Spare(t) THEN {} ELSE excused[t]]
       /\ latest' = s
  /\ wanted' = wanted \cup (call[c].picks \cap confirmed)
  /\ call' = [call EXCEPT ![c] = Idle]
  /\ UNCHANGED <<confirmed, reviewVars, troubles, asks>>

\* The worker of a run will look at its roster again.
WillLook(s) == worker[s].stage \in {"breadth", "deep", "late"} /\ worker[s].looks > 0

\* add_picks: appended to the run that was in flight when the call looked.
Joins(c) ==
  LET s == call[c].slot
      fresh == call[c].picks \ run[s].roster
  IN /\ call[c].step = "joining"
     /\ run' = [run EXCEPT ![s].roster = @ \cup fresh]
     /\ excused' = [excused EXCEPT ![s] = IF WillLook(s) THEN @ ELSE @ \cup fresh]
     /\ wanted' = wanted \cup ((call[c].picks \cap confirmed) \ run[s].done)
     /\ call' = [call EXCEPT ![c] = Idle]
     /\ UNCHANGED <<confirmed, reviewVars, latest, worker, troubles, asks>>

\* action='progress' of a run that is complete or has stopped.
Progress ==
  /\ latest /= None /\ ~InFlight /\ ~run[latest].reported
  /\ run' = [run EXCEPT ![latest].reported = TRUE]
  /\ UNCHANGED <<confirmed, reviewVars, latest, worker, call, wanted, excused, troubles, asks>>

\* completion_notice, which rides on the next call of another tool.
Notice(s) ==
  /\ run[s].finished /\ ~run[s].reported
  /\ run' = [run EXCEPT ![s].reported = TRUE]
  /\ UNCHANGED <<confirmed, reviewVars, latest, worker, call, wanted, excused, troubles, asks>>

\* add_oracle with confirm: on the roster, then pulled by the call itself.
AddBegins(c, o) ==
  /\ call[c] = Idle
  /\ confirmed' = confirmed \cup {o}
  /\ call' = [call EXCEPT ![c] =
       [Idle EXCEPT !.step = "adding", !.picks = {o}, !.held = HeldOut(o)]]
  /\ UNCHANGED <<reviewVars, run, latest, worker, wanted, excused, troubles>>
  /\ Asked

AddEnds(c) ==
  /\ call[c].step = "adding"
  /\ \E o \in call[c].picks :
       \/ Route(o, call[c].held) /\ wanted' = wanted \ {o} /\ UNCHANGED troubles
       \/ Trouble /\ UNCHANGED <<review, wanted>>
  /\ call' = [call EXCEPT ![c] = Idle]
  /\ UNCHANGED <<confirmed, deciding, crossed, run, latest, worker, excused, asks>>

Decides(c) ==
  /\ \/ Asked /\ \E o \in Doubtful : ReviewBegins(c, o)
     \/ ReviewEnds(c) /\ UNCHANGED asks
  /\ UNCHANGED <<confirmed, run, latest, worker, call, wanted, excused, troubles>>

Dismisses ==
  /\ \E o \in Doubtful : ReviewDismisses(o)
  /\ UNCHANGED <<confirmed, run, latest, worker, call, wanted, excused, troubles, asks>>

-----------------------------------------------------------------------------
(* The worker thread *)

\* The next Oracle of the stage.  A latecomer that is not confirmed any more is
\* passed over; one of the original picks is pulled as it was picked.
Visit(s) ==
  /\ Working(s) /\ worker[s].at = None
  /\ \E o \in worker[s].left :
       IF worker[s].stage = "late" /\ o \notin confirmed
       THEN /\ worker' = [worker EXCEPT ![s].left = @ \ {o}]
            /\ excused' = [excused EXCEPT ![s] = @ \cup {o}]
       ELSE /\ worker' = [worker EXCEPT ![s].left = @ \ {o}, ![s].at = o, ![s].held = HeldOut(o)]
            /\ UNCHANGED excused
  /\ UNCHANGED <<confirmed, reviewVars, run, latest, call, wanted, troubles, asks>>

\* The first visit of an Oracle discovers and routes its sources; the visit
\* that follows a shallow one deepens X alone.
Discovers(s) == ~(worker[s].stage = "deep" /\ worker[s].broad)

\* finish_oracle.  A mark that cannot be written loses the report of a pick and
\* not the pull ("recording must never be able to sink a pull").
Marks(s, o) ==
  \/ run' = [run EXCEPT ![s].done = @ \cup {o}] /\ UNCHANGED <<excused, troubles>>
  \/ excused' = [excused EXCEPT ![s] = @ \cup {o}] /\ Trouble /\ UNCHANGED run

VisitEnds(s) ==
  LET o == worker[s].at
  IN /\ o /= None
     /\ IF Discovers(s) THEN Route(o, worker[s].held) ELSE UNCHANGED review
     /\ worker' = [worker EXCEPT ![s].at = None, ![s].held = FALSE]
     /\ IF worker[s].stage = "breadth" THEN UNCHANGED <<run, wanted, excused, troubles>>
        ELSE /\ wanted' = wanted \ {o}
             /\ Marks(s, o)
     /\ UNCHANGED <<confirmed, deciding, crossed, latest, call, asks>>

\* One latecomer never sinks the run; any other exception ends the thread, and
\* the run is left unfinished.
VisitFails(s) ==
  /\ worker[s].at /= None /\ Trouble
  /\ IF worker[s].stage = "late"
     THEN /\ worker' = [worker EXCEPT ![s].at = None, ![s].held = FALSE]
          /\ excused' = [excused EXCEPT ![s] = @ \cup {worker[s].at}]
     ELSE worker' = [worker EXCEPT ![s] = Gone] /\ UNCHANGED excused
  /\ UNCHANGED <<confirmed, reviewVars, run, latest, call, wanted, asks>>

\* Nobody is left of the stage.
StageOver(s) ==
  /\ worker[s].stage \in {"breadth", "deep", "late"}
  /\ worker[s].at = None /\ worker[s].left = {}

\* Whom a look at the roster finds.
Late(s) == run[s].roster \ (run[s].done \cup worker[s].walked)

\* A slip: the run ends with the picks it was opened over.
StageEnds_AsPicked(s) ==
  /\ StageOver(s)
  /\ worker' = [worker EXCEPT ![s] =
       IF worker[s].stage = "breadth"
       THEN [worker[s] EXCEPT !.stage = "deep", !.left = worker[s].walked]
       ELSE [worker[s] EXCEPT !.stage = "closing"]]
  /\ UNCHANGED <<confirmed, reviewVars, run, latest, call, wanted, excused, troubles, asks>>

\* Breadth is followed by depth, depth by looks at the roster for whoever
\* joined.  A look that finds nobody is the last, and so is the one after which
\* _finish_late_arrivals has had its rounds.
StageEnds(s) ==
  /\ StageOver(s)
  /\ worker' = [worker EXCEPT ![s] =
       IF worker[s].stage = "breadth"
       THEN [worker[s] EXCEPT !.stage = "deep", !.left = worker[s].walked]
       ELSE IF worker[s].looks = 0 \/ Late(s) = {}
       THEN [worker[s] EXCEPT !.stage = "closing"]
       ELSE [worker[s] EXCEPT !.stage = "late", !.left = Late(s), !.walked = @ \cup Late(s),
                              !.looks = @ - 1]]
  /\ UNCHANGED <<confirmed, reviewVars, run, latest, call, wanted, excused, troubles, asks>>

\* The roster of the run, or that of the Oracles, cannot be read: no reason to
\* stop the pull, and the run goes on to close.
LookFails(s) ==
  /\ StageOver(s) /\ worker[s].stage /= "breadth" /\ worker[s].looks > 0
  /\ Trouble
  /\ worker' = [worker EXCEPT ![s].stage = "closing"]
  /\ excused' = [excused EXCEPT ![s] = @ \cup Late(s)]
  /\ UNCHANGED <<confirmed, reviewVars, run, latest, call, wanted, asks>>

\* close_run; what was cut short is handed to the background pass.
Closes(s) ==
  /\ worker[s].stage = "closing"
  /\ run' = [run EXCEPT ![s].finished = TRUE]
  /\ worker' = [worker EXCEPT ![s] = Gone]
  /\ UNCHANGED <<confirmed, reviewVars, latest, call, wanted, excused, troubles, asks>>

Dies(s) ==
  /\ Working(s) /\ Trouble
  /\ worker' = [worker EXCEPT ![s] = Gone]
  /\ UNCHANGED <<confirmed, reviewVars, run, latest, call, wanted, excused, asks>>

\* The heartbeat is older than LEASE_TTL: of a worker that is gone, or one
\* whose beats could not be written or whose machine slept.
Lapses(s) ==
  /\ run[s].fresh /\ run' = [run EXCEPT ![s].fresh = FALSE]
  /\ IF Working(s) THEN Trouble ELSE UNCHANGED troubles
  /\ UNCHANGED <<confirmed, reviewVars, latest, worker, call, wanted, excused, asks>>

Beats(s) ==
  /\ Working(s) /\ ~run[s].fresh /\ run' = [run EXCEPT ![s].fresh = TRUE]
  /\ UNCHANGED <<confirmed, reviewVars, latest, worker, call, wanted, excused, troubles, asks>>

WorkerStep(s) == Visit(s) \/ VisitEnds(s) \/ StageEnds(s) \/ Closes(s)
CallStep(c) == Opens(c) \/ Joins(c) \/ AddEnds(c)

Next ==
  \/ \E o \in Oracles : Confirm(o) \/ Forget(o)
  \/ \E c \in Calls :
       \/ \E picks \in SUBSET Oracles : Ingest(c, picks)
       \/ \E o \in Oracles : AddBegins(c, o)
       \/ CallStep(c) \/ Decides(c)
  \/ Progress \/ Dismisses
  \/ \E s \in Slots : Notice(s) \/ WorkerStep(s) \/ VisitFails(s) \/ LookFails(s) \/ Dies(s) \/ Lapses(s) \/ Beats(s)

\* Calls end, workers walk, hearts beat and lapse, what is over is told, and
\* whoever is told that something is missing asks again.
Fairness ==
  /\ \A c \in Calls : WF_vars(CallStep(c)) /\ WF_vars(ReviewEnds(c) /\ Decides(c)) /\ SF_vars(Again(wanted) /\ Ingest(c, wanted))
  /\ \A s \in Slots : WF_vars(WorkerStep(s)) /\ WF_vars(Lapses(s) /\ ~Working(s)) /\ WF_vars(Notice(s))
  /\ WF_vars(Progress)

SafeSpec == Init /\ [][Next]_vars
Spec == SafeSpec /\ Fairness

-----------------------------------------------------------------------------
\* A run that calls itself finished has finished everyone on its roster,
\* latecomers included, but for those it was told of after its last look (which is
\* its eighth at the latest), lost to an exception of their own, could not record,
\* could not look for, or that were forgotten before their turn.
RosterFinished ==
  \A s \in Slots : run[s].finished => run[s].roster \subseteq run[s].done \cup excused[s]

\* Whoever is asked for is pulled in the end, or forgotten: across joins that
\* come too late, runs that break off, processes that die and rosters that
\* change, a run that no longer moves never keeps the next one from starting.
AskedPulled == \A o \in Oracles : o \in wanted ~> o \notin wanted
=============================================================================
