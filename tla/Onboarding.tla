------------------------------ MODULE Onboarding ------------------------------
(***************************************************************************)
(* Setting up a home (mcp_server/onboard_tools.py): each call of `onboard` *)
(* derives the phase from the disk (pipeline/kb/onboard_state.py), reads   *)
(* connected platforms on a thread, records what the user agrees to in one *)
(* marker per rail, queues the rails and imports what the user saved on    *)
(* other threads of the MCP process; the worker claims the rails meanwhile. *)
(* A rail runs when it is asked for and hourly after that: here, once it   *)
(* has a row, at any time.                                                 *)
(***************************************************************************)
EXTENDS Integers, Sequences, FiniteSets

CONSTANTS
  Platforms,     \* x and substack: those with collectors
  Grandfathered, \* those whose import takes an established store for a yes: x
  Checked,       \* those whose session is tried before anything is read: substack
  Users,         \* those a behaviour may be of, each with bounds on the deaths,
                 \* failures and stale sessions (mishaps) and on the calls nobody
                 \* asked for (asks)
  NoRail

Rails == {"curation"} \cup Platforms

\* What a call may say to the question of consent, or nothing.
Words == {"", "both", "backlog", "refresh", "none"}

ASSUME OnboardingAssumption ==
  /\ Grandfathered \subseteq Platforms /\ Checked \subseteq Platforms
  /\ "curation" \notin Platforms /\ "refresh" \notin Platforms /\ NoRail \notin Rails
  /\ \A u \in Users : /\ u.wants \subseteq Platforms /\ u.word \in Words /\ u.resident \in BOOLEAN
                      /\ u.mishaps \in Nat /\ u.asks \in Nat

VARIABLES
  user,          \* the key they begin with, what they connect, the word they say,
                 \* whether a worker of the host claims the queue (queue_is_shared)
  key,           \* the model provider's: missing, trial, own, over, short, dead
  session,       \* per platform: none, fresh or stale in Opyt's own profile
  opened,        \* platforms whose sign-in window has been opened
  owes,          \* the user was told to call again
  named,         \* a confirmed Oracle, a topic or a candidate is in the store
  atoms,         \* the store holds atoms
  skipped, asked,\* the two markers of onboard_state
  yes,           \* the consent markers of the rails
  read,          \* platforms with a collector whose last walk ended well
  rows,          \* rails that have a row in the queue
  worker,        \* something claims the queue of this home
  job,           \* the rail its child runs
  call,          \* where a call of onboard is, and what it derived
  armA, armB,    \* platforms a thread is to read, and to import from
  curate,        \* the curation pass under the lease: whose, and what is left
  imported,      \* platforms whose saved posts have been imported
  mishaps, asks,
  refused        \* history: rails of this home that found no consent

disk == <<named, atoms, skipped, asked, yes, read, imported>>
loginVars == <<session, opened, owes>>
queueVars == <<rows, worker, job>>
threads == <<armA, armB, curate>>
tallies == <<mishaps, asks, refused>>
homeVars == <<user, key, loginVars, disk, queueVars, call, threads, tallies>>

NoCall == [at |-> "off", pend |-> {}, live |-> {}, word |-> "", todo |-> <<>>, agreed |-> FALSE]
NoPass == [by |-> "nobody", left |-> {}]

\* A home of one of them, or one nobody sets up.
Absent == [start |-> "nothing", wants |-> {}, word |-> "", resident |-> FALSE,
           mishaps |-> 0, asks |-> 0]

HomeInit(on) ==
  /\ user \in IF on THEN Users ELSE {Absent}
  /\ key = "missing"
  /\ session = [p \in Platforms |-> "none"] /\ opened = {} /\ owes = FALSE
  /\ named = FALSE /\ atoms = FALSE /\ skipped = FALSE /\ asked = FALSE
  /\ yes = {} /\ read = {} /\ imported = {}
  /\ rows = {} /\ worker = user.resident /\ job = NoRail
  /\ call = NoCall /\ armA = {} /\ armB = {} /\ curate = NoPass
  /\ mishaps = 0 /\ asks = 0 /\ refused = {}

Mishap == mishaps < user.mishaps /\ mishaps' = mishaps + 1

--------------------------------------------------------------------------------
(* derive *)

Live == {p \in Platforms : session[p] /= "none"}
Fine(p) == session[p] = "fresh"

\* _curation_pending
Pending == Live \ read

Connected == Live /= {} \/ named
KeyOk == key \in {"trial", "own"}

\* A slip, from before the marker: whoever says no to both was never asked.
WasAsked_ByConsent == yes \cap (Platforms \cup {"refresh"}) /= {}
WasAsked == asked

Phase ==
  CASE ~KeyOk -> "keys"
    [] KeyOk /\ ~Connected /\ ~skipped -> "sources"
    [] KeyOk /\ (Connected \/ skipped) /\ ~WasAsked -> "consent"
    [] KeyOk /\ (Connected \/ skipped) /\ WasAsked /\ Pending /= {} -> "curation"
    [] OTHER -> "done"

\* consented() of the rails: an established store speaks for all but the youngest
\* of them.
Consented(r) == r \in yes \/ (r \notin Platforms \ Grandfathered /\ atoms)

--------------------------------------------------------------------------------
(* The keys phase. *)

\* _mint_silently, or onboard(start='trial'); it may turn out not to be had.
TakesTrial ==
  /\ key = "missing" /\ user.start = "trial"
  /\ \/ key' = "trial" /\ UNCHANGED mishaps
     \/ key' = "over" /\ Mishap
  /\ UNCHANGED <<user, loginVars, disk, queueVars, call, threads, asks, refused>>

\* onboard(start='openrouter'), in any phase but for an account without credit,
\* whose approval would mint another key against it.
Approves ==
  /\ \/ key \in {"over", "dead"} \/ (key = "missing" /\ user.start = "openrouter")
  /\ key' = "own"
  /\ UNCHANGED <<user, loginVars, disk, queueVars, call, threads, tallies>>

KeyRunsOut ==
  /\ KeyOk /\ Mishap
  /\ key' \in IF key = "trial" THEN {"over"} ELSE {"short", "dead"}
  /\ UNCHANGED <<user, loginVars, disk, queueVars, call, threads, asks, refused>>

TopsUp ==
  /\ key = "short" /\ key' = "own"
  /\ UNCHANGED <<user, loginVars, disk, queueVars, call, threads, tallies>>

--------------------------------------------------------------------------------
(* A call past the keys. *)

Calling(place) == call.at = place
Called == Calling("off") /\ KeyOk

\* _connect_step: the window is opened and the call ends.
OpensWindow(p) ==
  /\ Called
  /\ opened' = opened \cup {p}
  /\ UNCHANGED <<user, key, session, owes, disk, queueVars, call, threads, mishaps, refused>>

\* onboard(source='skip')
Skip ==
  /\ Called /\ Phase = "sources"
  /\ skipped' = TRUE /\ owes' = TRUE
  /\ UNCHANGED <<user, key, session, opened, named, atoms, asked, yes, read, imported,
                 queueVars, call, threads, tallies>>

\* A session that does not answer stops the call before anything is read.
NotReady == Phase \in {"consent", "curation"} /\ \E p \in Live \cap Checked : ~Fine(p)

\* What the call goes by from here on: `state`, derived once.  A word is taken
\* in every phase, and the consent phase without a word only puts the question.
Derives(word) ==
  /\ Called /\ Phase /= "sources" /\ ~NotReady
  /\ call' = [at |-> "starts", pend |-> Pending, live |-> Live, word |-> word,
              todo |-> <<>>, agreed |-> FALSE]
  /\ owes' = FALSE
  /\ UNCHANGED <<user, key, session, opened, disk, queueVars, threads, mishaps, refused>>

Yes(word) == word \in {"both", "backlog"}
Keep(word) == word \in {"both", "refresh"}

\* The marker of the collectors, the thread that reads what is pending, and the
\* rail behind it; then the word.
Starts ==
  /\ Calling("starts")
  /\ yes' = IF call.live /= {} THEN yes \cup {"curation"} ELSE yes
  /\ armA' = armA \cup call.pend
  /\ rows' = IF call.pend /= {} THEN rows \cup {"curation"} ELSE rows
  /\ call' = [call EXCEPT !.at = IF call.word /= "" THEN "first"
                                 ELSE IF asked THEN "hands" ELSE "off",
                          !.todo = IF Yes(call.word) THEN <<"x", "substack">> ELSE <<>>]
  /\ UNCHANGED <<user, key, loginVars, named, atoms, skipped, asked, read, imported,
                 worker, job, armB, curate, tallies>>

\* A slip: the rail is queued before its marker is on the disk.
GrantsAt_Second == "second"
GrantsAt == "first"

\* _apply_consent, platform by platform: the marker of its rail, then, if it was
\* connected when the call began, the row.
SavesYes ==
  /\ Calling("first") \/ Calling("second")
  /\ call.todo /= <<>>
  /\ IF Calling(GrantsAt)
     THEN /\ yes' = yes \cup {Head(call.todo)} /\ UNCHANGED rows
     ELSE /\ rows' = rows \cup ({Head(call.todo)} \cap call.live)
          /\ UNCHANGED yes
  /\ call' = IF Calling("first") THEN [call EXCEPT !.at = "second"]
             ELSE [call EXCEPT !.at = "first", !.todo = Tail(@)]
  /\ UNCHANGED <<user, key, loginVars, named, atoms, skipped, asked, read, imported,
                 worker, job, threads, tallies>>

\* The toggle of the recurring refresh, the marker that the question was put, and
\* the worker, which comes and goes with the refresh where the host has none; an
\* installation that fails is told and changes nothing.
Concludes ==
  /\ Calling("first") /\ call.todo = <<>>
  /\ yes' = IF Keep(call.word) THEN yes \cup {"refresh"} ELSE yes \ {"refresh"}
  /\ asked' = TRUE
  /\ \/ worker' = (user.resident \/ Keep(call.word)) /\ UNCHANGED mishaps
     \/ ~user.resident /\ Keep(call.word) /\ Mishap /\ UNCHANGED worker
  /\ call' = [call EXCEPT !.at = "hands", !.agreed = Yes(call.word)]
  /\ UNCHANGED <<user, key, loginVars, named, atoms, skipped, read, imported,
                 rows, job, threads, asks, refused>>

\* The imports: of what this call began to read, and of all that is connected when
\* it was this call that was told yes.
Hands ==
  /\ Calling("hands")
  /\ LET from == {p \in call.pend \cup (IF call.agreed THEN Live ELSE {}) : Consented(p)}
     IN /\ rows' = rows \cup from
        /\ armB' = armB \cup from
  /\ call' = NoCall
  /\ UNCHANGED <<user, key, loginVars, disk, worker, job, armA, curate, tallies>>

\* The MCP process ends: its call and its threads with it.
ProcessDies ==
  /\ ~Calling("off") \/ armA /= {} \/ armB /= {} \/ curate.by = "thread"
  /\ Mishap
  /\ call' = NoCall /\ armA' = {} /\ armB' = {}
  /\ curate' = IF curate.by = "thread" THEN NoPass ELSE curate
  /\ owes' = TRUE
  /\ UNCHANGED <<user, key, session, opened, disk, queueVars, asks, refused>>

--------------------------------------------------------------------------------
(* The threads and the rails. *)

\* run_curation_catchup(force, platforms): gone at once when the lease is held.
ArmBegins ==
  /\ armA /= {} /\ armA' = {}
  /\ yes' = yes \cup {"curation"}
  /\ curate' = IF curate.by = "nobody" THEN [by |-> "thread", left |-> armA] ELSE curate
  /\ UNCHANGED <<user, key, loginVars, named, atoms, skipped, asked, read, imported,
                 queueVars, call, armB, tallies>>

\* The collectors of one platform.  One of them ending well is enough, and the row
\* speaks of the last walk: a failed one takes back what an earlier one had earned.
Collects(p) ==
  /\ p \in curate.left
  /\ curate' = [curate EXCEPT !.left = @ \ {p}]
  /\ \/ Fine(p) /\ read' = read \cup {p} /\ named' = TRUE /\ UNCHANGED mishaps
     \/ ~Fine(p) /\ read' = read \ {p} /\ UNCHANGED <<named, mishaps>>
     \/ Fine(p) /\ Mishap /\ read' = read \ {p} /\ UNCHANGED named
  /\ UNCHANGED <<user, key, loginVars, atoms, skipped, asked, yes, imported, queueVars, call,
                 armA, armB, asks, refused>>

PassEnds ==
  /\ curate.by /= "nobody" /\ curate.left = {}
  /\ curate' = NoPass
  /\ job' = IF curate.by = "rail" THEN NoRail ELSE job
  /\ UNCHANGED <<user, key, loginVars, disk, rows, worker, call, armA, armB, tallies>>

\* What a platform's saved posts bring: nothing, when the session is not there or
\* does not answer, when no key embeds them, or the import fails; whatever it
\* raises is swallowed.
Arrives(p) ==
  \/ /\ Fine(p) /\ KeyOk
     /\ imported' = imported \cup {p} /\ atoms' = TRUE /\ UNCHANGED mishaps
  \/ ~(Fine(p) /\ KeyOk) /\ UNCHANGED <<imported, atoms, mishaps>>
  \/ Fine(p) /\ KeyOk /\ Mishap /\ UNCHANGED <<imported, atoms>>

ArmImports(p) ==
  /\ p \in armB /\ armB' = armB \ {p}
  /\ Arrives(p)
  /\ UNCHANGED <<user, key, loginVars, named, skipped, asked, yes, read, queueVars, call,
                 armA, curate, asks, refused>>

Claims(r) ==
  /\ worker /\ job = NoRail /\ r \in rows
  /\ job' = r
  /\ UNCHANGED <<user, key, loginVars, disk, rows, worker, call, threads, tallies>>

\* A rail without its consent ends at once.
Asks(r) == refused' = IF Consented(r) THEN refused ELSE refused \cup {r}

RailImports ==
  /\ job \in Platforms /\ Asks(job)
  /\ IF Consented(job) THEN Arrives(job) ELSE UNCHANGED <<imported, atoms, mishaps>>
  /\ job' = NoRail
  /\ UNCHANGED <<user, key, loginVars, named, skipped, asked, yes, read, rows, worker, call,
                 threads, asks>>

\* The rail walks whatever has a session.  It passes over what was attempted within
\* its floor; of what failed, that is left out, for the floor passes.
RailCurates ==
  /\ job = "curation" /\ curate.by /= "rail" /\ Asks(job)
  /\ IF Consented(job) /\ curate.by = "nobody"
     THEN /\ \E some \in SUBSET read :
               curate' = [by |-> "rail", left |-> Live \ some]
          /\ UNCHANGED job
     ELSE job' = NoRail /\ UNCHANGED curate
  /\ UNCHANGED <<user, key, loginVars, disk, rows, worker, call, armA, armB, mishaps, asks>>

--------------------------------------------------------------------------------
(* The user. *)

SignsIn(p) ==
  /\ p \in opened /\ opened' = opened \ {p}
  /\ session' = [session EXCEPT ![p] = "fresh"] /\ owes' = TRUE
  /\ UNCHANGED <<user, key, disk, queueVars, call, threads, tallies>>

GoesStale(p) ==
  /\ Fine(p) /\ Mishap
  /\ session' = [session EXCEPT ![p] = "stale"]
  /\ UNCHANGED <<user, key, opened, owes, disk, queueVars, call, threads, asks, refused>>

Renews(p) ==
  /\ session[p] = "stale" /\ session' = [session EXCEPT ![p] = "fresh"]
  /\ UNCHANGED <<user, key, opened, owes, disk, queueVars, call, threads, tallies>>

\* Through other tools: an Oracle is confirmed and pulled.
Names ==
  /\ asks < user.asks /\ asks' = asks + 1
  /\ named' = TRUE /\ atoms' = TRUE
  /\ UNCHANGED <<user, key, loginVars, skipped, asked, yes, read, imported, queueVars,
                 call, threads, mishaps, refused>>

\* What the last answer asked for: a source, a word, or another call.
Answers ==
  /\ UNCHANGED asks
  /\ \/ /\ Phase = "sources"
        /\ IF user.wants = {} THEN Skip ELSE \E p \in user.wants \ opened : OpensWindow(p)
     \/ Phase = "consent" /\ Derives(user.word)
     \/ Phase \in {"curation", "done"} /\ (owes \/ Phase = "curation") /\ Derives("")

\* Nobody asked: another source, another word, a look.
AsksMore ==
  /\ asks < user.asks /\ asks' = asks + 1
  /\ \/ \E p \in Platforms \ opened : ~Fine(p) /\ OpensWindow(p)
     \/ \E word \in Words : Derives(word)

CallStep == Starts \/ SavesYes \/ Concludes \/ Hands
PassStep == (\E p \in Platforms : Collects(p)) \/ PassEnds
RailStep == (\E r \in Rails : Claims(r)) \/ RailImports \/ RailCurates

HomeNext ==
  \/ TakesTrial \/ Approves \/ KeyRunsOut \/ TopsUp
  \/ Answers \/ AsksMore \/ CallStep \/ ProcessDies
  \/ ArmBegins \/ PassStep \/ RailStep
  \/ \E p \in Platforms : ArmImports(p) \/ SignsIn(p) \/ GoesStale(p) \/ Renews(p)
  \/ Names

\* Calls and threads run on, the worker claims what is due, hours pass, and the
\* user does what the last answer asked for and renews a session that is stale.
HomeFairness ==
  /\ WF_homeVars(TakesTrial \/ Approves) /\ WF_homeVars(TopsUp)
  /\ WF_homeVars(Answers) /\ WF_homeVars(CallStep)
  /\ WF_homeVars(ArmBegins) /\ WF_homeVars(PassStep) /\ WF_homeVars(RailStep)
  /\ \A r \in Rails : SF_homeVars(Claims(r))   \* the oldest due row goes first
  /\ \A p \in Platforms : WF_homeVars(ArmImports(p)) /\ WF_homeVars(SignsIn(p) \/ Renews(p))

--------------------------------------------------------------------------------
(* Setup ends, and stays ended, for a user who connects nothing, for one   *)
(* who says no to everything, for one whose session dies in between and    *)
(* for one whose second platform comes later; whatever is connected then   *)
(* has been read, by a thread or by the rail (onboard_state.py:169-222).   *)
Onboarded == <>[](user = Absent \/ (Phase = "done" /\ Calling("off")))

(* No rail that an answer queued finds its own consent missing: the worker *)
(* may claim a row within a second of its being written, and the marker is *)
(* on the disk before it (onboard_tools.py:1107-1110).                     *)
RailsConsented == refused = {}

(* A yes covers the platform that is connected later: its marker "is what  *)
(* makes connecting it later run the import" (onboard_tools.py:1122-1124). *)
LaterImported ==
  \A p \in Platforms : (p \in yes /\ Fine(p)) ~> (p \in imported \/ ~Fine(p))
=============================================================================
