------------------------------ MODULE HostedSignIn ------------------------------
(***************************************************************************)
(* A hosted user's browser sign-in, over two processes: the gateway, which *)
(* owns the public capabilities (gateway/children.py, gateway/app.py), and *)
(* the user's child, which owns the sign-in desktop and the home's one     *)
(* Chrome profile (pipeline/ingestion/hosted_browser.py).                  *)
(*                                                                         *)
(* A nonce is one sign-in.  Its capabilities are the link, then the stream *)
(* and completion capabilities of the page the link became.  Deadlines are *)
(* kept as the time left, so time never ends.  What the desktop draws, its *)
(* size, the relayed stream and the browser restart are left out, and so   *)
(* is which site a sign-in opens: every site supersedes every other.       *)
(***************************************************************************)
EXTENDS GatewayValues, Integers, FiniteSets

CONSTANTS
  Children,      \* the users' children (a restarted child keeps its name)
  Nonces,        \* sign-ins the model may mint
  TTL,           \* login_ttl_seconds, both _LOGIN_*_TTL_SECONDS: ten minutes
  MaxSignins,    \* OPYT_GATEWAY_MAX_SIGNINS
  Other          \* whoever else holds a profile (a pull, a rail)

ASSUME SignInAssumption ==
  /\ TTL \in Nat \ {0}
  /\ MaxSignins \in Nat \ {0}
  /\ None \notin Children \cup Nonces
  /\ Other \notin Nonces

VARIABLES
  childOf,       \* the child that minted a nonce
  gate,          \* what the gateway's tables hold for a nonce
  gateLeft,      \* time until that capability expires
  manager,       \* where the childOf's HostedLoginManager is with a nonce
  linkLeft,      \* time until the child refuses to start it
  deskLeft,      \* time until its desktop's timer fires
  active,        \* HostedLoginManager._active_nonce
  profile,       \* holder of the home's _profile_lock
  registering,   \* begin_login calls whose registration is under way
  starting,      \* /start calls on their way to the child
  completing,    \* /complete calls on their way, or waiting in the child
  handed,        \* history: nonces whose link begin_login returned
  newest         \* history: the nonce a child minted last

gateVars == <<gate, gateLeft>>
managerVars == <<manager, linkLeft, deskLeft, active, profile>>
callVars == <<registering, starting, completing>>
history == <<handed, newest>>
signInVars == <<childOf, gateVars, managerVars, callVars, history>>

\* link: unredeemed.  page: stream and completion capability.  spent: only the
\* stream capability is left.
GateState == {"none", "link", "page", "spent", "gone"}
\* pending: in _pending.  waiting: start() wants the profile.  booting: it has
\* it.  open: the desktop is up.  stuck: it failed on its way up and holds the
\* profile until the child ends.
ManagerState == {"none", "pending", "waiting", "booting", "open", "closed", "stuck"}

SignInInit ==
  /\ childOf = [n \in Nonces |-> None]
  /\ gate = [n \in Nonces |-> "none"]
  /\ manager = [n \in Nonces |-> "none"]
  /\ gateLeft = [n \in Nonces |-> 0]
  /\ linkLeft = [n \in Nonces |-> 0]
  /\ deskLeft = [n \in Nonces |-> 0]
  /\ active = [c \in Children |-> None]
  /\ profile = [c \in Children |-> None]
  /\ registering = {}
  /\ starting = {}
  /\ completing = {}
  /\ handed = {}
  /\ newest = [c \in Children |-> None]

Of(c) == {n \in Nonces : childOf[n] = c}

LiveLinks == {n \in Nonces : gate[n] = "link" /\ gateLeft[n] > 0}
LiveSessions == {n \in Nonces : gate[n] \in {"page", "spent"} /\ gateLeft[n] > 0}

\* What live_signins counts.
LiveCompletions == {n \in Nonces : gate[n] = "page" /\ gateLeft[n] > 0}

-----------------------------------------------------------------------------
(* Minting, in the child: begin_login. *)

\* The profile lock after the desktops of S have closed.
Freed(c, S) == [profile EXCEPT ![c] = IF @ \in S THEN None ELSE @]

\* create: close the running desktop, forget what is pending, mint n.
Create(c, n) ==
  LET closed == {active[c]} \ {None} IN
  /\ childOf[n] = None
  /\ childOf' = [childOf EXCEPT ![n] = c]
  /\ manager' = [m \in Nonces |->
       IF m = n THEN "pending"
       ELSE IF m \in closed \/ (m \in Of(c) /\ manager[m] = "pending") THEN "closed"
       ELSE manager[m]]
  /\ linkLeft' = [linkLeft EXCEPT ![n] = TTL]
  /\ active' = [active EXCEPT ![c] = None]
  /\ profile' = Freed(c, closed)
  /\ newest' = [newest EXCEPT ![c] = n]
  /\ registering' = registering \cup {n}
  /\ UNCHANGED <<gateVars, deskLeft, starting, completing, handed>>

\* begin_login drops its own nonce when the registration fails.
DropPending(n) ==
  manager' = [manager EXCEPT ![n] = IF @ = "pending" THEN "closed" ELSE @]

\* register_interaction: everything else the child has at the gateway is
\* retired.  The reply reaches begin_login, or is lost.
Register(n) ==
  /\ n \in registering
  /\ gate' = [m \in Nonces |->
       IF m = n THEN "link"
       ELSE IF m \in Of(childOf[n]) THEN "gone" ELSE gate[m]]
  /\ gateLeft' = [gateLeft EXCEPT ![n] = TTL]
  /\ registering' = registering \ {n}
  /\ \/ handed' = handed \cup {n} /\ UNCHANGED manager
     \/ DropPending(n) /\ UNCHANGED handed
  /\ UNCHANGED <<childOf, linkLeft, deskLeft, active, profile, starting, completing, newest>>

\* Slip: whatever is pending is dropped.
RegisterFails_DropsAll(n) ==
  /\ n \in registering
  /\ registering' = registering \ {n}
  /\ manager' = [m \in Nonces |->
       IF m \in Of(childOf[n]) /\ manager[m] = "pending" THEN "closed" ELSE manager[m]]
  /\ UNCHANGED <<childOf, gateVars, linkLeft, deskLeft, active, profile, starting,
                 completing, history>>

\* The gateway was not reached, or refused.
RegisterFails(n) ==
  /\ n \in registering
  /\ registering' = registering \ {n}
  /\ DropPending(n)
  /\ UNCHANGED <<childOf, gateVars, linkLeft, deskLeft, active, profile, starting,
                 completing, history>>

-----------------------------------------------------------------------------
(* The gateway's pages. *)

\* login_page: refused at the cap with nothing changed, else the link becomes
\* the page's two capabilities.
LoginPage(n) ==
  /\ n \in LiveLinks
  /\ Cardinality(LiveCompletions) < MaxSignins
  /\ gate' = [gate EXCEPT ![n] = "page"]
  /\ gateLeft' = [gateLeft EXCEPT ![n] = TTL]
  /\ UNCHANGED <<childOf, managerVars, callVars, history>>

\* login_desktop reads the stream capability and calls the childOf's /start.
LoginDesktop(n) ==
  /\ n \in LiveSessions
  /\ starting' = starting \cup {n}
  /\ UNCHANGED <<childOf, gateVars, managerVars, registering, completing, history>>

\* complete_login spends the completion capability and calls /complete.
CompleteLogin(n) ==
  /\ n \in LiveCompletions
  /\ gate' = [gate EXCEPT ![n] = "spent"]
  /\ completing' = completing \cup {n}
  /\ UNCHANGED <<childOf, gateLeft, managerVars, registering, starting, history>>

\* A call does not reach the child, or is answered without effect (a /start of
\* a nonce that is not pending, a /complete of one that is not active).
CallLost(n) ==
  /\ \/ n \in starting /\ starting' = starting \ {n} /\ UNCHANGED completing
     \/ n \in completing /\ completing' = completing \ {n} /\ UNCHANGED starting
  /\ UNCHANGED <<childOf, gateVars, managerVars, registering, history>>

-----------------------------------------------------------------------------
(* The desktop, in the child. *)

\* HostedLoginManager.start pops the pending nonce and stamps the desktop.
Start(n) ==
  /\ n \in starting
  /\ starting' = starting \ {n}
  /\ manager[n] = "pending"
  /\ IF linkLeft[n] > 0
     THEN /\ manager' = [manager EXCEPT ![n] = "waiting"]
          /\ deskLeft' = [deskLeft EXCEPT ![n] = TTL]
     ELSE /\ manager' = [manager EXCEPT ![n] = "closed"]
          /\ UNCHANGED deskLeft
  /\ UNCHANGED <<childOf, gateVars, linkLeft, active, profile, registering, completing, history>>

\* _DesktopLogin.start takes the profile...
TakeProfile(n) ==
  /\ manager[n] = "waiting"
  /\ profile[childOf[n]] = None
  /\ profile' = [profile EXCEPT ![childOf[n]] = n]
  /\ manager' = [manager EXCEPT ![n] = "booting"]
  /\ UNCHANGED <<childOf, gateVars, linkLeft, deskLeft, active, callVars, history>>

\* ... and has its display, browser, VNC server and timer up.
Opens(n) ==
  /\ manager[n] = "booting"
  /\ manager' = [manager EXCEPT ![n] = "open"]
  /\ active' = [active EXCEPT ![childOf[n]] = n]
  /\ UNCHANGED <<childOf, gateVars, linkLeft, deskLeft, profile, callVars, history>>

Close(n) ==
  /\ manager' = [manager EXCEPT ![n] = "closed"]
  /\ profile' = Freed(childOf[n], {n})

\* Slip: an exception on the way up keeps the lock.
StartFails_KeepsProfile(n) ==
  /\ \/ manager[n] = "booting"
     \/ manager[n] = "waiting" /\ profile[childOf[n]] # None
  /\ manager' = [manager EXCEPT ![n] = "closed"]
  /\ UNCHANGED <<childOf, gateVars, linkLeft, deskLeft, active, profile, callVars, history>>

\* The wait for the profile times out, or a process does not come up: start()
\* closes the desktop.
StartFails(n) ==
  /\ \/ manager[n] = "booting"
     \/ manager[n] = "waiting" /\ profile[childOf[n]] # None
  /\ Close(n)
  /\ UNCHANGED <<childOf, gateVars, linkLeft, deskLeft, active, callVars, history>>

\* Between taking the lock and its try, start() closes the shared Chrome, looks
\* for a stray one with ps and reads Chrome's preferences.  A raise there (no
\* process to be had for ps, preferences that are no object) leaves the lock
\* taken by a desktop nothing refers to and no timer will close.
StartBreaks(n) ==
  /\ manager[n] = "booting"
  /\ manager' = [manager EXCEPT ![n] = "stuck"]
  /\ UNCHANGED <<childOf, gateVars, linkLeft, deskLeft, active, profile, callVars, history>>

\* The desktop's own timer.
TimerFires(n) ==
  /\ manager[n] = "open"
  /\ deskLeft[n] = 0
  /\ Close(n)
  /\ UNCHANGED <<childOf, gateVars, linkLeft, deskLeft, active, callVars, history>>

\* complete: the wait for a durable session is over, the desktop closes.
CompleteCloses(n) ==
  /\ n \in completing
  /\ active[childOf[n]] = n
  /\ manager[n] = "open"
  /\ Close(n)
  /\ UNCHANGED <<childOf, gateVars, linkLeft, deskLeft, active, callVars, history>>

\* Slip: whatever is active is cleared.
CompleteReturns_AnyActive(n) ==
  /\ n \in completing
  /\ manager[n] = "closed"
  /\ completing' = completing \ {n}
  /\ active' = [active EXCEPT ![childOf[n]] = None]
  /\ UNCHANGED <<childOf, gateVars, manager, linkLeft, deskLeft, profile, registering,
                 starting, history>>

\* The profile has been validated: complete clears _active if it is still n's.
CompleteReturns(n) ==
  /\ n \in completing
  /\ manager[n] = "closed"
  /\ completing' = completing \ {n}
  /\ active' = [active EXCEPT ![childOf[n]] = IF @ = n THEN None ELSE @]
  /\ UNCHANGED <<childOf, gateVars, manager, linkLeft, deskLeft, profile, registering,
                 starting, history>>

\* A pull or a rail drives the profile for a while.
OtherDrives(c) ==
  /\ \/ profile[c] = None /\ profile' = [profile EXCEPT ![c] = Other]
     \/ profile[c] = Other /\ profile' = [profile EXCEPT ![c] = None]
  /\ UNCHANGED <<childOf, gateVars, manager, linkLeft, deskLeft, active, callVars, history>>

\* The child exits, is reaped or crashes, and its process group with it; every
\* capability that names it is dead from then on.
ChildEnds(c) ==
  /\ gate' = [n \in Nonces |-> IF n \in Of(c) /\ gate[n] # "none" THEN "gone" ELSE gate[n]]
  /\ manager' = [n \in Nonces |-> IF n \in Of(c) THEN "closed" ELSE manager[n]]
  /\ active' = [active EXCEPT ![c] = None]
  /\ profile' = Freed(c, Of(c))
  /\ registering' = registering \ Of(c)
  /\ starting' = starting \ Of(c)
  /\ completing' = completing \ Of(c)
  /\ UNCHANGED <<childOf, gateLeft, linkLeft, deskLeft, history>>

\* The time left of a deadline a tick later.
Before(t) == IF t > 0 THEN t - 1 ELSE 0

Tick ==
  /\ \E n \in Nonces : gateLeft[n] + linkLeft[n] + deskLeft[n] > 0
  /\ gateLeft' = [n \in Nonces |-> Before(gateLeft[n])]
  /\ linkLeft' = [n \in Nonces |-> Before(linkLeft[n])]
  /\ deskLeft' = [n \in Nonces |-> Before(deskLeft[n])]
  /\ UNCHANGED <<childOf, gate, manager, active, profile, callVars, history>>

-----------------------------------------------------------------------------

SignInNext ==
  \/ Tick
  \/ \E c \in Children : OtherDrives(c) \/ ChildEnds(c) \/ \E n \in Nonces : Create(c, n)
  \/ \E n \in Nonces :
       \/ Register(n) \/ RegisterFails(n)
       \/ LoginPage(n) \/ LoginDesktop(n) \/ CompleteLogin(n) \/ CallLost(n)
       \/ Start(n) \/ TakeProfile(n) \/ Opens(n) \/ StartFails(n) \/ StartBreaks(n)
       \/ TimerFires(n) \/ CompleteCloses(n) \/ CompleteReturns(n)

\* Time passes, timer threads run and a desktop comes up or fails.  Nobody is
\* made to complete a sign-in.
SignInFairness ==
  /\ WF_signInVars(Tick)
  /\ \A n \in Nonces :
       /\ WF_signInVars(TimerFires(n))
       /\ WF_signInVars(Opens(n) \/ StartFails(n) \/ StartBreaks(n))

-----------------------------------------------------------------------------
(* Properties. *)

\* The desktop of the newest sign-in can be completed and restarted for as
\* long as it is open, whatever an older sign-in's completion, timer or failed
\* registration does meanwhile.
NewestReachable ==
  \A c \in Children :
    LET n == newest[c] IN
    n # None /\ manager[n] = "open" => active[c] = n

\* A link the user was given, the newest of its child and not yet redeemed, is
\* one the child will start.
HandedLinkPending ==
  \A n \in handed : n \in LiveLinks /\ newest[childOf[n]] = n => manager[n] = "pending"

\* A sign-in gives the home's profile back, whether it is completed, superseded,
\* left alone until its timer or fails on its way up, so pulls and rails get it
\* again.  The one exit that keeps it is StartBreaks, named here: such a home
\* waits until its child ends.  Nothing tells nonces apart, so one is followed.
FollowedLink == CHOOSE n \in Nonces : TRUE
ProfileFreed ==
  \A c \in Children : profile[c] = FollowedLink ~> profile[c] # FollowedLink \/ manager[FollowedLink] = "stuck"
=============================================================================
