------------------------------ MODULE TrialLedger ------------------------------
(***************************************************************************)
(* The starter allowance (gateway/trial.py and its two doors in            *)
(* gateway/app.py): the durable ledger, one mint upstream per call, and    *)
(* the one-use codes of the local flow.                                    *)
(*                                                                         *)
(* The gateway is one asyncio process; an action runs between two awaits.  *)
(* OpenRouter is the environment: it makes a key for a request it          *)
(* receives, and the reply, or the request, may be lost or late.  PKCE and *)
(* the loopback check are one bit each: the right verifier or a wrong one. *)
(***************************************************************************)
EXTENDS GatewayValues, Integers, FiniteSets

CONSTANTS
  People,      \* Google subs
  Calls,         \* slots for flows in progress
  DailyCap,      \* OPYT_TRIAL_DAILY_CAP
  MaxMints       \* bound: mints a subject may cause

ASSUME TrialAssumption ==
  /\ DailyCap \in Nat \ {0}
  /\ MaxMints \in Nat
  /\ None \notin People

VARIABLES
  ledger,        \* the ledger file: subject -> its row, hash None or filled
  recent,        \* subjects whose row is less than a day old
  flow,          \* the flows the gateway is serving
  stray,         \* requests to OpenRouter whose caller has given up
  keys,          \* keys OpenRouter has made for a subject
  delivered      \* history: keys handed to the subject's own process

trialVars == <<ledger, recent, flow, stray, keys, delivered>>

\* auth: at Google, the state is in pending_auth.  posted: the slot reserved,
\* the request to OpenRouter sent.  made: OpenRouter has made the key.  code:
\* the key waits in pending_keys.
Flow == [stage : {"none", "auth", "posted", "made", "code"},
         subject : People \cup {None}, door : {"hosted", "local"}]
AsFlow(stage, s, door) == [stage |-> stage, subject |-> s, door |-> door]
NoFlow == AsFlow("none", None, "local")

TrialInit ==
  /\ ledger = [s \in People |-> "absent"]
  /\ recent = {}
  /\ flow = [c \in Calls |-> NoFlow]
  /\ stray = [s \in People |-> 0]
  /\ keys = [s \in People |-> 0]
  /\ delivered = [s \in People |-> 0]

To(c, f) == flow' = [flow EXCEPT ![c] = f]

-----------------------------------------------------------------------------
(* Ledger. *)

\* What reserve refuses with already_claimed and daily_cap.
MayReserve(s) == ledger[s] = "absent" /\ Cardinality(recent) < DailyCap

\* reserve: hold the slot before any money is spent.
Reserve(s) ==
  /\ MayReserve(s)
  /\ keys[s] + stray[s] < MaxMints
  /\ ledger' = [ledger EXCEPT ![s] = "reserved"]
  /\ recent' = recent \cup {s}

\* fill: the key's hash is in the row.
Fill(s) == ledger' = [ledger EXCEPT ![s] = "filled"]

\* release: drop the row, unless it has a hash.
Release(s) ==
  /\ ledger' = [ledger EXCEPT ![s] = IF @ = "reserved" THEN "absent" ELSE @]
  /\ recent' = IF ledger[s] = "reserved" THEN recent \ {s} ELSE recent

-----------------------------------------------------------------------------
(* The two doors. *)

\* hosted_trial: the subject is the one the calling child was spawned for.
HostedTrial(c, s) ==
  /\ flow[c].stage = "none"
  /\ Reserve(s)
  /\ To(c, AsFlow("posted", s, "hosted"))
  /\ UNCHANGED <<stray, keys, delivered>>

\* trial_start: remember the flow under a one-use state.
TrialStart(c) ==
  /\ flow[c].stage = "none"
  /\ To(c, AsFlow("auth", None, "local"))
  /\ UNCHANGED <<ledger, recent, stray, keys, delivered>>

\* trial_google: the state is taken, and the Google sub it brought back mints,
\* or is refused, or the sign-in failed or expired.
TrialGoogle(c) ==
  /\ flow[c].stage = "auth"
  /\ \/ \E s \in People : Reserve(s) /\ To(c, AsFlow("posted", s, "local"))
     \/ To(c, NoFlow) /\ UNCHANGED <<ledger, recent>>
  /\ UNCHANGED <<stray, keys, delivered>>

\* OpenRouter makes the key.
MakeKey(c) ==
  LET s == flow[c].subject IN
  /\ flow[c].stage = "posted"
  /\ keys' = [keys EXCEPT ![s] = @ + 1]
  /\ To(c, AsFlow("made", s, flow[c].door))
  /\ UNCHANGED <<ledger, recent, stray, delivered>>

\* A request nobody waits for any more arrives after all, or never does.
StrayArrives(s) ==
  /\ stray[s] > 0
  /\ stray' = [stray EXCEPT ![s] = @ - 1]
  /\ \/ keys' = [keys EXCEPT ![s] = @ + 1]
     \/ UNCHANGED keys
  /\ UNCHANGED <<ledger, recent, flow, delivered>>

Deliver(s) == delivered' = [delivered EXCEPT ![s] = @ + 1]

\* mint gets its key: fill the row, then the hosted child has it, or the local
\* flow gets a code.
Minted(c) ==
  LET s == flow[c].subject IN
  /\ flow[c].stage = "made"
  /\ Fill(s)
  /\ IF flow[c].door = "hosted"
     THEN To(c, NoFlow) /\ Deliver(s)
     ELSE To(c, AsFlow("code", s, "local")) /\ UNCHANGED delivered
  /\ UNCHANGED <<recent, stray, keys>>

\* mint fails: refused (nothing was made), or a timeout or lost connection that
\* says nothing of what OpenRouter did or will do.  A reply that is no JSON ends
\* it without a release.
MintFails(c) ==
  LET s == flow[c].subject IN
  /\ flow[c].stage \in {"posted", "made"}
  /\ \/ Release(s)
     \/ flow[c].stage = "made" /\ UNCHANGED <<ledger, recent>>
  /\ To(c, NoFlow)
  /\ \/ UNCHANGED stray
     \/ flow[c].stage = "posted" /\ stray' = [stray EXCEPT ![s] = @ + 1]
  /\ UNCHANGED <<keys, delivered>>

\* Slip: the code is read, and stays.
TrialExchange_Peeks(c) ==
  /\ flow[c].stage = "code"
  /\ Deliver(flow[c].subject) \/ UNCHANGED delivered
  /\ UNCHANGED <<ledger, recent, stray, keys, flow>>

\* trial_exchange: the code is taken by being read; the right verifier gets the
\* key, a wrong one or an expired code gets nothing.
TrialExchange(c) ==
  /\ flow[c].stage = "code"
  /\ Deliver(flow[c].subject) \/ UNCHANGED delivered
  /\ To(c, NoFlow)
  /\ UNCHANGED <<ledger, recent, stray, keys>>

\* The gateway restarts: the ledger is all it keeps.
Restart ==
  /\ flow # [c \in Calls |-> NoFlow]
  /\ flow' = [c \in Calls |-> NoFlow]
  /\ stray' = [s \in People |->
       stray[s] + Cardinality({c \in Calls : flow[c].stage = "posted" /\ flow[c].subject = s})]
  /\ UNCHANGED <<ledger, recent, keys, delivered>>

\* A row turns a day old.
DayPasses(s) ==
  /\ s \in recent
  /\ recent' = recent \ {s}
  /\ UNCHANGED <<ledger, flow, stray, keys, delivered>>

TrialNext ==
  \/ \E c \in Calls :
       \/ \E s \in People : HostedTrial(c, s)
       \/ TrialStart(c) \/ TrialGoogle(c) \/ TrialExchange(c)
       \/ MakeKey(c) \/ Minted(c) \/ MintFails(c)
  \/ \E s \in People : StrayArrives(s) \/ DayPasses(s)
  \/ Restart

-----------------------------------------------------------------------------
(* Properties. *)

\* No subject is handed two keys, through either door, whatever fails, is
\* retried or restarts (trial: "one per person across the two").
DeliveredOnce == \A s \in People : delivered[s] <= 1

=============================================================================
