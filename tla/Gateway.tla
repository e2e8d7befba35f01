-------------------------------- MODULE Gateway --------------------------------
(***************************************************************************)
(* The hosted side: the gateway as one process (src/gateway/app.py) with   *)
(* its three parts, which share no state: the pool of children and the     *)
(* proxy to them, the sign-in links of the browser, and the starter        *)
(* allowance; and, beside it, the service of the shared knowledge bases.   *)
(* A behaviour exercises one of them, the others being at rest.            *)
(***************************************************************************)
EXTENDS ChildPool, HostedSignIn, TrialLedger, Sharing

CONSTANT Parts   \* those of them a run is about

VARIABLE part    \* the one this behaviour exercises

vars == <<part, poolVars, signInVars, trialVars, shareVars>>

Init ==
  /\ part \in Parts
  /\ PoolInit /\ SignInInit /\ TrialInit /\ ShareInit

Next ==
  \/ part = "pool" /\ PoolNext /\ UNCHANGED <<part, signInVars, trialVars, shareVars>>
  \/ part = "sign-in" /\ SignInNext /\ UNCHANGED <<part, poolVars, trialVars, shareVars>>
  \/ part = "trial" /\ TrialNext /\ UNCHANGED <<part, poolVars, signInVars, shareVars>>
  \/ part = "sharing" /\ ShareNext /\ UNCHANGED <<part, poolVars, signInVars, trialVars>>

Spec == Init /\ [][Next]_vars /\ PoolFairness /\ SignInFairness /\ ShareFairness
=============================================================================
