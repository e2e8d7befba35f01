-------------------------------- MODULE Proposer --------------------------------
(***************************************************************************)
(* From what the user follows to the people Opyt proposes: the walks over  *)
(* the user's own lists (Signals), the samples taken of those they propose *)
(* (Probes), and the setting up that starts both (Onboarding).  A walk and *)
(* a sampling pass are rails of one worker, which runs one at a time, and  *)
(* neither asks anything of the setting up but its markers, so a behaviour *)
(* exercises one of the three.  Samples are taken of a list as it is found.*)
(***************************************************************************)
EXTENDS Probes, Onboarding

CONSTANT Parts   \* those of them a run is about

VARIABLE part    \* the one this behaviour exercises

vars == <<part, walkVars, probeVars, homeVars>>

Init ==
  /\ part \in Parts
  /\ WalkInit(part = "samples")
  /\ part /= "lists" => col = Maintained /\ cast = CHOOSE c \in Casts : c.edits > 0
  /\ ProbeInit(part = "samples")
  /\ HomeInit(part = "onboarding")

Next ==
  \/ part = "lists" /\ WalkNext /\ UNCHANGED <<part, probeVars, homeVars>>
  \/ part = "samples" /\ ProbeNext /\ UNCHANGED <<part, walkVars, homeVars>>
  \/ part = "samples" /\ (\E h \in Candidates : Confirms(h))
     /\ UNCHANGED <<part, probeVars, homeVars>>
  \/ part = "onboarding" /\ HomeNext /\ UNCHANGED <<part, walkVars, probeVars>>

\* What is at rest has nothing that fairness could ask of it.
Spec == Init /\ [][Next]_vars /\ ProbeFairness /\ HomeFairness
=============================================================================
