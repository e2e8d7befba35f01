-------------------------------- MODULE Library --------------------------------
(***************************************************************************)
(* All that writes, promotes and forgets one item of the knowledge base:   *)
(* the passes over what was saved, the single mints, the admission rail and *)
(* forget, over one store of atoms.                                        *)
(***************************************************************************)
EXTENDS SavedPass, Minting

CONSTANT Casts  \* what the item is and who deals with it: [kind, who]

ASSUME LibraryAssumption ==
  /\ Writers = Passes \cup Minters \cup Forgetters
  /\ \A c \in Casts : c.who \subseteq Writers

vars == <<atomVars, passVars, cand>>

Init ==
  /\ \E c \in Casts : kind = c.kind /\ who = c.who
  /\ row = NoRow /\ index = "none" /\ file = "none"
  /\ hand = [w \in Writers |-> Idle]
  /\ was = Clean /\ troubles = 0 /\ asks = 0
  /\ ledger = FALSE /\ lease = NoHolder
  /\ cand = [i \in CandidateIds |-> NoCandidate]

\* A candidate of the item waits for the admission rail.
Queued == \E i \in CandidateIds : cand[i].status = "new"

Forgets(f) ==
  /\ ForgetUnlinks(f) \/ ForgetCommits(f, Queued \/ Listed) \/ (f \in Forgetters /\ Death(f))
  /\ UNCHANGED <<passVars, cand>>

Next ==
  \/ \E s \in Passes : PassStep(s) /\ UNCHANGED cand
  \/ \E w \in Minters : MintStep(w) /\ UNCHANGED passVars
  \/ \E f \in Forgetters : Forgets(f)
  \/ Requeues /\ UNCHANGED passVars
  \/ \E i \in CandidateIds : Stages(i) /\ UNCHANGED passVars

\* A pass, a call and the admission rail go on unless their process dies, the rail of
\* what the user saved comes round again, and a forget that has begun ends.
Fairness ==
  /\ \A s \in Passes : WF_vars(Advances(s) /\ UNCHANGED cand)
  /\ \A s \in Rails : WF_vars(RailBegins(s) /\ UNCHANGED cand)
  /\ \A s \in Savers \ ByHand : WF_vars(SaverBegins(s) /\ UNCHANGED cand)
  /\ \A w \in Minters : WF_vars(Proceeds(w) /\ UNCHANGED passVars)
  /\ \A f \in Forgetters : WF_vars(Forgets(f) /\ At(f, "unlinked"))

Spec == Init /\ [][Next]_vars /\ Fairness
SafeSpec == Init /\ [][Next]_vars

-----------------------------------------------------------------------------
(* Properties *)

\* What is found is what is stored: between the two commits of whoever writes it, and
\* after a death or another's commit in between (torn), chunks and row may differ; at
\* any other time the chunks are those of the row, and none of an atom that is gone.
Searchable == (\A w \in Writers : ~At(w, "rowed")) /\ ~was.torn => index = row.text

\* What a person saved does not become a find of the machine's, whatever refreshes or
\* admits it later; only who had it in hand as such already may overwrite (overtaken).
Attested == was.vouched /\ row.in /\ ~was.overtaken => row.mode \in HumanAttested

\* An artifact that was forgotten when no candidate of it was due and nobody had it in
\* hand stays out until somebody asks for it again, or a search finds it under an id that
\* had no row: "that candidate will not be admitted again automatically", which is said
\* of the candidate and not of the artifact (Stages).
StaysForgotten == was.barred => ~row.in

\* What the user saved gets into the store, and comes back if it is forgotten.  A
\* bookmark ends up with its thread or recorded as looked up: reads that are refused are
\* made again.  A post saved on Substack does not stay without the body that was refused
\* ("the only atoms allowed past the seen skip").
SavedArrives ==
  <>[](/\ Bookmarked => row.in /\ (row.text = "full" \/ ledger)
       /\ kind = "essay" => row.in /\ row.text /= "stub")

=============================================================================
