------------------------------ MODULE ProposerMC ------------------------------
(* A small instance of Proposer for TLC. *)
EXTENDS Proposer

\* The first two accounts are one person's.
MCSame == <<1, 1, 3>>

\* The rail meets the hand, or the thread of onboarding.
Cast(able, bad, changes, most) ==
  [able |-> able, upsets |-> bad, edits |-> changes, walks |-> most]
MCCasts ==
  {Cast({"rail", "hand"}, 1, 0, 3), Cast({"rail", "hand"}, 1, 1, 2),
   Cast({"rail", "thread"}, 1, 1, 3), Cast({"rail", "thread"}, 2, 0, 3)}

User(start, wants, word, resident, bad, more) ==
  [start |-> start, wants |-> wants, word |-> word, resident |-> resident,
   mishaps |-> bad, asks |-> more]

\* One who wants everything, two whose host has a worker and who have bad luck, one
\* who wants an import and thinks again, and one who wants nothing.
MCUsers ==
  {User("openrouter", {"x", "substack"}, "both", FALSE, 0, 0),
   User("openrouter", {"substack"}, "both", TRUE, 2, 0),
   User("openrouter", {"x"}, "backlog", FALSE, 0, 1),
   User("openrouter", {"x"}, "both", TRUE, 1, 0),
   User("trial", {}, "none", FALSE, 1, 1)}

MCOne == {User("openrouter", {"x", "substack"}, "both", TRUE, 0, 0)}
=============================================================================
