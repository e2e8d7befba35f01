------------------------------- MODULE LibraryMC -------------------------------
(* Small instances of Library for TLC: one item, and the writers that may meet *)
(* over it.                                                                  *)
EXTENDS Library

MCHuman == {"rail", "other rail", "enrichment", "import", "hopper", "oracle", "saver", "pull"}
MCCasts ==
  [kind : {"thread", "plain"}, who : {{"rail", "enrichment", "forget"}, {"rail", "import", "hopper"}}]
  \cup [kind : {"thread"}, who : {{"rail", "other rail", "forget"}}]
  \cup [kind : {"essay"}, who : {{"saver", "pull", "forget"}, {"saver", "oracle", "hopper"}}]
  \cup [kind : {"article"}, who : {{"hopper", "forget"}}]
  \cup [kind : {"pictured"}, who : {{"rail", "import", "forget"}}]
  \cup [kind : {"paper"}, who : {{"admission", "hopper", "open"}, {"admission", "open", "forget"}}]
  \cup [kind : {"paper", "repo"}, who : {{"admission", "hopper", "forget"}}]
  \cup [kind : {"repo"}, who : {{"admission", "oracle", "forget"}}]
=============================================================================
