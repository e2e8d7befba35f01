---------------------------- MODULE OracleRefreshMC ----------------------------
(* A small instance of OracleRefresh for TLC: the rail beside the tool over   *)
(* one X account, and the rail beside the loop over one pair of either kind.  *)
EXTENDS OracleRefresh

MCHolders == {"rail", "loop", "forget"}

MCCasts ==
  LET first == CHOOSE p \in Pairs : TRUE
  IN  {[kind |-> [p \in {first} |-> "x"], active |-> {"rail", "tool"}, saved |-> {},
        start |-> 2, may |-> 1],
       [kind |-> [p \in Pairs |-> IF p = first THEN "x" ELSE "github"],
        active |-> {"rail", "loop"}, saved |-> Pairs \ {first}, start |-> 1, may |-> 1]}
=============================================================================
