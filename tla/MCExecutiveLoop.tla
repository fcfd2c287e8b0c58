-------------------------- MODULE MCExecutiveLoop --------------------------
(* Instances of ExecutiveLoop for TLC.                                     *)
EXTENDS ExecutiveLoop, TLC

\* No advice, any single call, or any two different calls.
MCAdvices ==
  {<<>>} \cup {<<c>> : c \in Calls} \cup {p \in Calls \X Calls : p[1] # p[2]}

AllConfigs == ConfigSpace

\* Calls are interchangeable, and so are the worlds that are alike for the goal.
Alike == Permutations(Calls) \cup Permutations(Worlds \ Goal)

=============================================================================
