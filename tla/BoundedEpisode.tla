--------------------------- MODULE BoundedEpisode ---------------------------
(***************************************************************************)
(* What the executive loop promises of an episode, whatever domain, policy *)
(* and environment it is composed with: attempts are paid from a budget,   *)
(* at most MaxIdle cycles in a row are free, the next free one gives the   *)
(* episode up, nothing is paid after the end, and the end comes            *)
(* (shared/orchestration_config.py, OrchestrationConfig; the liveness      *)
(* guard of runtime/loop.py).                                              *)
(***************************************************************************)
EXTENDS Naturals

CONSTANTS
  Budget,   \* attempts that may be paid
  MaxIdle   \* free cycles in a row that are tolerated

VARIABLES
  paid,     \* attempts paid so far
  idle,     \* free cycles since the last paid attempt
  ended     \* the episode has an outcome

vars == <<paid, idle, ended>>

Init == paid = 0 /\ idle = 0 /\ ended = FALSE

\* An attempt may end the episode: a fault can halt it at once.
Pay ==
  /\ ~ended
  /\ paid < Budget
  /\ paid' = paid + 1
  /\ idle' = 0
  /\ ended' \in BOOLEAN

PassFree ==
  /\ ~ended
  /\ idle < MaxIdle
  /\ idle' = idle + 1
  /\ UNCHANGED <<paid, ended>>

GiveUp ==
  /\ ~ended
  /\ idle = MaxIdle
  /\ idle' = idle + 1
  /\ ended' = TRUE
  /\ UNCHANGED paid

End ==
  /\ ~ended
  /\ ended' = TRUE
  /\ UNCHANGED <<paid, idle>>

Next == Pay \/ PassFree \/ GiveUp \/ End

Safe == Init /\ [][Next]_vars

Spec == Safe /\ WF_vars(Next)

=============================================================================
