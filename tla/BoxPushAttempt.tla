--------------------------- MODULE BoxPushAttempt ---------------------------
(***************************************************************************)
(* One executive attempt: BoxPushV1Adapter.execute_skill                   *)
(* (box_push/env/box_push_v1_adapter.py), which drives the skills of a     *)
(* grounded call over the world, one joint step per round, and interprets  *)
(* what it finds afterwards.                                               *)
(*                                                                         *)
(* A caller may issue any grounded call whenever no attempt runs: the      *)
(* adapter checks identities only, never whether a call makes sense.  The  *)
(* world's own variables are changed by its Step alone.                    *)
(***************************************************************************)
EXTENDS BoxPushSkills

CONSTANT HardCap   \* _HARD_CAP

ASSUME HardCapAssumption ==
  /\ HardCap \in Nat
  /\ \A n \in {GotoBudget, PushBudget, CoopBudget, ExploreBudget} : n + 2 < HardCap

VARIABLES
  phase,    \* "idle", "running" or "returned"
  call,     \* the grounded call of the attempt
  skill,    \* the record of every agent's skill
  pre,      \* the snapshot before the attempt
  prim,     \* env.step() calls of the attempt
  result    \* what execute_skill returned or raised

attemptVars == <<phase, call, skill, pre, prim, result>>

vars == <<worldVars, attemptVars>>

\* The pair of a cooperative push is ordered: its primary agent is Agent0.
Calls ==
  [skill : {"goto", "push"}, agent : Agents, box : Boxes]
    \cup [skill : {"coop"}, agent : {Agent0}, box : Boxes]
    \cup [skill : {"explore", "wait"}, agent : Agents]

NoCall == [skill |-> "none"]

Participants(c) == IF c.skill = "coop" THEN Agents ELSE {c.agent}

Budget(c) ==
  CASE c.skill = "goto" -> GotoBudget
    [] c.skill = "push" -> PushBudget
    [] c.skill = "coop" -> CoopBudget
    [] c.skill = "explore" -> ExploreBudget
    [] c.skill = "wait" -> CoopBudget

Snapshot == [at |-> at, facing |-> facing, box |-> box, delivered |-> delivered]

NoResult == [label |-> "none", outcome |-> "none", class |-> "none", fault |-> "none"]

Outcomes == {"none", "success", "partial", "failure", "timeout"}
Classes  == {"none", "unchanged", "partial_execution", "rejected_before_transition"}
Faults   == {"none", "terminal", "runaway", "substitution"}

AttemptTypeOK ==
  /\ TypeOK
  /\ phase \in {"idle", "running", "returned"}
  /\ call \in Calls \cup {NoCall}
  /\ skill \in [Agents -> Records]
  /\ pre \in [at : [Agents -> Floor], facing : [Agents -> Directions],
              box : [Boxes -> Floor], delivered : SUBSET Boxes]
  /\ prim \in 0 .. HardCap
  /\ result \in [label : Labels, outcome : Outcomes, class : Classes, fault : Faults]

-----------------------------------------------------------------------------
(* The drive loop                                                          *)

\* The cell of the grounded box as it was when the skills were constructed.
GroundedCell == pre.box[call.box]

SkillStep(a) ==
  CASE call.skill = "goto" -> GotoPushPose(skill[a], a, GroundedCell)
    [] call.skill = "push" -> Push(skill[a], a)
    [] call.skill = "coop" -> CooperativePush(skill[a], a, GroundedCell)
    [] call.skill = "explore" -> Explore(skill[a], a)

\* Whoever takes no part, or is done, stays.
Asked(a) == a \in Participants(call) /\ ~skill[a].done

AllDone == \A a \in Participants(call) : skill[a].done

Answers ==
  [a \in Agents |-> IF Asked(a)
                    THEN [SkillStep(a) EXCEPT !.record.calls = @ + 1]
                    ELSE Answer("stay", skill[a])]

-----------------------------------------------------------------------------
(* Interpretation, from the world before and after                         *)

AtPose(a, b) == at[a] = Behind(box[b], 1) /\ facing[a] = PushDir(box[b])

Changed == pre # Snapshot

TimedOut == \E a \in Participants(call) : skill[a].steps >= Budget(call)

FinishedAtOnce == \A a \in Participants(call) : skill[a].done /\ skill[a].calls = 1

Intended ==
  CASE call.skill = "wait" -> TRUE
    [] call.skill = "explore" -> ~TimedOut
    [] call.skill = "goto" -> AtPose(call.agent, call.box)
    [] call.skill \in {"push", "coop"} -> call.box \in delivered \ pre.delivered

Outcome ==
  IF Intended THEN "success"
  ELSE IF TimedOut THEN "timeout"
  ELSE IF Changed THEN "partial" ELSE "failure"

FailureClass ==
  IF Intended THEN "none"
  ELSE IF Changed THEN "partial_execution"
  ELSE IF FinishedAtOnce THEN "rejected_before_transition" ELSE "unchanged"

Moved == {b \in Boxes : box[b] # pre.box[b] \/ b \in delivered \ pre.delivered}

\* Mutant: the identity of what was moved is not verified.
SubstitutedByWalking ==
  /\ call.skill = "goto" /\ skill[call.agent].label = "in_position"
  /\ ~AtPose(call.agent, call.box)

\* _post_flight.
Substituted ==
  \/ call.skill = "coop" /\ Moved # {} /\ call.box \notin Moved
  \/ /\ call.skill = "goto" /\ skill[call.agent].label = "in_position"
     /\ ~AtPose(call.agent, call.box)
     /\ \E b \in Boxes \ (delivered \cup {call.box}) : at[call.agent] = Behind(box[b], 1)

Interpretation ==
  [label |-> skill[call.agent].label, outcome |-> Outcome, class |-> FailureClass,
   fault |-> IF Substituted THEN "substitution" ELSE "none"]

-----------------------------------------------------------------------------
(* The attempt                                                             *)

NoSkills == [a \in Agents |-> Fresh]

AttemptInit ==
  /\ Init
  /\ phase = "idle" /\ call = NoCall /\ prim = 0 /\ result = NoResult
  /\ skill = NoSkills /\ pre = Snapshot

Start(c) ==
  /\ phase = "idle" /\ ~Over
  /\ phase' = "running" /\ call' = c /\ pre' = Snapshot
  /\ skill' = [a \in Agents |-> IF c.skill = "wait" /\ a = c.agent THEN Waited ELSE Fresh]
  /\ UNCHANGED <<worldVars, prim, result>>

\* A skill that finishes in this round still has its last action submitted.
Round ==
  /\ phase = "running" /\ ~AllDone
  /\ \E answers \in {Answers} :
       /\ skill' = [a \in Agents |-> answers[a].record]
       /\ Step([a \in Agents |-> answers[a].action])
  /\ prim' = prim + 1
  /\ IF prim' >= HardCap
     THEN phase' = "returned" /\ result' = [NoResult EXCEPT !.fault = "runaway"]
     ELSE UNCHANGED <<phase, result>>
  /\ UNCHANGED <<call, pre>>

Complete ==
  /\ phase = "running" /\ (AllDone \/ Over)
  /\ phase' = "returned" /\ result' = Interpretation
  /\ UNCHANGED <<worldVars, call, skill, pre, prim>>

\* The caller takes the result; nothing of an attempt survives it.
Forget(answer) ==
  /\ call' = NoCall /\ prim' = 0 /\ skill' = NoSkills /\ pre' = Snapshot
  /\ result' = answer
  /\ UNCHANGED worldVars

Return == phase = "returned" /\ ~Over /\ phase' = "idle" /\ Forget(NoResult)

\* After the end of the episode every further call is refused with a fault.
Refuse ==
  /\ phase = "returned" /\ Over
  /\ phase' = "returned" /\ Forget([NoResult EXCEPT !.fault = "terminal"])

AttemptNext == (\E c \in Calls : Start(c)) \/ Round \/ Complete \/ Return \/ Refuse

AttemptSpec == AttemptInit /\ [][AttemptNext]_vars

-----------------------------------------------------------------------------
(* Properties                                                              *)

\* Every attempt ends within the budget of its skill and the two turns in the pose that
\* are not counted, far from the runaway cap ("unreachable in practice", _HARD_CAP).
WithinBudget ==
  call # NoCall => prim <= Budget(call) + 2 /\ result.fault # "runaway"

\* Unless the episode is cut off, a box that is still to be delivered is delivered in
\* one attempt: a light box pushed from its pose, and a heavy one wherever the partners
\* stand, who choose their slots without negotiation.
PushesDeliver ==
  /\ phase = "returned" /\ ~truncated
  /\ call.skill \in {"push", "coop"} /\ call.box \notin pre.delivered
  /\ IF call.skill = "coop" THEN Required[call.box] >= 2
     ELSE /\ Required[call.box] = 1
          /\ pre.at[call.agent] = Behind(pre.box[call.box], 1)
          /\ pre.facing[call.agent] = PushDir(pre.box[call.box])
  => result.outcome = "success"

\* Nothing but the partner standing in the pose keeps an agent from the pose of a box
\* that is still to be delivered: it finds its way around boxes and a partner under way.
OnlyPartnerBlocksPose ==
  /\ phase = "returned" /\ ~truncated
  /\ call.skill = "goto" /\ call.box \notin delivered /\ result.outcome # "success"
  => at[Partner(call.agent)] = Behind(box[call.box], 1)

\* A cooperative push that moved another box than its own is a fault.
SubstitutedPushIsFault ==
  phase = "returned" /\ result.fault = "none" /\ call.skill = "coop" => Moved \subseteq {call.box}

\* A walk that claims the pose of its box stands in it, or is a fault.
SubstitutedWalkIsFault ==
  phase = "returned" /\ result.fault = "none" =>
    (call.skill = "goto" /\ result.label = "in_position" => result.outcome = "success")

\* An attempt grounded on one box that acted on another is a fault: a cooperative push
\* that moved it, or a walk that claims its pose.
SubstitutionIsFault == SubstitutedPushIsFault /\ SubstitutedWalkIsFault

\* A skill that claims a delivery has made one, although a lone push tells a box from
\* the drawn grid, where the ghosts of delivered boxes look like boxes.
DeliveryIsReal ==
  phase = "returned" /\ result.label = "delivered" => delivered # pre.delivered

=============================================================================
