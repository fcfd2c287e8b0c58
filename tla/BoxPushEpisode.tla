---------------------------- MODULE BoxPushEpisode ----------------------------
(***************************************************************************)
(* An episode of the frozen V1 domain as app/box_push_v1.py composes it:   *)
(* the executive loop over the symbolic track, the recovery proposer and   *)
(* the adapter with its skills and world.  No NL track is attached, and    *)
(* the world may cut the episode off at any primitive step.                *)
(*                                                                         *)
(* Every step is a step of ExecutiveLoop in which the open answers of the  *)
(* collaborators are this domain's, or a step the adapter takes while the  *)
(* loop waits at its gate or before it begins its next cycle.              *)
(***************************************************************************)
EXTENDS BoxPushSymbolic, Bags

CONSTANTS
  Tasks,      \* the sets of boxes a task asks to be delivered
  Configs, ExecBudget, PrimBudget, MaxRejections, Threshold, MaxPrimitives,
  NoWorld, EmptyPlan

ASSUME TasksAssumption == Tasks \subseteq (SUBSET Boxes) \ {{}}

VARIABLES
  task,       \* the boxes to deliver
  config, pc, outcome, snapshot, believed, plan, inapplicable, rejections, acquired,
  chosen,     \* the loop's `call`
  pending, diagnosed, first, before, zero, step, recExec, recPrim, extraExec,
  extraPrim, fails, last, heard, reached, ran, unreported, advised

\* A world key with the task it is judged by.
Worlds ==
  [at : [Agents -> Floor], facing : [Agents -> Directions], box : [Boxes -> Floor],
   delivered : SUBSET Boxes, task : Tasks]

\* Mutant: the key of a world does not tell which way the agents face.
TaskedBlind(s) ==
  [at |-> s.at, facing |-> [a \in Agents |-> LEFT], box |-> s.box,
   delivered |-> s.delivered, task |-> task]

Tasked(s) ==
  [at |-> s.at, facing |-> s.facing, box |-> s.box, delivered |-> s.delivered,
   task |-> task]

\* The loop sees a world when execute_skill returns.
Seen == Tasked(IF phase = "running" THEN pre ELSE Snapshot)

SeenOver == phase # "running" /\ Over

Loop == INSTANCE ExecutiveLoop WITH
  Calls <- Planned, Goal <- {w \in Worlds : w.task \subseteq w.delivered},
  NoCall <- NoCall, NoPlan <- NoHead,
  Advices <- {<<>>} \cup {Recover(c) : c \in Planned},
  world <- Seen, over <- SeenOver, call <- chosen

\* What the loop takes for granted of its constants; no attempt goes beyond the runaway cap.
ASSUME EpisodeAssumption ==
  /\ {NoHead, EmptyPlan} \cap Planned = {} /\ NoWorld \notin Worlds
  /\ Configs \subseteq Loop!ConfigSpace
  /\ {ExecBudget, PrimBudget, MaxRejections, Threshold} \subseteq Nat \ {0}
  /\ MaxPrimitives \in Nat /\ HardCap <= MaxPrimitives

loopVars ==
  <<config, pc, outcome, snapshot, believed, plan, inapplicable, rejections, acquired,
    chosen, pending, diagnosed, first, before, zero, step, recExec, recPrim, extraExec,
    extraPrim, fails, last, heard, reached, ran, unreported, advised>>

episodeVars == <<vars, tracked, task, loopVars>>

EpisodeInit ==
  /\ AttemptInit
  /\ tracked = {} /\ task \in Tasks
  /\ Loop!Init

-----------------------------------------------------------------------------
(* The cycle                                                               *)

OutsideAttempt == UNCHANGED <<vars, tracked, task>>

StartCycle ==
  /\ pc = "sync" /\ OutsideAttempt
  /\ inapplicable' = {c \in Planned : ~Applicable(Believing(Seen), c)}
  /\ Loop!StartCycle

PlannerAnswers ==
  /\ pc = "plan" /\ OutsideAttempt
  /\ plan' = PlanHead(Believing(believed), task)
  /\ Loop!PlannerAnswers

Advise ==
  /\ pc = "select" /\ OutsideAttempt
  /\ \/ pending' = Recover(plan) /\ Loop!RequestRecovery
     \/ Recover(plan) = <<>> /\ Loop!HaltWithoutAdvice

\* What needs no answer of a collaborator.  The loop's other actions are for answers this
\* domain never gives; were one of them needed, the composition would deadlock.
Alone ==
  /\ OutsideAttempt
  /\ \/ Loop!GoalReached \/ Loop!SelectExecute \/ Loop!HaltRepeatedFailure
     \/ Loop!SettleCharged \/ Loop!SettleIdle \/ Loop!LivenessGuard

BeginAttempt ==
  /\ pc = "gate" /\ Loop!Admitted /\ Start(chosen)
  /\ UNCHANGED <<tracked, task, loopVars>>

DuringAttempt == (Round \/ Return) /\ UNCHANGED <<tracked, task, loopVars>>

Successful(answer) == answer.outcome = "success"

\* monitor_execution(), on the belief and the world the call was chosen under.
Discrepant(sym, w, c, answer, post) ==
  Successful(answer) => Mismatch(sym, w, c, post)

AttemptCompletes ==
  /\ phase = "running" /\ pc = "gate"
  /\ Complete /\ result'.fault = "none"
  /\ tracked' = TrackedAfter(chosen, Successful(result'), Changed)
  /\ UNCHANGED task
  /\ diagnosed' = IF Discrepant(Believing(pre), pre, chosen, result', Snapshot)
                  THEN diagnosed \cup {chosen} ELSE diagnosed
  /\ fails' = Loop!FailuresAfter(Successful(result'), {})
  /\ Loop!Completes(prim, Seen')

\* After the end of the world's own episode the adapter refuses every call.
AttemptRefused ==
  /\ pc = "gate" /\ Refuse /\ UNCHANGED <<tracked, task>>
  /\ Loop!RefusesTerminal

EpisodeNext ==
  \/ StartCycle \/ PlannerAnswers \/ Advise \/ Alone
  \/ BeginAttempt \/ DuringAttempt \/ AttemptCompletes \/ AttemptRefused
  \/ pc = "done" /\ UNCHANGED episodeVars

\* One Python thread runs the loop, the skills and the world: weak fairness of the next
\* step, which is possible until the loop is done.
Fairness == []<>(pc = "done") \/ []<><<EpisodeNext>>_episodeVars

EpisodeSpec == EpisodeInit /\ [][EpisodeNext]_episodeVars /\ Fairness

-----------------------------------------------------------------------------
(* Properties                                                              *)

Advised == config.policy = "advisory_two_track"

\* What the task asks for is all light, or nothing of it is.
Easy  == \A b \in task : Light(b)
Heavy == \A b \in task : ~Light(b)

\* How every task ends.  A light box is delivered; with a heavy one as well the agent
\* that was sent to both poses is believed in a pose it has left, which only recovery
\* advice repairs; for a heavy box alone the second agent walks to the pose where the
\* first stands, and no advice is given for a walk.  An episode that is cut off ends too.
TasksDecide ==
  <>( /\ pc = "done"
      /\ IF truncated
         THEN outcome \in IF task \subseteq delivered THEN {"goal_reached"}
                         ELSE {"faulted", "halted_repeated_failure"}
         ELSE outcome = IF Easy \/ (Advised /\ ~Heavy) THEN "goal_reached"
                        ELSE "halted_repeated_failure" )

\* Failures are counted per world, and a walk that fails leaves the agent turned round:
\* it takes twice the threshold to give up on it.  A goal that is reached costs the plan
\* of the first state, the failures, and one walk if there were any.
PriceOfFailure ==
  pc = "done" /\ ~truncated =>
    LET price == IF Easy THEN 0 ELSE IF Heavy THEN 2 * Threshold ELSE Threshold
        repair == IF price = 0 THEN 0 ELSE 1
    IN  /\ BagCardinality(fails) = price
        /\ outcome = "goal_reached" =>
              Loop!Charged =
                PlanLength([delivered |-> {}, posed |-> {}], task) + price + repair

Returns(outcomes) ==
  phase = "running" /\ phase' = "returned" /\ result'.outcome \in outcomes

\* A successful attempt is what the model predicted, on both bases of the monitor: the
\* belief it was chosen under and the exact world, stale poses or not.
NoMismatch ==
  [][Returns({"success"}) => ~Mismatch(Believing(pre), pre, chosen, Snapshot)]_episodeVars

\* Unless it is cut off, a call that the belief deems applicable fails for two reasons
\* only, and moves nothing then: the agent has left the pose it is believed in, or its
\* partner stands in the pose it walks to.
StaleBeliefExplains ==
  [][Returns({"failure", "partial", "timeout"}) /\ ~truncated =>
       LET pose == Behind(pre.box[chosen.box], 1)
       IN  /\ at = pre.at /\ box = pre.box
           /\ \/ chosen.skill = "goto" /\ pre.at[Partner(chosen.agent)] = pose
              \/ chosen.skill = "push" /\ pre.at[chosen.agent] # pose]_episodeVars

=============================================================================
