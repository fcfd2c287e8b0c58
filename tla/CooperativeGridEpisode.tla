------------------------ MODULE CooperativeGridEpisode ------------------------
(***************************************************************************)
(* An episode of the cooperative_grid domain: the executive loop composed  *)
(* with this domain's planner, model, recovery advice and environment, as  *)
(* app/assembly.py wires them.                                             *)
(*                                                                         *)
(* Every step is a step of ExecutiveLoop in which the open answers of the  *)
(* collaborators are this domain's, or a step the environment takes inside *)
(* an attempt while the loop waits at its gate.  The domain has no NL      *)
(* track.                                                                  *)
(***************************************************************************)
EXTENDS CooperativeGridModel

CONSTANTS
  Configs, ExecBudget, PrimBudget, MaxRejections, Threshold,  \* as in ExecutiveLoop
  MaxPrimitives, NoWorld, EmptyPlan

VARIABLES
  config, pc, outcome, snapshot, believed, plan, inapplicable, rejections, acquired,
  chosen,     \* the loop's `call`
  pending, diagnosed, first, before, zero, step, recExec, recPrim, extraExec,
  extraPrim, fails, last, heard, reached, ran, unreported, advised

\* world_key(): the world without the episode bookkeeping.
Worlds == [at : [Agents -> Cells], open : BOOLEAN, jammed : BOOLEAN]

Key(s) == [at |-> s.at, open |-> s.open, jammed |-> s.jammed]

Planned == {Candidates[i] : i \in DOMAIN Candidates}

Loop == INSTANCE ExecutiveLoop WITH
  Calls <- Planned, Goal <- {w \in Worlds : Reached(Project(w))},
  NoCall <- NoCall, NoPlan <- NoHead,
  Advices <- {<<>>} \cup {Recover(c) : c \in Planned},
  world <- Key(cached), over <- cached.over, call <- chosen

\* What the loop takes for granted of its constants; max_steps bounds every attempt.
ASSUME EpisodeAssumption ==
  /\ {NoHead, EmptyPlan} \cap Planned = {} /\ NoWorld \notin Worlds
  /\ Configs \subseteq Loop!ConfigSpace
  /\ {ExecBudget, PrimBudget, MaxRejections, Threshold} \subseteq Nat \ {0}
  /\ MaxPrimitives \in Nat /\ \A limit \in StepLimits : limit <= MaxPrimitives

loopVars ==
  <<config, pc, outcome, snapshot, believed, plan, inapplicable, rejections, acquired,
    chosen, pending, diagnosed, first, before, zero, step, recExec, recPrim, extraExec,
    extraPrim, fails, last, heard, reached, ran, unreported, advised>>

episodeVars == <<vars, loopVars>>

EpisodeInit ==
  /\ GridInit
  /\ cached = Read /\ phase = "idle" /\ call = NoCall
  /\ path = <<>> /\ prim = 0 /\ answer = NoAnswer
  /\ Loop!Init

-----------------------------------------------------------------------------
(* The cycle                                                               *)

StartCycle ==
  /\ UNCHANGED vars
  /\ pc = "sync" /\ inapplicable' = {c \in Planned : ~Applicable(Project(cached), c)}
  /\ Loop!StartCycle

PlannerAnswers ==
  /\ UNCHANGED vars
  /\ pc = "plan" /\ plan' = PlanHead(Project(believed))
  /\ Loop!PlannerAnswers

RequestRecovery ==
  /\ UNCHANGED vars
  /\ Loop!RequestRecovery
  /\ pending' = Recover(plan)

\* What needs no answer of a collaborator.  The loop's other actions are for answers this
\* domain never gives: plans it cannot carry on with, advice the gate refuses.  Were one
\* of them needed, the composition would deadlock.
Alone ==
  /\ UNCHANGED vars
  /\ \/ Loop!GoalReached \/ Loop!BudgetStops
     \/ Loop!SelectExecute \/ Loop!HaltRepeatedFailure
     \/ Loop!SettleCharged \/ Loop!SettleIdle \/ Loop!LivenessGuard

BeginAttempt ==
  /\ Loop!Admitted /\ Begin(chosen)
  /\ UNCHANGED loopVars

DuringAttempt ==
  /\ Attempt /\ phase' = "running"
  /\ UNCHANGED loopVars

\* Mutant: the monitor is content.
MonitorSilent == FALSE

\* monitor(): a failure, or a success that differs from the prediction.
Discrepant ==
  answer'.kind = "failure" \/ Project(cached') # Apply(Project(cached), chosen)

AttemptCompletes ==
  /\ Attempt /\ phase' = "idle" /\ answer'.kind # "fault"
  /\ Loop!Completes(answer'.prim, Key(cached'))
  /\ (fails' # fails) = (answer'.kind = "failure")
  /\ diagnosed' = IF Discrepant THEN diagnosed \cup {chosen} ELSE diagnosed

AttemptDies ==
  /\ Attempt /\ phase' = "idle" /\ answer'.kind = "fault"
  /\ Loop!FaultsMidway(answer'.prim, Key(cached'))

\* The environment refuses a call after its terminal state.
AttemptRefused == Refuse /\ Loop!RefusesTerminal

EpisodeNext ==
  \/ StartCycle \/ PlannerAnswers \/ RequestRecovery \/ Alone
  \/ BeginAttempt \/ DuringAttempt \/ AttemptCompletes \/ AttemptDies \/ AttemptRefused
  \/ pc = "done" /\ UNCHANGED episodeVars

\* One Python thread runs the loop and the environment.
EpisodeSpec ==
  EpisodeInit /\ [][EpisodeNext]_episodeVars /\ WF_episodeVars(EpisodeNext)

-----------------------------------------------------------------------------
(* Properties                                                              *)

Advised == config.policy = "advisory_two_track"

\* Unless max_steps cuts it off, an episode reaches the goal: the optimistic plan is
\* enough without a jam, and with the advice also in spite of it; without advice a jam
\* halts it.  An episode that is cut off ends as well, whether or not faults halt it.
JamDecides ==
  <>( /\ pc = "done"
      /\ \/ truncated
         \/ outcome = IF jammedAtStart /\ ~Advised THEN "halted_repeated_failure"
                      ELSE "goal_reached" )

\* A goal is reached in the backend and not only in the kit's cache, at the price of the
\* plan of the first state; a jam adds the pulls up to the threshold and one shake.
PriceOfJam ==
  outcome = "goal_reached" =>
    /\ \A a \in Agents : at[a] \in GoalCells
    /\ Loop!Charged = PlanLength(Project([at |-> StartAt, open |-> FALSE]))
                        + IF jammedAtStart THEN Threshold + 1 ELSE 0

=============================================================================
