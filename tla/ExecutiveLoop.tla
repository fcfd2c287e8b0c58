---------------------------- MODULE ExecutiveLoop ----------------------------
(***************************************************************************)
(* The executive loop of MAAOS: runtime/loop.py together with what it owns *)
(* (runtime/policies.py, runtime/executive_history.py, the fault classes   *)
(* of shared/faults.py and the executor boundary of runtime/executor.py).  *)
(*                                                                         *)
(* One episode runs as a sequence of cycles.  A cycle synchronises the     *)
(* belief with the environment, plans, lets the policy choose, passes the  *)
(* chosen call through two gates, and makes at most one attempt.  Every    *)
(* injected collaborator (planner, domain services, NL track, recovery     *)
(* provider, environment) is a nondeterministic choice over the answers    *)
(* its contract allows, so what holds here holds for every domain package. *)
(*                                                                         *)
(* Worlds stand for world keys: the canonical world without the episode    *)
(* bookkeeping, which is `over` alone.  A trace entry is kept as `last`;   *)
(* of the older ones the loop reads only the sums and the failure counts.  *)
(***************************************************************************)
EXTENDS Integers, Sequences, Bags, BagsExt

CONSTANTS
  Calls,          \* grounded skill calls
  Worlds,         \* world keys of the authoritative state
  Goal,           \* the worlds that satisfy the task
  NoWorld,        \* what the NL track has heard before its first observation
  NoCall,         \* no call is selected
  NoPlan,         \* the planner's NoPlan result
  EmptyPlan,      \* PlanFound with an empty plan
  Configs,        \* the constructions of the loop that are explored
  ExecBudget,     \* executive_step_budget
  PrimBudget,     \* primitive_step_budget
  MaxRejections,  \* max_rejections_per_cycle
  Threshold,      \* repeated_failure_threshold
  MaxPrimitives,  \* the most primitive steps the environment spends on one attempt
  Advices         \* the recovery plans the recovery provider may return

Policies == {"symbolic_primary", "advisory_two_track"}

ConfigSpace ==
  [policy : Policies, halt_on_fault : BOOLEAN, nl_track : BOOLEAN]

ASSUME CallsAssumption == {NoCall, NoPlan, EmptyPlan} \cap Calls = {}
ASSUME WorldsAssumption == Goal \subseteq Worlds /\ NoWorld \notin Worlds
ASSUME ConfigsAssumption == Configs \subseteq ConfigSpace
ASSUME BudgetAssumption ==
  /\ ExecBudget \in Nat \ {0}
  /\ PrimBudget \in Nat \ {0}
  /\ MaxRejections \in Nat \ {0}
  /\ Threshold \in Nat \ {0}
  /\ MaxPrimitives \in Nat
ASSUME AdvicesAssumption == Advices \subseteq Seq(Calls) /\ <<>> \in Advices

VARIABLES
  config,        \* policy, fault handling and attachments of this episode
  pc,            \* where the loop stands in its cycle
  outcome,       \* the EpisodeOutcome, "running", or "raised" when run() raises
  world,         \* the environment's world
  over,          \* the environment's episode is terminated or truncated
  snapshot,      \* the state exported at the start of the cycle
  believed,      \* the state the symbolic track was last synced with
  plan,          \* the head of the current plan, or what stands for no head
  inapplicable,  \* the calls evaluate() refuses under the current belief
  rejections,    \* pre-executor rejections in this cycle
  acquired,      \* the advisory proposal of this cycle has been acquired
  call,          \* the call the policy chose to execute
  pending,       \* the standing recovery advice
  diagnosed,     \* the calls some recorded discrepancy is about
  first,         \* the NL track has not yet observed the initial situation
  before,        \* executive steps charged when the cycle began
  zero,          \* consecutive zero-charge cycles
  step,          \* cycles completed
  recExec, recPrim,      \* the sums of the recorded accounting
  extraExec, extraPrim,  \* charges that no recorded result carries
  fails,         \* repeated-failure counts: a bag of (world key, call)
  last,          \* the newest trace entry
  heard,         \* the world the NL track last observed
  reached,       \* history: attempts that reached the executor
  ran,           \* history: primitive steps the environment really spent
  unreported,    \* history: those of them the environment never reported
  advised        \* history: the calls recovery advice has ever named

cycleVars  == <<plan, inapplicable, rejections, acquired, call>>
envVars    == <<world, over>>
beliefVars == <<snapshot, believed>>
bookVars   == <<before, zero, step>>
historyVars == <<recExec, recPrim, fails, last>>
ghostVars  == <<reached, ran, unreported>>
adviceVars == <<pending, advised>>
nlVars     == <<first, heard>>

\* What only an attempt changes.
fixedVars == <<config, envVars, diagnosed, extraExec, extraPrim, ghostVars>>

vars == <<pc, outcome, fixedVars, beliefVars, cycleVars, adviceVars, nlVars,
          bookVars, historyVars>>

Stages == {"sync", "plan", "select", "gate", "settle", "done"}

Outcomes ==
  {"running", "goal_reached", "halted_no_plan", "halted_repeated_failure",
   "faulted", "budget_exhausted", "raised"}

Decisions == {"none", "execute", "replan", "request_proposal", "halt"}

\* When a fault is detected: before the executor, by the NL observer, or during
\* or after the attempt.  A trace entry refuses "early" beside an execution.
FaultClasses == {"early", "observe", "late"}

Entries == [decision : Decisions, executed : BOOLEAN, faults : SUBSET FaultClasses]

ControlOK == pc \in Stages /\ outcome \in Outcomes

FixedOK ==
  /\ config \in ConfigSpace
  /\ world \in Worlds /\ over \in BOOLEAN
  /\ diagnosed \subseteq Calls
  /\ extraExec \in Nat /\ extraPrim \in Nat
  /\ reached \in Nat /\ ran \in Nat /\ unreported \in Nat

BeliefOK == snapshot \in Worlds /\ believed \in Worlds

CycleOK ==
  /\ plan \in Calls \cup {NoPlan, EmptyPlan}
  /\ inapplicable \subseteq Calls
  /\ rejections \in Nat
  /\ acquired \in BOOLEAN
  /\ call \in Calls \cup {NoCall}

AdviceOK == pending \in Seq(Calls) /\ advised \subseteq Calls

TrackOK == first \in BOOLEAN /\ heard \in Worlds \cup {NoWorld}

BookOK == before \in Nat /\ zero \in Nat /\ step \in Nat

HistoryOK ==
  /\ recExec \in Nat /\ recPrim \in Nat
  /\ IsABag(fails) /\ DOMAIN fails \subseteq Worlds \X Calls
  /\ last \in Entries

TypeOK ==
  /\ ControlOK /\ FixedOK /\ BeliefOK /\ CycleOK
  /\ AdviceOK /\ TrackOK /\ BookOK /\ HistoryOK

-----------------------------------------------------------------------------
(* Accounting and history                                                  *)

Charged     == recExec + extraExec
ChargedPrim == recPrim + extraPrim

\* Mutant: the budget test is off by one.
BudgetExhaustedLate == Charged > ExecBudget \/ ChargedPrim > PrimBudget

BudgetExhausted == Charged >= ExecBudget \/ ChargedPrim >= PrimBudget

Note(decision, faults) ==
  /\ last' = [decision |-> decision, executed |-> FALSE, faults |-> faults]
  /\ UNCHANGED <<recExec, recPrim, fails>>

\* A faultless failure accrues to the count of (pre-attempt world, call).
FailuresAfter(success, faults) ==
  IF success \/ faults # {} THEN fails
  ELSE BagAdd(fails, <<snapshot, call>>)

\* failure_count().
FailureCount(w, c) == IF BagIn(<<w, c>>, fails) THEN fails[<<w, c>>] ELSE 0

NoteExecution(success, n, faults) ==
  /\ last' = [decision |-> "execute", executed |-> TRUE, faults |-> faults]
  /\ recExec' = recExec + 1
  /\ recPrim' = recPrim + n
  /\ fails' = FailuresAfter(success, faults)

\* Mutant: the fault's detail is not parsed, and only the step is charged.
ChargeStepOnly(n) == extraExec' = extraExec + 1 /\ UNCHANGED extraPrim

\* A case-(c) attempt leaves no result: it is charged from the fault's detail.
ChargeCaseC(n) ==
  /\ extraExec' = extraExec + 1
  /\ extraPrim' = extraPrim + n

Finish(o) == pc' = "done" /\ outcome' = o

\* Mutant: the configuration is not consulted.
NeverFaultHalt == pc' = "settle" /\ UNCHANGED outcome

MaybeFaultHalt ==
  IF config.halt_on_fault THEN Finish("faulted")
  ELSE pc' = "settle" /\ UNCHANGED outcome

-----------------------------------------------------------------------------
(* The policies                                                            *)

Standing == pending # <<>>
Enacted  == IF Standing THEN Head(pending) ELSE plan

RouteAt(threshold) ==
  IF Standing THEN "execute"
  ELSE IF plan \in {NoPlan, EmptyPlan} THEN "halt"
  ELSE IF plan \in inapplicable THEN "replan"
  ELSE IF FailureCount(snapshot, plan) >= threshold THEN "escape"
  ELSE "execute"

\* Mutants: the threshold is one too high; it is one too low.
RouteLate  == RouteAt(Threshold + 1)
RouteEager == RouteAt(Threshold - 1)

Route == RouteAt(Threshold)

RequestsProposal == config.policy = "advisory_two_track" /\ Route = "execute"

-----------------------------------------------------------------------------
(* The cycle                                                               *)

Init ==
  /\ config \in Configs
  /\ pc = "sync" /\ outcome = "running"
  /\ world \in Worlds /\ over = FALSE
  /\ snapshot = world /\ believed = world
  /\ plan = NoPlan /\ inapplicable = {} /\ rejections = 0
  /\ acquired = FALSE /\ call = NoCall
  /\ pending = <<>> /\ advised = {} /\ diagnosed = {}
  /\ first = TRUE /\ heard = NoWorld
  /\ before = 0 /\ zero = 0 /\ step = 0
  /\ recExec = 0 /\ recPrim = 0 /\ extraExec = 0 /\ extraPrim = 0
  /\ fails = EmptyBag
  /\ last = [decision |-> "none", executed |-> FALSE, faults |-> {}]
  /\ reached = 0 /\ ran = 0 /\ unreported = 0

\* Mutant: the state is exported but the belief keeps the old one.
SyncExportOnly == snapshot' = world /\ UNCHANGED believed

Sync == snapshot' = world /\ believed' = world

Attached == first /\ config.nl_track

\* export_full_state() raises: nothing in run() catches it.
SyncRaises ==
  /\ pc = "sync"
  /\ Finish("raised")
  /\ UNCHANGED <<fixedVars, cycleVars, beliefVars, bookVars, historyVars,
                 adviceVars, nlVars>>

\* The initial observation fails: the fault replaces the whole cycle.
InitialObserveFails ==
  /\ pc = "sync" /\ Attached
  /\ Sync
  /\ Note("none", {"observe"})
  /\ MaybeFaultHalt
  /\ before' = Charged
  /\ UNCHANGED <<fixedVars, cycleVars, adviceVars, nlVars, zero, step>>

InitialObserve ==
  IF Attached THEN first' = FALSE /\ heard' = world
  ELSE UNCHANGED nlVars

GoalReached ==
  /\ pc = "sync"
  /\ Sync /\ InitialObserve
  /\ world \in Goal
  /\ Finish("goal_reached")
  /\ UNCHANGED <<fixedVars, cycleVars, bookVars, historyVars, adviceVars>>

\* Mutant: the budget is tested before the goal.
BudgetStopsFirst ==
  /\ pc = "sync"
  /\ Sync /\ InitialObserve
  /\ BudgetExhausted
  /\ Finish("budget_exhausted")
  /\ UNCHANGED <<fixedVars, cycleVars, bookVars, historyVars, adviceVars>>

BudgetStops ==
  /\ pc = "sync"
  /\ Sync /\ InitialObserve
  /\ world \notin Goal /\ BudgetExhausted
  /\ Finish("budget_exhausted")
  /\ UNCHANGED <<fixedVars, cycleVars, bookVars, historyVars, adviceVars>>

\* The belief is fixed until the attempt, so evaluate() is one function of the
\* call for the whole cycle: the set of the calls it refuses is chosen here.
StartCycle ==
  /\ pc = "sync"
  /\ Sync /\ InitialObserve
  /\ world \notin Goal /\ ~BudgetExhausted
  /\ \E refused \in SUBSET Calls : inapplicable' = refused
  /\ rejections' = 0 /\ acquired' = FALSE
  /\ before' = Charged
  /\ pc' = "plan"
  /\ UNCHANGED <<fixedVars, historyVars, adviceVars, outcome, plan, call, zero,
                 step>>

PlannerFails ==
  /\ pc = "plan"
  /\ Note("none", {"early"})
  /\ MaybeFaultHalt
  /\ UNCHANGED <<fixedVars, cycleVars, beliefVars, bookVars, adviceVars,
                 nlVars>>

PlannerAnswers ==
  /\ pc = "plan"
  /\ plan' \in Calls \cup {NoPlan, EmptyPlan}
  /\ pc' = "select"
  /\ UNCHANGED <<fixedVars, beliefVars, bookVars, historyVars, adviceVars,
                 nlVars, outcome, inapplicable, rejections, acquired, call>>

\* propose() raises: an NL_TRACK_FAILURE before any decision is made.
ProposalFails ==
  /\ pc = "select" /\ RequestsProposal
  /\ config.nl_track /\ ~acquired
  /\ Note("none", {"early"})
  /\ MaybeFaultHalt
  /\ UNCHANGED <<fixedVars, cycleVars, beliefVars, bookVars, adviceVars,
                 nlVars>>

SelectExecute ==
  /\ pc = "select" /\ Route = "execute"
  /\ acquired' = (acquired \/ RequestsProposal)
  /\ call' = Enacted
  /\ pc' = "gate"
  /\ UNCHANGED <<fixedVars, beliefVars, bookVars, historyVars, adviceVars,
                 nlVars, outcome, plan, inapplicable, rejections>>

HaltNoPlan ==
  /\ pc = "select" /\ Route = "halt"
  /\ Note("halt", {})
  /\ Finish("halted_no_plan")
  /\ UNCHANGED <<fixedVars, cycleVars, beliefVars, bookVars, adviceVars,
                 nlVars>>

HaltRepeatedFailure ==
  /\ pc = "select" /\ Route = "escape"
  /\ config.policy = "symbolic_primary"
  /\ Note("halt", {})
  /\ Finish("halted_repeated_failure")
  /\ UNCHANGED <<fixedVars, cycleVars, beliefVars, bookVars, adviceVars,
                 nlVars>>

\* The provider is consulted about the last discrepancy of the call, if any.
AdviceFor(c) == IF c \in diagnosed THEN Advices ELSE {<<>>}

RequestRecovery ==
  /\ pc = "select" /\ Route = "escape"
  /\ config.policy = "advisory_two_track"
  /\ \E advice \in AdviceFor(plan) \ {<<>>} :
       /\ pending' = advice
       /\ advised' = advised \cup {advice[i] : i \in 1 .. Len(advice)}
  /\ Note("request_proposal", {})
  /\ UNCHANGED <<fixedVars, cycleVars, beliefVars, bookVars, nlVars, pc,
                 outcome>>

HaltWithoutAdvice ==
  /\ pc = "select" /\ Route = "escape"
  /\ config.policy = "advisory_two_track"
  /\ <<>> \in AdviceFor(plan)
  /\ Note("halt", {})
  /\ Finish("halted_repeated_failure")
  /\ UNCHANGED <<fixedVars, cycleVars, beliefVars, bookVars, adviceVars,
                 nlVars>>

\* Mutant: rejections are free and uncounted.
ReplanUncounted ==
  /\ pc = "select" /\ Route = "replan"
  /\ pc' = "plan"
  /\ UNCHANGED <<fixedVars, cycleVars, beliefVars, bookVars, historyVars,
                 adviceVars, nlVars, outcome>>

Replan ==
  /\ pc = "select" /\ Route = "replan"
  /\ rejections < MaxRejections
  /\ rejections' = rejections + 1
  /\ pc' = "plan"
  /\ UNCHANGED <<fixedVars, beliefVars, bookVars, historyVars, adviceVars,
                 nlVars, outcome, plan, inapplicable, acquired, call>>

RejectionGuard ==
  /\ pc = "select" /\ Route = "replan"
  /\ rejections >= MaxRejections
  /\ rejections' = rejections + 1
  /\ Note("none", {"late"})
  /\ MaybeFaultHalt
  /\ UNCHANGED <<fixedVars, beliefVars, bookVars, adviceVars, nlVars, plan,
                 inapplicable, acquired, call>>

\* Both gates drop the standing advice.
GateUngrounded ==
  /\ pc = "gate"
  /\ Note("none", {"early"})
  /\ pending' = <<>>
  /\ MaybeFaultHalt
  /\ UNCHANGED <<fixedVars, cycleVars, beliefVars, bookVars, nlVars, advised>>

GateInapplicable ==
  /\ pc = "gate" /\ call \in inapplicable
  /\ Note("replan", {})
  /\ pending' = <<>>
  /\ pc' = "settle"
  /\ UNCHANGED <<fixedVars, cycleVars, beliefVars, bookVars, nlVars, outcome,
                 advised>>

-----------------------------------------------------------------------------
(* The attempt                                                             *)

Admitted == pc = "gate" /\ call \notin inapplicable

\* The backend spends n primitive steps and lands in w; its episode may end.
Spend(n, w) ==
  /\ ~over
  /\ over' \in BOOLEAN
  /\ world' = w
  /\ reached' = reached + 1
  /\ ran' = ran + n

\* belief.sync(post_state) and record_outcome(); the pre-state stays the snapshot.
SyncPost(w) == believed' = w /\ UNCHANGED snapshot

Observed(w) ==
  /\ heard' = IF config.nl_track THEN w ELSE heard
  /\ UNCHANGED first

\* The monitor reports a discrepancy for every failure of an admitted call and
\* for a success that differs from the prediction.
Completes(n, w) ==
  /\ Admitted /\ Spend(n, w) /\ SyncPost(w) /\ Observed(w)
  /\ \E success, discrepant \in BOOLEAN :
       /\ ~success => discrepant
       /\ NoteExecution(success, n, {})
       /\ diagnosed' = IF discrepant THEN diagnosed \cup {call} ELSE diagnosed
  /\ pending' = IF Standing THEN Tail(pending) ELSE pending
  /\ pc' = "settle"
  /\ UNCHANGED <<cycleVars, bookVars, config, outcome, advised, extraExec,
                 extraPrim, unreported>>

\* The monitor raises ValueError: a fault on the completed attempt.
CompletesMonitorFails(n, w) ==
  /\ Admitted /\ Spend(n, w) /\ SyncPost(w) /\ Observed(w)
  /\ \E success \in BOOLEAN : NoteExecution(success, n, {"late"})
  /\ pending' = IF Standing THEN Tail(pending) ELSE pending
  /\ MaybeFaultHalt
  /\ UNCHANGED <<cycleVars, bookVars, config, diagnosed, advised, extraExec,
                 extraPrim, unreported>>

\* The NL track fails on the post-state: the monitor is skipped, the advice stays.
CompletesObserveFails(n, w) ==
  /\ Admitted /\ config.nl_track /\ Spend(n, w) /\ SyncPost(w)
  /\ \E success \in BOOLEAN : NoteExecution(success, n, {"observe"})
  /\ MaybeFaultHalt
  /\ UNCHANGED <<cycleVars, bookVars, adviceVars, nlVars, config, diagnosed,
                 extraExec, extraPrim, unreported>>

\* Case (a): the environment raises a fault that carries the result.
FaultsWithResult(n, w) ==
  /\ Admitted /\ Spend(n, w) /\ SyncPost(w)
  /\ \E success \in BOOLEAN :
       \/ /\ Observed(w)
          /\ NoteExecution(success, n, {"late"})
       \/ /\ config.nl_track
          /\ UNCHANGED nlVars
          /\ NoteExecution(success, n, {"late", "observe"})
  /\ MaybeFaultHalt
  /\ UNCHANGED <<cycleVars, bookVars, adviceVars, config, diagnosed, extraExec,
                 extraPrim, unreported>>

\* Case (c): the attempt dies half way; its fault names the primitives that ran.
FaultsMidway(n, w) ==
  /\ Admitted /\ Spend(n, w)
  /\ ChargeCaseC(n)
  /\ Note("none", {"late"})
  /\ MaybeFaultHalt
  /\ UNCHANGED <<cycleVars, beliefVars, bookVars, adviceVars, nlVars, config,
                 diagnosed, unreported>>

\* The executor turns a return value outside the contract into a case-(c) fault
\* whose primitive count is the lower bound 0.
ReturnsOffContract(n, w) ==
  /\ Admitted /\ Spend(n, w)
  /\ ChargeCaseC(0)
  /\ unreported' = unreported + n
  /\ Note("none", {"late"})
  /\ MaybeFaultHalt
  /\ UNCHANGED <<cycleVars, beliefVars, bookVars, adviceVars, nlVars, config,
                 diagnosed>>

\* Case (b): an environment whose episode is over refuses before the attempt.
RefusesTerminal ==
  /\ Admitted /\ over
  /\ Note("none", {"late"})
  /\ MaybeFaultHalt
  /\ UNCHANGED <<fixedVars, cycleVars, beliefVars, bookVars, adviceVars,
                 nlVars>>

\* The environment returns MalformedCall or UngroundedCall.
ReturnsRejection ==
  /\ Admitted /\ ~over
  /\ Note("none", {"early"})
  /\ MaybeFaultHalt
  /\ UNCHANGED <<fixedVars, cycleVars, beliefVars, bookVars, adviceVars,
                 nlVars>>

-----------------------------------------------------------------------------
(* Bookkeeping between cycles                                              *)

\* The locals of the finished cycle go out of scope.
LeaveCycle ==
  /\ plan' = NoPlan /\ inapplicable' = {} /\ rejections' = 0
  /\ acquired' = FALSE /\ call' = NoCall

\* Mutant: progress does not clear the count of free cycles.
SettleChargedKeepsCount ==
  /\ pc = "settle" /\ Charged # before
  /\ step' = step + 1
  /\ pc' = "sync"
  /\ LeaveCycle
  /\ UNCHANGED <<fixedVars, beliefVars, historyVars, adviceVars, nlVars,
                 outcome, before, zero>>

SettleCharged ==
  /\ pc = "settle" /\ Charged # before
  /\ zero' = 0
  /\ step' = step + 1
  /\ pc' = "sync"
  /\ LeaveCycle
  /\ UNCHANGED <<fixedVars, beliefVars, historyVars, adviceVars, nlVars,
                 outcome, before>>

SettleIdle ==
  /\ pc = "settle" /\ Charged = before
  /\ zero < MaxRejections
  /\ zero' = zero + 1
  /\ step' = step + 1
  /\ pc' = "sync"
  /\ LeaveCycle
  /\ UNCHANGED <<fixedVars, beliefVars, historyVars, adviceVars, nlVars,
                 outcome, before>>

\* The liveness guard ends the episode whatever the fault configuration says.
LivenessGuard ==
  /\ pc = "settle" /\ Charged = before
  /\ zero >= MaxRejections
  /\ zero' = zero + 1
  /\ step' = step + 1
  /\ Note("none", {"late"})
  /\ Finish("faulted")
  /\ LeaveCycle
  /\ UNCHANGED <<fixedVars, beliefVars, adviceVars, nlVars, before>>

Select ==
  \/ ProposalFails \/ SelectExecute
  \/ HaltNoPlan \/ HaltRepeatedFailure
  \/ RequestRecovery \/ HaltWithoutAdvice
  \/ Replan \/ RejectionGuard

Attempt ==
  \/ \E n \in 0 .. MaxPrimitives, w \in Worlds :
       \/ Completes(n, w) \/ CompletesMonitorFails(n, w)
       \/ CompletesObserveFails(n, w) \/ FaultsWithResult(n, w)
       \/ FaultsMidway(n, w) \/ ReturnsOffContract(n, w)
  \/ RefusesTerminal \/ ReturnsRejection

Terminated == pc = "done" /\ UNCHANGED vars

Next ==
  \/ SyncRaises \/ InitialObserveFails
  \/ GoalReached \/ BudgetStops \/ StartCycle
  \/ PlannerFails \/ PlannerAnswers
  \/ Select
  \/ GateUngrounded \/ GateInapplicable
  \/ Attempt
  \/ SettleCharged \/ SettleIdle \/ LivenessGuard
  \/ Terminated

\* One Python thread runs the loop and every call it makes returns.
Spec == Init /\ [][Next]_vars /\ WF_vars(Next)

-----------------------------------------------------------------------------
(* Properties                                                              *)

\* The loop never charges more executive steps than its budget, and overruns the
\* primitive budget by less than one attempt: budgets are only tested between
\* cycles, so one cycle must never hold two charges (_budget_exhausted).
BudgetHolds ==
  /\ Charged <= ExecBudget
  /\ ChargedPrim < PrimBudget + MaxPrimitives

\* What is charged is what the environment spent, on every path of the
\* three-case fault rule; only an off-contract return hides primitive steps.
ChargedIsSpent ==
  /\ Charged = reached
  /\ ChargedPrim + unreported = ran

\* However the collaborators answer, an episode has a bounded number of cycles:
\* the budget and the liveness guard together bound charged and free cycles.
EpisodeBounded == step <= (ExecBudget + 1) * (MaxRejections + 1)

\* A call fails more than Threshold times in one world only if recovery advice
\* named it: the planner's head alone is never retried past the threshold.
NoUnadvisedRepeat ==
  \A w \in Worlds, c \in Calls :
    FailureCount(w, c) > Threshold => config.policy = "advisory_two_track" /\ c \in advised

\* One attempt never escalates through both channels: the step that raises a
\* repeated-failure count records no fault and no case-(c) charge.
OneChannel ==
  [][fails' # fails => last'.faults = {} /\ extraExec' = extraExec]_vars

\* The reported outcome is true of the authoritative world and of the record: the
\* goal wins the tie with the budget, a FAULTED episode carries its fault, and a
\* repeated failure happened in this very world and left its discrepancy.
OutcomeJustified ==
  /\ outcome = "goal_reached" => world \in Goal
  /\ outcome = "budget_exhausted" => world \notin Goal /\ BudgetExhausted
  /\ outcome = "faulted" => last.faults # {}
  /\ outcome = "halted_repeated_failure" =>
        FailureCount(world, plan) >= Threshold /\ plan \in diagnosed

\* Planning, selection and both gates work on the present world, also in the
\* cycle after an attempt that died half way.
FreshBelief == pc \in {"plan", "select", "gate"} => believed = world /\ snapshot = world

\* A cycle that charged nothing left the world alone, which is why the liveness
\* guard may stamp its entry with the last snapshot.
IdleCycleTouchesNothing ==
  pc = "settle" /\ Charged = before => world = snapshot

\* Standing advice exists only under the advisory policy and was earned by a
\* call that failed Threshold times in one world and was diagnosed.
AdviceIsEarned ==
  Standing =>
    /\ config.policy = "advisory_two_track"
    /\ \E w \in Worlds, c \in diagnosed : FailureCount(w, c) >= Threshold

\* With halt_on_infrastructure_fault, nothing follows a fault in the record.
FailClosed ==
  config.halt_on_fault /\ pc # "done" => last.faults = {} /\ extraExec = 0

\* Every episode ends, also in continue mode.
EpisodeEnds == <>(pc = "done")

\* The loop implements the contract of an episode: a charge pays one attempt and
\* clears the run of free cycles already before the bookkeeping at its end.
Contract == INSTANCE BoundedEpisode WITH
  Budget <- ExecBudget, MaxIdle <- MaxRejections,
  paid <- Charged,
  idle <- IF Charged # before THEN 0 ELSE zero,
  ended <- pc = "done"

KeepsContract == Contract!Spec

=============================================================================
