# A verification development for MAAOS

MAAOS runs a team of agents through one *executive loop*: synchronise the belief
with an authoritative environment, plan symbolically, let a policy choose one
skill call, pass it through two gates, attempt it once, compare what happened with
what was predicted, and repeat until the goal, a halt, a fault or a budget ends the
episode. An advisory natural-language (NL) track can be attached. Everything the loop
uses is injected, so one loop serves every domain package; BoxPush is the frozen V1
domain, with an authoritative backend of its own. An older team, cooperative search
and transport, has a loop of its own around a language model and a belief reckoned
from actions and rewards.

This directory models that program in TLA+, checks the models with TLC and proves
theorems about them with TLAPS. Paths are relative to `src/`.

## Inventory

| Part | Where | State | Operations | Correct when |
|---|---|---|---|---|
| Executive loop | `runtime/loop.py` | charges outside the record, standing recovery advice, discrepancies, count of free cycles | `run`, `_run_cycle` and their helpers | budgets hold, every episode ends, attempts are charged exactly, planning sees the present world, outcomes are true of the record |
| Policies | `runtime/policies.py` | none | `required_inputs`, `decide` | a call is not repeated beyond the threshold without advice |
| Executive history | `runtime/executive_history.py`, `shared/trace_schema.py` | entries, failure counts | `append`, sums, `failure_count` | one attempt escalates through one channel |
| Executor, faults | `runtime/executor.py`, `shared/faults.py` | none | `execute`, the three-case rule | a fault tells whether an attempt was spent |
| Symbolic track | `symbolic/*`, `domain/box_push_v1.py` | belief | `sync`, `record_outcome`, plan, evaluate, predict, monitor | the belief follows the world; failures of admitted calls are reported |
| NL track | `nl/*` | what it observed, last rejection | `observe`, `propose`, one repair, recovery advice | proposals concern an observed situation; a malformed answer never becomes a call |
| Comparators | `app/comparator.py`, `kit/comparator.py` | none | `compare` | evidence only |
| BoxPush backend | `functional_layer/custom_env/box_push/env/multi_agent_box_push_env.py`, `box_push_env.py` | positions, directions, deliveries, episode flags, drawn grid | `reset`, `step` | pieces never overlap, a heavy box needs both agents, delivery is exact and final, grid and world agree |
| P1 adapter and skills | `.../box_push_v1_adapter.py`, `skill_executor_push.py`, `custom_env/shared_skills.py` | last observation; per skill: phase, counters, expectations | `execute_skill`, `_drive`, the skills' `step` | an attempt ends, its outcome is that of the world, a substituted box is a fault |
| Kit | `kit/*` | cached state, primitives noted | `reset`, `execute_skill`, breadth-first planning | typed faults carry what was spent; the cached state is the backend's |
| Cooperative grid | `domains/cooperative_grid/*`, `functional_layer/custom_env/cooperative_grid` | two agents, a door that may be jammed | the backend's `step`, the environment's hooks, model, planner, recovery | nobody passes a closed door; what the model predicts of a success happens; a jam is noticed and got past |
| Transport world | `functional_layer/custom_env/cooperative_search_transport/multi_agent_env.py` | positions, who carries and who holds what, deliveries | `step` in six phases | agent and package agree about each other, a hold moves as one, deliveries are counted once, the reward tells an agent what its step did |
| Transport belief | `legacy/middleware_layer/belief_updaters/deterministic_grid_updater.py` | one map of both agents; position, load, latches and deliveries each believes | `update_entity` | the map and what is believed are so |
| Transport commander | `.../cooperative_search_transport/cst_centralized.py`, `skill_executor.py` | two running skills | one cycle: ask the model, run both skills | skills end; what they report is so |
| Composition | `app/box_push_v1.py`, `app/assembly.py`, `domains/registry.py` | none at run time | wiring | the parts above meet each other's expectations |
| Package validation | `app/validation.py` | findings, first broken contract, fixtures | 24 checks and the layout of imports | no defect hides another or goes unnoticed; what passes the layout is sealed |
| PDDL text, command line, scaffold | `symbolic/pddl_gen.py`, `maaos/*` | none | text and files | - |
| Legacy runners, other environments | `box_push_centralized.py`, `box_push_per_step.py`, toy rescue, `functional_layer/envs`, the older copy under `cooperative_search_transport/env`, the rest of `legacy/` | - | - | not part of the runtime |

How they interact: everything is a synchronous call in one thread. The loop calls the
environment (`reset`, `export_full_state`, `execute_skill`), the domain services, the
tracks and the recovery provider; every one of them may fail by raising. The adapter
drives the backend's skills, each an explicit step machine that sees the world of
this primitive step, and makes one joint `step` of the backend per round. The
transport commander drives its skills in the same way, but from beliefs. So the
interleavings that matter are those *inside* a joint step (agents are resolved one
after the other on a half-updated world), inside an update of the beliefs (one agent
after the other on one map) and between skills that act at once; the
failures that matter are those in the middle of an attempt, after which what is
charged, believed, observed and advised must still fit together. Nothing is
persisted: there is no crash recovery.

The hazards are listed, each at its line, in `PROJECT.json`.

## Modules

| Module | What it is |
|---|---|
| `ExecutiveLoop` | the loop with the policies, history and fault classes; collaborators are nondeterministic |
| `BoundedEpisode` | what the loop promises of an episode: a budget of paid attempts, bounded free cycles, an end |
| `BoxPushWorld` | one joint step of the BoxPush backend |
| `BoxPushSkills` | the five skills as step machines that see the exact world |
| `BoxPushAttempt` | `execute_skill` of the adapter: skills and world composed, interpretation, faults |
| `BoxPushSymbolic` | the V1 symbolic track: belief, applicability, planner, prediction, monitor, recovery |
| `BoxPushEpisode` | an episode of the V1 domain: loop, symbolic track, adapter and backend composed |
| `CooperativeGridWorld` | one joint step of the grid backend and its routing |
| `CooperativeGrid` | the kit's environment base with this domain's hooks |
| `CooperativeGridModel` | the domain's symbolic model, the kit's planner, the recovery advice |
| `CooperativeGridEpisode` | an episode of this domain under the loop |
| `TransportWorld` | one joint step of the transport world, with its rewards |
| `TransportBelief` | the picture, the views, the belief updater and the shared map |
| `TransportCommander` | the skills and the two loops of the commander |
| `DomainLayout` | which file of a domain package may import what |
| `PackageValidation` | `maaos validate-domain`, check by check |
| `*_proofs` | the theorems about the module of that name |
| `MC*` | instances for TLC |

`BoxPushEpisode` extends `BoxPushSymbolic`, that `BoxPushAttempt`, that `BoxPushSkills`
and that `BoxPushWorld`; `CooperativeGridEpisode` extends `CooperativeGridModel`, then
`CooperativeGrid`, then `CooperativeGridWorld`; `TransportCommander` extends
`TransportBelief`, then `TransportWorld`; `PackageValidation` extends `DomainLayout`. Both
episodes instantiate `ExecutiveLoop`. A proof module extends the module it is about.

### ExecutiveLoop

`pc` says where the loop stands: at the `sync` of a cycle, before a `plan`, at the
policy's `select`, at the `gate`s, or at the bookkeeping (`settle`). One action is
one path through one of these stretches of code, up to the next point where a
collaborator answers. `config` holds what a construction of the loop fixes: policy,
`halt_on_infrastructure_fault`, and whether an NL track is attached. Names are the
code's where it has them: `zero` is `_zero_progress_cycles`, `extraExec` and
`extraPrim` are the case-(c) charges, `pending` is `_pending_recovery`, `recExec` and
`recPrim` are the history's sums, `fails` its failure counts, a bag of pairs of world
key and call (`FailureCount` is `failure_count`).

An attempt has eight outcomes: it completes; it completes and the monitor, or the
observation after it, fails; it completes with a fault that carries the result (case
a); the environment refuses before the attempt (case b); the attempt dies half way
(case c); the environment returns something outside its contract; or it returns a typed
rejection.

What is abstracted:

- worlds are world keys, and `over` is the terminal flag of the environment; domain
  services answer anything their contract allows. `evaluate` is one function of the
  call while the belief does not change, so the set of refused calls is chosen at
  the start of a cycle;
- a trace entry is kept only as `last`, with its decision, whether it carries an
  execution, and the classes of its faults;
- the monitor returns a discrepancy for every failure of an admitted call
  (`symbolic/monitor.py`) and may return one for a success; the recovery provider
  returns any member of `Advices`, the empty advice included;
- comparisons, predictions and proposals have no contents: no frozen policy reads them;
- exceptions of domain services that are not typed faults, and a track that raises a
  *pre-execution* fault from `observe()` after an attempt (which `TraceEntry` refuses),
  escape `run()` and are not modelled; a raise of `env.reset` is the same as
  `SyncRaises` in the first cycle;
- history variables `reached`, `ran`, `unreported` and `advised` record what really
  happened and are read by no guard.

### BoxPushWorld

`Step(joint)` is the whole of `MultiAgentBoxPushEnv.step`: turns, then the tandem push of
a heavy box, then the remaining movers one after the other, then delivery by position,
then termination. The half-updated world the phases hand on is a record
`[at, box, shown]`. `shown` is the part of the drawn grid that can disagree with the
world: the cells that render as a package.

What is abstracted: the V1 cast of two agents, where all boxes are targets; `max_steps`
is not counted, so the episode may be truncated at any step; rewards, observation images,
the agents' markers and the delivery tiles of the drawn grid are left out; callers never
step an episode that is over (`BoxPushV1Adapter._drive` tests the flags before each step);
`reset` is `Init`.

### BoxPushSkills and BoxPushAttempt

A skill is an operator: from the present world and its own record (`BaseSkill`'s counters
and what the concrete skill remembers) it answers an action and the record to keep.
`Round` asks every participant that is not done, all in the same world, and takes one
joint `Step`; `Complete` is what `execute_skill` does after its drive loop: outcome and
failure class from the snapshots before and after, and the post-flight verification. `Start`
takes any grounded call, because the adapter checks identities and nothing else;
`Refuse` is the fault a call gets after the end of an episode. An attempt ends when all skills
are done, when the episode is over, or at the runaway cap. In Python's terms: `seen` is
`_seen_pos` of goto and `_start_targets` of explore, `stale` is `_stale`, `start` and `land`
are what a push expects, `wait` and `best` are `_wait` and `_best_pd`.

The breadth-first search is modelled by its result: `Shore` floods from the goal until a
neighbour of the agent is reached, and of the directions into it the first in
the order of the queue is taken. The entities view is exact (walls, boxes that are not delivered,
the other agent), except the cell in front of a lone push, which comes from the drawn grid.

What is abstracted: `found_decoy` and the frontier search, since every box is a target and
the exact grid has no unknown cell; an explicit destination of a push, since the
adapter passes none; the `authoritative_reason` and the other details of a result, which are
text; backends that return malformed values or raise; names that do not exist, which
are refused without a step. Ties between goal cells go by columns, which is the
order in which `GOAL_ZONE` lists the one column of V1.

Two things the model brought out that no document states:

- `_resolve_box` is given the cell of the grounded box as it was at the start. From the first
  joint move on that cell is empty, and both partners go on with the *nearest* target. The adapter's
  docstring says of the exact grid that the fallback "loses its trigger" (lines 51-52); for
  cooperative pushes the fallback carries all but the first move: without it
  (`ResolveBoxOnly`) no heavy box is delivered.
- Turning in the pose is not counted as a step, so a goto may take two rounds more
  than its budget.

### BoxPushSymbolic and BoxPushEpisode

A symbolic state is the set of delivered boxes and the `in_pose` literals; the other
predicates of the frozen domain never vary. The belief copies the first part from the world
at every synchronisation and keeps the second itself (`tracked`), from outcomes alone
(`TrackedAfter` is `record_outcome`). The planner is given by its result: `Solved` holds the
states that a plan of each length solves, and `PlanHead` is the first call of the plan that a
breadth-first search over the calls in their sorted order (`Grounded`) returns first.
`PredictedWorlds` is `predict_world_candidates`, `Mismatch` the monitor's test on both bases.

In `BoxPushEpisode` every action is one of the loop's with the open answers filled in by this
domain (what `evaluate` refuses, the plan, the advice, what an attempt ends in), or a step of the
adapter while the loop waits at its gate. The loop sees the world when `execute_skill` returns:
until then `Seen` is the world the attempt began in. Actions of the loop that this domain never
needs (no plan, refusal at the gate, a raised fault of a substituted box) are
left out: were one needed, the composition would deadlock, and TLC would say so.

### CooperativeGrid

`CooperativeGridWorld` is the backend with its door, handles and hidden jam. `CooperativeGrid` is
the kit's `EnvironmentBase`: `cached` is `_state`, which only a completed attempt replaces, and
`Fault` is what `execute_skill` makes of an exception in `_attempt`. A walk asks for its way once
(`WayOf`) and follows it blindly. `reset` may be called whenever no attempt runs. A call may name any identity
of the state in any role, as `ground_by_identity` lets it: `DoorName` stands for all that are no agents when it acts, and
for all that are no places when it is walked to. A walk of what is no agent is `NoWalker`: `route()` raises, and the
attempt is a fault without a step.
`CooperativeGridModel` adds the symbolic model, which knows named places and no cell, the planner
and `recover`. The episode composes it all with the loop, for every step limit in `StepLimits`.

Left out: rewards, rendering, the planner's node budget (the domain has 32 symbolic states), faults a
domain raises itself (this one raises none).

### TransportWorld, TransportBelief and TransportCommander

`TransportWorld` is `step` of the transport environment. A situation `p` is what its phases hand on:
turns, walks, picks and drops (one agent after the other in each), the joint carry, the carried
packages, the delivery of a held package, termination. `p.pay` is every agent's reward in hundredths,
which is all it learns of its step.

`TransportBelief` adds the picture (`grid`: the MiniGrid grid kept beside the state), the view each
agent gets of it (`Image`, with MiniGrid's rule for what is lit) and `update_entity`: dead reckoning
(`Reckon`), then the view laid around the believed position (`Sweep`) on a map that both agents share
and are entered into one after the other. `TransportCommander` adds the skills, which read beliefs only
(but for the front cell of goto), and the two nested loops of `main`. The language model answers any pair
of skills. Where a skill walks a hash set, any of the nearest cells may come first.

Left out: the prompt, the description of the situation and the history in it, rendering, the numbers in
the labels of targets, the count of 500 steps (the episode may be truncated at any step).

### DomainLayout and PackageValidation

A package is one shape per component and answer: the ways in which a check can tell it from a sound one
(`Shapes`). Each check is one action; `findings` is the report, `blocked` the first broken contract, `made` the
fixtures later checks work on. `DomainLayout` is `check_layout`: a layout is the set of import statements
by file and kind of target. The wording of messages and the order of the report are left out.

An episode asks the services again in its first cycle, and `FirstCycleFails` says which answers end it: what raises
escapes `run()`, what is faulted ends it FAULTED. The checks of the package directory run outside any guard: a file
that cannot be decoded or parsed, a guard file that cannot be parsed although a door must be looked up in it, or a last
line of the fresh interpreter that is no list, end in the stage `"lost"`, where there is no report.

What is assumed of a package: it answers alike each time it is asked the same (but for the second plan, DK042), and the
budget of the episodes is positive. What only an episode asks for (the task's test, the skills, the monitor, later
plans) is told by how it ends: `primary`, `advisory`, `tracked`. That holds also for what some packages survive:
a state that is unkeyed or unstable, an untyped verdict. A bug that makes several answers wrong is several defects.

## Runs

| Run | Shows | Instance | Distinct states |
|---|---|---|---|
| `loop_budgets` | budgets, exact accounting, fail-closed; every episode ends; `BoundedEpisode` is implemented | 1 call, 2 worlds, budgets 3 and 3, attempts of 0 to 2 primitives, 2 free repetitions, threshold 2, all eight configurations | 888,808 |
| `loop_escalation` | repeated failures, advice, outcomes, freshness | 2 calls, 3 worlds, budget 4, 1 free repetition, threshold 2, advice of up to two calls | 1,705,833 |
| `world_physics` | collisions, drawn grid, deliveries, tandem pushes | 5 x 3 floor, zone of one column, one heavy and one light box | 218,126 |
| `attempt_frozen` | cost and end of attempts, deliveries, substitution, what the labels claim | the frozen V1 instance in full: 10 x 10 floor, both boxes, real start and budgets; any sequence of calls, truncation at any step | 288,161 |
| `boxpush_episode` | how each task ends and what it costs, predictions, why calls fail | the frozen V1 instance, its three tasks, its budgets, both policies and fault settings | 11,448 |
| `grid_attempts` | door, cached state, predictions, why calls fail | the layout of `grid_env.py`, limit of 200 steps, any sequence of calls and resets, by and with whatever has an identity | 1,002,298 |
| `grid_stale` | violation: the cached state is not the backend's | as `grid_attempts` | stops at the violation |
| `grid_episode` | how an episode with and without a jam ends, and its price | the same layout, limits of 3, 5, 12, 16 and 200 steps, both policies and fault settings | 1,958 |
| `transport_world` | agents, records, rewards and the hold | 5 floor cells, one light and one heavy package | 21,444 |
| `transport_commander` | map and beliefs under the skills | 3 x 2 floor in a 5 x 4 grid, a heavy package, a light target and a decoy, budgets of 3 rounds, turned after one round in one place | 174,978 |
| `transport_pick` | violation: a pick that succeeded is reported as failed | as `transport_commander` | stops at the violation |
| `package_validation` | skips, oversights, masking, imports | packages with up to two deviations from a full and from a bare one, layouts of up to two imports with the door listed, not listed, or the guard file garbled | 255,099 |

Why these bounds are enough to be interesting. In `loop_budgets` the primitive budget can
be overrun by one primitive and reached before or after the executive one, two free cycles
can precede, follow and separate charged ones, a charge clears their count, and the
third gives up. In `loop_escalation` a call
can fail up to the threshold in one world, in two different worlds, with another call
in between, be advised, and fail again past the threshold within the budget of four.
In `world_physics` the boxes start away from the zone and the walls, so that
agents must turn, line up and push more than once; both boxes can be delivered, ghosts
can be walked over, boxes can be pushed against each other, agents and walls. The
one instance has no symmetry to use. `attempt_frozen` is no reduction at all: attempts are deterministic between calls, so
every world that any sequence of calls can reach from the frozen start is visited, with
attempts of up to 150 rounds, and each is also cut off after every step. What it says it
says of that start only: `PushesDeliver`, `OnlyPartnerBlocksPose`, `SubstitutionIsFault` and `DeliveryIsReal`
depend on the layout. `boxpush_episode` and the grid runs are the real instances too; the small step limits of `grid_episode`
cut episodes off within walks, at the pull and after the door is open. In `transport_world` the first
holder may walk on before the second latches on, so that holds of several shapes arise and move, and either
package can be delivered first. `transport_commander` is as small as it
can be with a decoy: both agents find, pick and drop packages in either order, latch on and carry
the heavy one, run into each other, and use up budgets and patience. In
`package_validation` two deviations are what masking needs: one that hides and one that is hidden.
The theorems remove the bounds for what they cover.

Symmetry is used in `loop_escalation` only: calls are interchangeable, and so
are worlds that are alike for the goal (`Alike`).

Fairness. `Spec` of the loop assumes `WF_vars(Next)` and nothing else: one Python thread
runs it, every call it makes returns or raises, and no step waits for another party. No
collaborator is assumed to answer well: termination comes from the budgets and the two
counters alone. The episodes assume the same of loop and environment together; in
`BoxPushEpisode` weak fairness is written out (`Fairness`), because the next step is possible exactly
until the loop is done and TLC need not look for it. The other specifications
assume no fairness and no run claims liveness of them: that attempts end is the
safety property `WithinBudget` together with the absence of deadlock.

Deadlock is checked in every run but one; the end of an episode is a stuttering step
(`Terminated`, `Ended`, `Refuse`, `Close`). A validation stops when its report is written or lost, so
`package_validation` does not check it.

## What disagrees with the documents

Two disagreements are findings, each with a run that expects the violation:

- `grid_stale`, `CacheFollowsBackend`. When `max_steps` strikes inside a walk, `execute_skill` reports a
  case-(c) fault and leaves `_state` at the world before the walk (`kit/environment.py:164`); the loop then
  resynchronises from a world that no longer exists, against `shared/faults.py:65-66` and the environment's
  own docstring (`domains/cooperative_grid/environment.py:10-11`).
- `transport_pick`, `PickReports`. The map is shared and updated agent by agent, so a view of the world
  *after* the step can erase the label the second agent's reckoning looks for
  (`deterministic_grid_updater.py:320`): its pick succeeds, is paid for, and is reported as failed.

Others were met on the way and need no run of their own:

- BoxPush. `world_grid_divergence` promises nonempty output after play (`box_push_v1_adapter.py:715-716`);
  by theorem `GridTracks` it is always empty. An exploration that the end of the episode cuts
  off did neither of the two things lines 508-509 allow, and is a success. The task of the heavy box alone
  halts under both policies, after twice the threshold of failures.
- Loop. After a case-(c) fault in continue mode `propose()` is asked for the "current situation"
  (`shared/contracts/tracks.py:69`), of which the NL track has been told nothing (`loop.py:515-521`, 630).
- Transport. Position beliefs drift once both agents hold the heavy package (`deterministic_grid_updater.py:295`
  against its comment at 56), and so do the deliveries claimed from them: hence the hypotheses of `MapTells` and
  `BeliefIsReal`. `CooperativeMoveSkill` promises a direction from the shared position of the object, but each
  agent uses its own belief. A decoy that is picked up is believed to be the target at its cell, a package that is
  dropped is never drawn again, no skill releases a latch, `DropSkill` counts earlier deliveries, a move
  may be reported that never happened, and agents walk into each other because markers read as empty.
  `CST_POMDP.md` (lines 69 and 163) describes an older environment, and `env/` holds an older copy.
- Grid. The environment's contract has no typed answer for a walk of what is no agent: `Goto` by the door or a place is
  grounded (`kit/protocols.py:54-68`, `types.py:100-102`), `route()` raises a `KeyError` (`grid_env.py:254`), and a mistaken
  call ends as an infrastructure fault, which halts a loop that fails closed.
- Validation. Absent examples are a WARN (`app/validation.py:497`, 561), not "SKIPPED, never PASS" as
  `app/domain_package.py:57-59` says; that they never pass is so (`SkipsHaveCause`). "One broken component never hides the
  others and no traceback is the headline", "every code in the catalogue appears in every report"
  (`app/validation.py:6-10`) end at the package directory: `read_text` (785), `ast.parse` (726, 756) and the last line of
  the fresh interpreter (880) have no guard, nor has the caller (898-900), so one file that does not parse costs the whole report
  (`"lost"`; the properties speak of reports that come out). DK052 asks for track and state only and fails for missing
  services (558), where its neighbours are skipped (`AskedAgain`). A broken component is failed again by the episodes,
  which build and ask everything once more (`AskedAgain`). A package whose planner answers `NoPlan` with a
  warning has its later checks skipped for "an earlier check failed". An `__init__` counts as a sibling.

## Theorems

A theorem holds for every value of the constants that satisfies the named assumptions: any calls, worlds, budgets and
advice of the loop; any floor, zone, number of boxes and skill budgets of BoxPush (`HardCapAssumption`: the cap leaves
every budget room for two turns); any layout of the grid in which the door is the only way out of the corridor, and
any step limits; any floor and cast of the transport world. `EpisodeAssumption` (one in each composition) says what
the loop takes for granted of its constants, and that no attempt can be longer than `MaxPrimitives`. TLC evaluates
all of them on the instances.

Most proofs have one shape: an inductive invariant, which TLC checked first, one lemma per action, and a last step in
temporal logic. What each invariant adds to the property is what a reader should know of.

`ExecutiveLoop_proofs`

- `TypeCorrect`: `TypeOK` is inductive; it is split by groups of variables, so that an action only reproves the
  groups it touches (`Kept`).
- `BudgetCorrect`, `AccountingCorrect`: the strengthening says at which `pc` a cycle has charged nothing, and that
  then the budget was not exhausted. `StepShape` classifies every step as free or as paying one attempt of `n`
  primitives; the arithmetic is done once for the two shapes.
- `FreshnessCorrect`, `IdleCorrect`: the world only changes in a paying step, so belief, snapshot and world agree
  from the sync to the gate, and at `settle` unless the cycle was charged.
- `BoundCorrect`: `step <= Charged * (MaxRejections + 1) + zero`, with the cases of a cycle under way.
- `ContractSafe`: every step is one of `BoundedEpisode` or a stutter.
- `ChannelsExclusive`, `RepeatsAreAdvised`: what is at the gate without advice standing has a count below the
  threshold, and advice stands only under the advisory policy and consists of calls recorded in `advised`.
- `FailClosedCorrect`, `AdviceCorrect`, `OutcomeCorrect`: a fault is recorded, and a case-(c) charge made, only by
  the step that also decides whether to halt; what escalates was counted in the present world, and a failure that
  is counted is diagnosed in the same step.

`BoxPushWorld_proofs`: `WorldNoOverlap`, `DeliveryExact`, `GhostsRest` by one invariant (pieces on the floor and apart).
The phases of a step are lemmas over placements `p`, so that the second mover is proved from the world the first one
left. `GridTracks` carries "drawn is where the boxes that are not delivered stand" through the phases (`Drawn(p)`);
`HeavyInTandem` follows a heavy box through them (`InTandem`).

`BoxPushAttempt_proofs`

- `AttemptTypes`: each skill answers with an action and a well formed record; that `Nearest` returns one of its cells
  needs a least element, taken from the well-foundedness of `<`.
- `AttemptBounded`: a round either finishes the skill or is counted and leaves budget, except when goto turns in
  its pose. The invariant `Counts` adds the turns still needed there. That the sum does not grow needs that nobody
  moves while an agent turns (`StillStep`), and that a step without moves delivers nothing.
- `AttemptPhysics`: the attempt changes the world through joint steps only; `AttemptNoOverlap` and `AttemptGridTracks`
  follow.
- `AttemptLocal`: an attempt touches nobody but its participants, a single agent's skill displaces no heavy box, a scan or
  a wait moves and delivers nothing, and earlier deliveries stand. It is relative to the snapshot `pre` and so is
  inductive as it stands, given that whoever does not advance is not moved by the partner's half of the step
  (`StepSpares`), which needs the drawing to be true for the heavy boxes.
- `WalksHonest`: the walking half of `SubstitutionIsFault`, in every arena. The invariant `ClaimsHold` says that a claimed
  pose is the pose of some box still to be delivered, and that the walk is done, so that nothing moves before the
  adapter looks; then either it is the pose of the grounded box or the post-flight check finds the other one.

`BoxPushEpisode_proofs`: the composition implements both of its halves. `EpisodeCorrect` is the invariant: what the loop
chooses, plans or is advised of is a grounded call (every box has its two walks among `Grounded`), and the adapter
works on the chosen one while the loop waits. `EpisodeImplementsAttempt` then makes the theorems about attempts hold in
episodes; `EpisodeImplementsLoop` needs `AttemptBounded`, because a runaway cap would be seen by the loop;
`LoopAssumptionsMet` discharges what the loop assumes. A proof system that instantiated the loop's theorems would
conclude that `BudgetHolds`, `OutcomeJustified` and the others hold of every episode; this one leaves that last step to
the reader. `EpisodePhysics` and `EpisodeAttempts` collect what episodes inherit from the world and from attempts.

`CooperativeGrid_proofs`

- `BackendDoorHolds`, `EnvironmentImplementsBackend`, `EnvironmentDoorHolds`: the backend's guarantee under the kit.
- `KitTypes`, `CacheLagsOnlyAtEnd`, `EveryStepReported`, `PredictionsHold`, by `KitInv == GridOK /\ KitOK /\ Lag`: the cache
  differs from the backend in one agent's place at most, and only while that agent walks or after its walk died.
  Any other fault took no step and leaves the cache fresh.
- `EpisodeCorrect`, `EpisodeDoorHolds`, `EpisodeImplementsLoop`, `LoopAssumptionsMet`: as for BoxPush. That an attempt
  takes at most `MaxPrimitives` steps comes from `max_steps` alone (`StepsLeft`), not from the ways that are walked.
- `EpisodeBlamesFailures`: only failures are diagnosed. What `evaluate()` said at the start of a cycle is still so when
  the attempt ends, and then `SuccessPredicted` applies.

`TransportWorld_proofs`: `TransportTypes`, `TransportApart`, `RecordsCorrect`, `DeliveriesRest`, `HoldsAreRigid` and
`RewardsTrue`. `TransportInv` says that agent and package agree about each other and that a full hold stands around
its package. Each phase is shown to keep `Keeps(p, q)`: soundness of the situation it hands on and that deliveries rest.
The rewards are followed through the phases as what has been `Earned` so far (`WalksPay`, `HandsPay`, `ClosePays`).

`TransportCommander_proofs`: `CommanderImplementsWorld`, `CommanderTypes`, `MapIsTrue`, `BeliefsAreReal`, `FirstAgentNotices`,
`MissedStaysMissed`, by `CommanderInv`, whose parts are the types, that the picture shows what stands where
(`PictureTells`), that a heavy package rests until it is fully held, that believed and real hands agree, that the
map agrees with the picture, and what the first agent knows. One round is followed in the order of the code: the step
(`StepHands`), the reckoning (`ReckonReckons`), the view laid over the map (`SweepShows`), agent by agent.

`PackageValidation_proofs`: `ValidationTypes`, `SkipsCorrect`, `OkCorrect`, `OneFaultCorrect`, `LayoutCorrect`, by
`ValidationInv`: what a check has reported determines what the later ones find blocked, made and told, for any set of
packages with any number of defects. `OneFaultCorrect` needs more than that: what an early check shows of a package it
shows also when the only checks that failed are the later ones that ask again (`SparedInv`), and what no check has reached
has no finding yet (`NotYetInv`).

## Model-checked only

- Liveness: `EpisodeEnds`, the fairness of `KeepsContract`, `TasksDecide`, `JamDecides`. (`ContractSafe` proves
  the rest of `KeepsContract`; `BoundCorrect` bounds the cycles.)
- What depends on the layout of the frozen arena: `PushesDeliver`, `OnlyPartnerBlocksPose`, `DeliveryIsReal`,
  `StaleBeliefExplains`, `NoMismatch`, and the pushing half of `SubstitutionIsFault` (after its first move a
  cooperative push follows the nearest target, which in a crowded arena may become another box).
- What depends on a recursive function, whose values need an induction: the ways found by flooding (`OnlyJamOrPartner`,
  and the walk in `CacheLags`; `CacheLagsOnlyAtEnd` is what can be said without) and the planners (`PriceOfJam`,
  `PriceOfFailure`).
- The two violations.

## Not modelled

PDDL generation, the comparators (no frozen policy reads their results), the command line and the scaffold, and the
text of prompts, proposals and reports: what they compute is text. The legacy BoxPush runners, the older copy of the
transport environment and the other environments are not used by the runtime. Tests and fixtures were read as
evidence of intent.

## Plan

Open, in the order of their worth: the kit's typed faults that a domain raises itself; the registry's manifests
and the fault-injection overrides of the composition root; the NL track with its history as a client of `observe` and
`propose`, where the finding about case-(c) faults would become a run; and a proof that ways are sequences of
moves, once inductions over data can be proved.
