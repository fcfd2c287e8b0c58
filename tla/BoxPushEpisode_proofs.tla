------------------------ MODULE BoxPushEpisode_proofs ------------------------
(***************************************************************************)
(* Theorems about an episode of the BoxPush domain, for an arena of any    *)
(* size, any tasks, budgets and thresholds: the composition implements     *)
(* both of its halves, so that what is proved of the loop for all          *)
(* collaborators and of the adapter for all callers holds of it.           *)
(***************************************************************************)
EXTENDS BoxPushEpisode, BoxPushAttempt_proofs

-----------------------------------------------------------------------------
(* Sequences and their entries                                             *)

LEMMA IsASeq ==
  ASSUME NEW S, NEW n \in Nat, NEW s \in [1 .. n -> S]
  PROVE  s \in Seq(S)
  OBVIOUS

Entries(s) == {s[i] : i \in DOMAIN s}

LEMMA SecondPart ==
  ASSUME NEW S, NEW s \in Seq(S), NEW t \in Seq(S), NEW i \in 1 .. Len(t)
  PROVE  Len(s) + i \in 1 .. Len(s \o t) /\ (s \o t)[Len(s) + i] = t[i]
  OBVIOUS

LEMMA ConcatEntries ==
  ASSUME NEW S, NEW s \in Seq(S), NEW t \in Seq(S)
  PROVE  /\ s \o t \in Seq(S)
         /\ Entries(s) \subseteq Entries(s \o t) /\ Entries(t) \subseteq Entries(s \o t)
<1>1. s \o t \in Seq(S) /\ DOMAIN (s \o t) = 1 .. Len(s \o t) /\ DOMAIN t = 1 .. Len(t)
  OBVIOUS
<1>2. \A i \in DOMAIN s : i \in DOMAIN (s \o t) /\ (s \o t)[i] = s[i]
  OBVIOUS
<1>3. \A i \in DOMAIN t : Len(s) + i \in DOMAIN (s \o t) /\ (s \o t)[Len(s) + i] = t[i]
  BY <1>1, SecondPart
<1>4. QED
  BY <1>1, <1>2, <1>3 DEF Entries

USE SkillBoundsAssumption, HardCapAssumption

-----------------------------------------------------------------------------
(* The constants of the loop                                               *)

\* The calls the planner grounds.
Groundable ==
  [skill : {"goto", "push"}, agent : Agents, box : Boxes]
    \cup [skill : {"coop"}, agent : {Agent0}, box : Boxes]

LEMMA CallsOfCalls ==
  /\ CallsOf("coop", Agent0) \in Seq(Groundable)
  /\ CallsOf("goto", Agent0) \in Seq(Groundable) /\ CallsOf("goto", Agent1) \in Seq(Groundable)
  /\ CallsOf("push", Agent0) \in Seq(Groundable) /\ CallsOf("push", Agent1) \in Seq(Groundable)
<1> DEFINE n == Len(BoxOrder)
<1>1. BoxOrder \in Seq(Boxes) /\ DOMAIN BoxOrder = 1 .. n /\ n \in Nat
  BY BoxOrderAssumption
<1>2. ASSUME NEW name, NEW a,
             \A b \in Boxes : [skill |-> name, agent |-> a, box |-> b] \in Groundable
      PROVE  CallsOf(name, a) \in Seq(Groundable)
  <2>1. \A i \in 1 .. n : BoxOrder[i] \in Boxes
    BY <1>1
  <2>2. CallsOf(name, a) \in [1 .. n -> Groundable]
    BY <1>1, <1>2, <2>1 DEF CallsOf
  <2>3. \A s \in [1 .. n -> Groundable] : s \in Seq(Groundable)
    <3>1. n \in Nat
      BY <1>1
    <3> HIDE DEF n
    <3>2. QED
      BY <3>1, IsASeq
  <2>4. QED
    BY <2>2, <2>3
<1>3. Agent0 \in Agents /\ Agent1 \in Agents
  BY DEF Agents
<1>4. QED
  BY <1>2, <1>3 DEF Groundable

\* Every call the planner grounds names agents and boxes the adapter knows.
LEMMA PlannedGroundable == Planned \subseteq Groundable
<1>1. Grounded \in Seq(Groundable)
  BY CallsOfCalls DEF Grounded
<1>2. \A i \in DOMAIN Grounded : Grounded[i] \in Groundable
  BY <1>1
<1>3. QED
  BY <1>2 DEF Planned

LEMMA PlannedAreCalls == Planned \subseteq Calls
  BY PlannedGroundable DEF Groundable, Calls

LEMMA PlannedBoxes ==
  ASSUME NEW c \in Planned
  PROVE  c.skill \in {"goto", "push", "coop"} /\ c.box \in Boxes
  BY PlannedGroundable DEF Groundable

-----------------------------------------------------------------------------
(* The invariant of an episode                                             *)

\* The loop hands the adapter nothing but grounded calls, and the adapter works only while
\* the loop waits for it at its gate.
EpisodeInv ==
  /\ AttemptInv
  /\ task \in Tasks
  /\ tracked \subseteq Agents \X Boxes
  /\ plan \in Planned \cup {NoHead, EmptyPlan}
  /\ pending \in Seq(Planned)
  /\ pc = "gate" => chosen \in Planned
  /\ phase = "running" => pc = "gate" /\ call = chosen

LEMMA InitEpisodeInv == EpisodeInit => EpisodeInv
<1> SUFFICES ASSUME EpisodeInit PROVE EpisodeInv
  OBVIOUS
<1>1. AttemptInv
  BY InitAttemptInv DEF EpisodeInit
<1>2. phase = "idle" /\ task \in Tasks /\ tracked = {}
  BY DEF EpisodeInit, AttemptInit
<1>3. plan = NoHead /\ pending = <<>> /\ pc = "sync"
  BY DEF EpisodeInit, Loop!Init
<1>4. QED
  BY <1>1, <1>2, <1>3 DEF EpisodeInv

\* An attempt that was begun in one world of the loop ends in another.
LEMMA SeenIsWorld == EpisodeInv => Seen \in Worlds
<1> SUFFICES ASSUME EpisodeInv PROVE Seen \in Worlds
  OBVIOUS
<1>1. /\ at \in [Agents -> Floor] /\ facing \in [Agents -> Directions]
      /\ box \in [Boxes -> Floor] /\ delivered \subseteq Boxes /\ task \in Tasks
  BY DEF EpisodeInv, AttemptInv, AttemptTypeOK, TypeOK
<1>2. pre \in [at : [Agents -> Floor], facing : [Agents -> Directions],
               box : [Boxes -> Floor], delivered : SUBSET Boxes]
  BY DEF EpisodeInv, AttemptInv, AttemptTypeOK
<1>3. QED
  BY <1>1, <1>2 DEF Seen, Tasked, Snapshot, Worlds

LEMMA SeenStaysWorld == EpisodeInv' => (Seen \in Worlds)'
  BY SeenIsWorld, PTL

\* No cap strikes, so a round leaves what the loop sees as it was.
LEMMA RoundUnseen ==
  ASSUME EpisodeInv, AttemptInv', Round, UNCHANGED <<tracked, task, loopVars>>
  PROVE  phase = "running" /\ phase' = "running" /\ Seen' = Seen /\ SeenOver' = SeenOver
<1>1. phase = "running" /\ call' = call /\ pre' = pre
  BY DEF Round
<1>2. call # NoCall
  BY <1>1, CallTypes DEF EpisodeInv, AttemptInv, Running
<1>3. result'.fault # "runaway"
  BY <1>1, <1>2 DEF AttemptInv, WithinBudget
<1>4. ~(prim' >= HardCap)
  BY <1>3 DEF Round, NoResult
<1>5. phase' = "running"
  BY <1>1, <1>4 DEF Round
<1>6. QED
  BY <1>1, <1>5 DEF Seen, SeenOver, Tasked

LEMMA ReturnUnseen ==
  ASSUME Return, UNCHANGED <<tracked, task, loopVars>>
  PROVE  phase' = "idle" /\ Seen' = Seen /\ SeenOver' = SeenOver
  BY DEF Return, Forget, Seen, SeenOver, Tasked, Snapshot, worldVars, Over

LEMMA BeginUnseen ==
  ASSUME NEW c \in Calls, Start(c), UNCHANGED <<tracked, task, loopVars>>
  PROVE  phase' = "running" /\ Seen' = Seen /\ SeenOver' = SeenOver
  BY DEF Start, Seen, SeenOver, Tasked, Snapshot, worldVars, Over

LEMMA OutsideUnseen ==
  ASSUME UNCHANGED <<vars, tracked, task>>
  PROVE  Seen' = Seen /\ SeenOver' = SeenOver
  BY DEF vars, attemptVars, Seen, SeenOver, Tasked, Snapshot, worldVars, Over

-----------------------------------------------------------------------------
(* Every step is one of the adapter or leaves it alone                     *)

LEMMA AttemptSteps == EpisodeInv /\ [EpisodeNext]_episodeVars => [AttemptNext]_vars
<1> SUFFICES ASSUME EpisodeInv, [EpisodeNext]_episodeVars PROVE [AttemptNext]_vars
  OBVIOUS
<1>1. CASE StartCycle \/ PlannerAnswers \/ Advise \/ Alone
  BY <1>1 DEF StartCycle, PlannerAnswers, Advise, Alone, OutsideAttempt
<1>2. CASE BeginAttempt
  <2>1. chosen \in Calls /\ Start(chosen)
    BY <1>2, PlannedAreCalls DEF BeginAttempt, EpisodeInv
  <2>2. QED
    BY <2>1 DEF AttemptNext
<1>3. CASE DuringAttempt \/ AttemptCompletes \/ AttemptRefused
  BY <1>3 DEF DuringAttempt, AttemptCompletes, AttemptRefused, AttemptNext
<1>4. CASE UNCHANGED episodeVars
  BY <1>4 DEF episodeVars
<1>5. QED
  BY <1>1, <1>2, <1>3, <1>4 DEF EpisodeNext

LEMMA AttemptInvKept == EpisodeInv /\ [EpisodeNext]_episodeVars => AttemptInv'
  BY AttemptSteps, AttemptInvStep DEF EpisodeInv

-----------------------------------------------------------------------------
(* The invariant holds                                                     *)

\* Every box has a call to walk to it for either agent.
LEMMA WalksArePlanned ==
  ASSUME NEW a \in Agents, NEW b \in Boxes
  PROVE  [skill |-> "goto", agent |-> a, box |-> b] \in Planned
<1> DEFINE coop  == CallsOf("coop", Agent0)
           go0   == CallsOf("goto", Agent0)
           go1   == CallsOf("goto", Agent1)
           push0 == CallsOf("push", Agent0)
           push1 == CallsOf("push", Agent1)
<1>1. /\ coop \in Seq(Groundable) /\ go0 \in Seq(Groundable) /\ go1 \in Seq(Groundable)
      /\ push0 \in Seq(Groundable) /\ push1 \in Seq(Groundable)
  BY CallsOfCalls
<1>2. [skill |-> "goto", agent |-> a, box |-> b] \in Entries(CallsOf("goto", a))
  BY BoxOrderAssumption DEF Entries, CallsOf
<1>3. CallsOf("goto", a) \in {go0, go1}
  BY DEF Agents
<1> HIDE DEF coop, go0, go1, push0, push1
<1>4. /\ coop \o go0 \in Seq(Groundable) /\ Entries(go0) \subseteq Entries(coop \o go0)
  BY <1>1, ConcatEntries
<1>5. /\ coop \o go0 \o go1 \in Seq(Groundable)
      /\ Entries(coop \o go0) \subseteq Entries(coop \o go0 \o go1)
      /\ Entries(go1) \subseteq Entries(coop \o go0 \o go1)
  BY <1>1, <1>4, ConcatEntries
<1>6. /\ coop \o go0 \o go1 \o push0 \in Seq(Groundable)
      /\ Entries(coop \o go0 \o go1) \subseteq Entries(coop \o go0 \o go1 \o push0)
  BY <1>1, <1>5, ConcatEntries
<1>7. Entries(coop \o go0 \o go1 \o push0)
        \subseteq Entries(coop \o go0 \o go1 \o push0 \o push1)
  BY <1>1, <1>6, ConcatEntries
<1>8. Planned = Entries(coop \o go0 \o go1 \o push0 \o push1)
  BY DEF Planned, Grounded, Entries, coop, go0, go1, push0, push1
<1>9. QED
  BY <1>2, <1>3, <1>4, <1>5, <1>6, <1>7, <1>8

LEMMA PairsAreSeqs == ASSUME NEW S, NEW x \in S, NEW y \in S PROVE <<x>> \in Seq(S) /\ <<x, y>> \in Seq(S)
  OBVIOUS

LEMMA AdviceIsPlanned == ASSUME NEW c \in Planned PROVE Recover(c) \in Seq(Planned)
<1> DEFINE walk(a) == [skill |-> "goto", agent |-> a, box |-> c.box]
<1>1. c \in Calls /\ c.agent \in Agents
  BY PlannedAreCalls, CallTypes
<1>2. c.skill \in {"goto", "push", "coop"} /\ c.box \in Boxes
  BY PlannedBoxes
<1>3. \A a \in Agents : walk(a) \in Planned
  BY <1>2, WalksArePlanned
<1>4. Agent0 \in Agents /\ Agent1 \in Agents
  BY DEF Agents
<1>5. Recover(c) \in {<<>>, <<walk(c.agent)>>, <<walk(Agent0), walk(Agent1)>>}
  BY <1>2 DEF Recover
<1> HIDE DEF walk
<1>6. <<>> \in Seq(Planned)
  OBVIOUS
<1>7. QED
  BY <1>1, <1>3, <1>4, <1>5, <1>6, PairsAreSeqs

\* The loop's own steps of a cycle: the adapter rests.
LEMMA CycleKept ==
  ASSUME EpisodeInv, StartCycle \/ PlannerAnswers \/ Advise \/ Alone
  PROVE  EpisodeInv'
<1>0. AttemptInv' /\ UNCHANGED <<phase, call, tracked, task>>
  <2>1. OutsideAttempt
    BY DEF StartCycle, PlannerAnswers, Advise, Alone
  <2>2. EpisodeNext
    BY DEF EpisodeNext
  <2>3. QED
    BY <2>1, <2>2, AttemptInvKept DEF OutsideAttempt, vars, attemptVars
<1>1. phase # "running" \/ pc = "gate"
  BY DEF EpisodeInv
<1>2. CASE StartCycle
  <2>1. /\ pc = "sync" /\ pc' = "plan" /\ UNCHANGED <<plan, pending, chosen>>
    BY <1>2 DEF StartCycle, Loop!StartCycle, Loop!adviceVars
  <2>2. QED
    BY <1>0, <1>1, <2>1 DEF EpisodeInv
<1>3. CASE PlannerAnswers
  <2>1. /\ pc = "plan" /\ pc' = "select" /\ plan' \in Planned \cup {NoHead, EmptyPlan}
        /\ UNCHANGED <<pending, chosen>>
    BY <1>3 DEF PlannerAnswers, Loop!PlannerAnswers, Loop!adviceVars
  <2>2. QED
    BY <1>0, <1>1, <2>1 DEF EpisodeInv
<1>4. CASE Advise
  <2>1. /\ pc = "select" /\ pc' \in {"select", "done"} /\ UNCHANGED <<plan, chosen>>
    BY <1>4 DEF Advise, Loop!RequestRecovery, Loop!HaltWithoutAdvice, Loop!Finish,
                Loop!cycleVars
  <2>2. pending' \in Seq(Planned)
    <3>1. CASE pending' = Recover(plan) /\ Loop!RequestRecovery
      <4>1. plan \in Planned
        BY <3>1 DEF Loop!RequestRecovery, Loop!Route, Loop!RouteAt, EpisodeInv
      <4>2. QED
        BY <3>1, <4>1, AdviceIsPlanned
    <3>2. CASE Loop!HaltWithoutAdvice
      BY <3>2 DEF Loop!HaltWithoutAdvice, Loop!adviceVars, EpisodeInv
    <3>3. QED
      BY <1>4, <3>1, <3>2 DEF Advise
  <2>3. QED
    BY <1>0, <1>1, <2>1, <2>2 DEF EpisodeInv
<1>5. CASE Alone
  <2>1. CASE Loop!SelectExecute
    <3>1. /\ pc = "select" /\ pc' = "gate" /\ UNCHANGED <<plan, pending>>
          /\ chosen' = Loop!Enacted /\ Loop!Route = "execute"
      BY <2>1 DEF Loop!SelectExecute, Loop!adviceVars
    <3>2. chosen' \in Planned
      <4>1. CASE Loop!Standing
        BY <3>1, <4>1 DEF Loop!Standing, Loop!Enacted, EpisodeInv
      <4>2. CASE ~Loop!Standing
        BY <3>1, <4>2 DEF Loop!Route, Loop!RouteAt, Loop!Enacted, EpisodeInv
      <4>3. QED
        BY <4>1, <4>2
    <3>3. QED
      BY <1>0, <1>1, <3>1, <3>2 DEF EpisodeInv
  <2>2. CASE Loop!GoalReached \/ Loop!HaltRepeatedFailure
    <3>1. /\ pc # "gate" /\ pc' = "done" /\ UNCHANGED <<plan, pending, chosen>>
      BY <2>2 DEF Loop!GoalReached, Loop!HaltRepeatedFailure, Loop!Finish,
                  Loop!cycleVars, Loop!adviceVars
    <3>2. QED
      BY <1>0, <1>1, <3>1 DEF EpisodeInv
  <2>3. CASE Loop!SettleCharged \/ Loop!SettleIdle \/ Loop!LivenessGuard
    <3>1. /\ pc # "gate" /\ pc' \in {"sync", "done"} /\ plan' = NoHead
          /\ UNCHANGED pending
      BY <2>3 DEF Loop!SettleCharged, Loop!SettleIdle, Loop!LivenessGuard, Loop!Finish,
                  Loop!LeaveCycle, Loop!adviceVars
    <3>2. QED
      BY <1>0, <1>1, <3>1 DEF EpisodeInv
  <2>4. QED
    BY <1>5, <2>1, <2>2, <2>3 DEF Alone
<1>6. QED
  BY <1>2, <1>3, <1>4, <1>5

\* The steps in which the adapter works on the call the loop chose, or hands it back.
LEMMA AttemptKept ==
  ASSUME EpisodeInv, BeginAttempt \/ DuringAttempt \/ AttemptCompletes \/ AttemptRefused
  PROVE  EpisodeInv'
<1>0. AttemptInv'
  <2>1. EpisodeNext
    BY DEF EpisodeNext
  <2>2. QED
    BY <2>1, AttemptInvKept
<1>1. CASE BeginAttempt
  <2>1. pc = "gate" /\ call' = chosen /\ UNCHANGED <<tracked, task, loopVars>>
    BY <1>1 DEF BeginAttempt, Start
  <2>2. QED
    BY <1>0, <2>1 DEF EpisodeInv, loopVars
<1>2. CASE DuringAttempt
  <2>1. UNCHANGED <<tracked, task, loopVars>>
    BY <1>2 DEF DuringAttempt
  <2>2. phase' = "running" => phase = "running" /\ call' = call
    BY <1>2 DEF DuringAttempt, Round, Return
  <2>3. QED
    BY <1>0, <2>1, <2>2 DEF EpisodeInv, loopVars
<1>3. CASE AttemptCompletes
  <2>1. /\ pc = "gate" /\ pc' = "settle" /\ phase' = "returned" /\ UNCHANGED <<task, plan>>
        /\ pending' = IF Loop!Standing THEN Tail(pending) ELSE pending
    BY <1>3 DEF AttemptCompletes, Complete, Loop!Completes, Loop!cycleVars
  <2>2. pending' \in Seq(Planned)
    BY <2>1 DEF EpisodeInv, Loop!Standing
  <2>3. tracked' \subseteq Agents \X Boxes
    <3>1. chosen \in Planned /\ chosen \in Calls /\ Participants(chosen) \subseteq Agents
      BY <2>1, PlannedAreCalls, CallTypes DEF EpisodeInv
    <3>2. chosen.skill \in {"goto", "push", "coop"} /\ chosen.box \in Boxes
      BY <3>1, PlannedBoxes
    <3>3. Poses(chosen) \subseteq Agents \X Boxes
      BY <3>1, <3>2 DEF Poses
    <3>4. tracked' = TrackedAfter(chosen, Successful(result'), Changed)
      BY <1>3 DEF AttemptCompletes
    <3>5. tracked' \subseteq tracked \cup Poses(chosen)
      BY <3>2, <3>4 DEF TrackedAfter
    <3>6. QED
      BY <3>3, <3>5 DEF EpisodeInv
  <2>4. QED
    BY <1>0, <2>1, <2>2, <2>3 DEF EpisodeInv
<1>4. CASE AttemptRefused
  <2>1. /\ phase' = "returned" /\ pc' \in {"settle", "done"} /\ UNCHANGED <<tracked, task>>
        /\ UNCHANGED <<plan, pending>>
    BY <1>4 DEF AttemptRefused, Refuse, Loop!RefusesTerminal, Loop!MaybeFaultHalt,
                Loop!Finish, Loop!cycleVars, Loop!adviceVars
  <2>2. QED
    BY <1>0, <2>1 DEF EpisodeInv
<1>5. QED
  BY <1>1, <1>2, <1>3, <1>4

LEMMA EpisodeInvStep == EpisodeInv /\ [EpisodeNext]_episodeVars => EpisodeInv'
<1> SUFFICES ASSUME EpisodeInv, [EpisodeNext]_episodeVars PROVE EpisodeInv'
  OBVIOUS
<1>1. CASE StartCycle \/ PlannerAnswers \/ Advise \/ Alone
  BY <1>1, CycleKept
<1>2. CASE BeginAttempt \/ DuringAttempt \/ AttemptCompletes \/ AttemptRefused
  BY <1>2, AttemptKept
<1>3. CASE UNCHANGED episodeVars
  <2>1. UNCHANGED <<phase, call, task, tracked, plan, pending, pc, chosen>>
    BY <1>3 DEF episodeVars, vars, attemptVars, loopVars
  <2>2. QED
    BY <2>1, AttemptInvKept DEF EpisodeInv
<1>4. QED
  BY <1>1, <1>2, <1>3 DEF EpisodeNext

\* The type of an episode and more: whatever the loop chooses, believes or is advised of is
\* a call the planner grounds, and the adapter works on nothing but the call the loop waits
\* for at its gate, within its budget (PlanningRuntime.run over BoxPushV1Adapter).
THEOREM EpisodeCorrect == EpisodeSpec => []EpisodeInv
<1>1. QED
  BY InitEpisodeInv, EpisodeInvStep, PTL DEF EpisodeSpec

-----------------------------------------------------------------------------
(* Both halves are implemented                                             *)

\* An episode drives the adapter as any caller may: what is proved of attempts for every
\* caller holds in every episode (execute_skill of the V1 adapter).
THEOREM EpisodeImplementsAttempt == EpisodeSpec => AttemptSpec
<1>1. EpisodeInit => AttemptInit
  BY DEF EpisodeInit
<1>2. QED
  BY <1>1, AttemptSteps, InitEpisodeInv, EpisodeInvStep, PTL DEF EpisodeSpec, AttemptSpec

\* No cap and no return is seen by the loop: while an attempt runs it sees the world the
\* attempt began in.
LEMMA LoopSteps == EpisodeInv /\ EpisodeInv' /\ [EpisodeNext]_episodeVars => [Loop!Next]_(Loop!vars)
<1> SUFFICES ASSUME EpisodeInv, EpisodeInv', [EpisodeNext]_episodeVars
             PROVE  [Loop!Next]_(Loop!vars)
  OBVIOUS
<1>0. ASSUME UNCHANGED <<loopVars, Seen, SeenOver>> PROVE UNCHANGED Loop!vars
  BY <1>0 DEF loopVars, Loop!vars, Loop!fixedVars, Loop!envVars, Loop!beliefVars,
              Loop!cycleVars, Loop!adviceVars, Loop!nlVars, Loop!bookVars,
              Loop!historyVars, Loop!ghostVars
<1>1. CASE StartCycle
  BY <1>1 DEF StartCycle, Loop!Next
<1>2. CASE PlannerAnswers
  BY <1>2 DEF PlannerAnswers, Loop!Next
<1>3. CASE Advise
  BY <1>3 DEF Advise, Loop!Next, Loop!Select
<1>4. CASE Alone
  BY <1>4 DEF Alone, Loop!Next, Loop!Select
<1>5. CASE BeginAttempt
  <2>1. chosen \in Calls /\ Start(chosen) /\ UNCHANGED <<tracked, task, loopVars>>
    BY <1>5, PlannedAreCalls DEF BeginAttempt, EpisodeInv
  <2>2. QED
    BY <1>0, <2>1, BeginUnseen
<1>6. CASE DuringAttempt
  <2>1. UNCHANGED <<tracked, task, loopVars>> /\ (Round \/ Return)
    BY <1>6 DEF DuringAttempt
  <2>2. AttemptInv'
    BY DEF EpisodeInv
  <2>3. Seen' = Seen /\ SeenOver' = SeenOver
    BY <2>1, <2>2, RoundUnseen, ReturnUnseen
  <2>4. QED
    BY <1>0, <2>1, <2>3
<1>7. CASE AttemptCompletes
  <2>1. Loop!Completes(prim, Seen')
    BY <1>7 DEF AttemptCompletes
  <2>2. prim \in 0 .. MaxPrimitives
    BY EpisodeAssumption DEF EpisodeInv, AttemptInv, AttemptTypeOK
  <2>3. Seen' \in Worlds
    BY SeenStaysWorld
  <2>4. QED
    BY <2>1, <2>2, <2>3 DEF Loop!Next, Loop!Attempt
<1>8. CASE AttemptRefused
  BY <1>8 DEF AttemptRefused, Loop!Next, Loop!Attempt
<1>9. CASE UNCHANGED episodeVars
  <2>1. UNCHANGED <<vars, tracked, task, loopVars>>
    BY <1>9 DEF episodeVars
  <2>2. QED
    BY <1>0, <2>1, OutsideUnseen
<1>10. QED
  BY <1>1, <1>2, <1>3, <1>4, <1>5, <1>6, <1>7, <1>8, <1>9 DEF EpisodeNext

\* An episode is one of the loop's, in which the collaborators answer as this domain does:
\* what is proved of the loop for every domain package, its fault rule, its budgets and its
\* outcomes, holds in every episode (app/box_push_v1.py).  An attempt that ends in the
\* substituted-box fault goes no further in this composition; the run finds it never does
\* in the frozen arena, and the loop's own model has the step.
THEOREM EpisodeImplementsLoop == EpisodeSpec => Loop!Init /\ [][Loop!Next]_(Loop!vars)
<1>1. EpisodeInit => Loop!Init
  BY DEF EpisodeInit
<1>2. QED
  BY <1>1, LoopSteps, InitEpisodeInv, EpisodeInvStep, PTL DEF EpisodeSpec

\* What the loop takes for granted of its calls, its worlds and its advice holds of this
\* domain's: the recovery proposer names no call that the planner cannot ground.
THEOREM LoopAssumptionsMet ==
  /\ {NoCall, NoHead, EmptyPlan} \cap Planned = {}
  /\ {w \in Worlds : w.task \subseteq w.delivered} \subseteq Worlds /\ NoWorld \notin Worlds
  /\ {<<>>} \cup {Recover(c) : c \in Planned} \subseteq Seq(Planned)
  /\ \A t \in Tasks : t # {} /\ t \subseteq Boxes
<1>1. NoCall \notin Planned
  BY PlannedAreCalls, CallTypes
<1>2. <<>> \in Seq(Planned) /\ \A c \in Planned : Recover(c) \in Seq(Planned)
  BY AdviceIsPlanned
<1>3. QED
  BY <1>1, <1>2, EpisodeAssumption, TasksAssumption

-----------------------------------------------------------------------------
(* What an episode inherits                                                *)

\* Whoever plans and whatever is advised, an episode leaves the physics of the arena
\* intact: no two pieces in a cell, delivery by position and for good, a true drawing, and
\* heavy boxes moved by the pair alone.
THEOREM EpisodePhysics ==
  EpisodeSpec => /\ [](NoOverlap /\ DeliveredInZone /\ GridTracksWorld)
                 /\ DeliveredRests /\ HeavyMovesInTandem
<1>1. TypeOK /\ NoOverlap => NoOverlap
  OBVIOUS
<1>2. EpisodeSpec => Spec
  BY EpisodeImplementsAttempt, AttemptPhysics
<1>3. QED
  BY <1>1, <1>2, WorldNoOverlap, DeliveryExact, GridTracks, GhostsRest, HeavyInTandem, PTL

\* Every attempt the loop makes in this domain ends within its budget, touches only what
\* its call names, and claims no pose it does not stand in.
THEOREM EpisodeAttempts ==
  EpisodeSpec => [](WithinBudget /\ AttemptIsLocal /\ SubstitutedWalkIsFault)
  BY EpisodeImplementsAttempt, AttemptBounded, AttemptLocal, WalksHonest, PTL

=============================================================================
