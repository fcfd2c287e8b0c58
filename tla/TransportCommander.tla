------------------------- MODULE TransportCommander -------------------------
(***************************************************************************)
(* The commander of the Cooperative Search and Transport team               *)
(* (cooperative_search_transport/cst_centralized.py, main, with             *)
(* skill_executor.py and custom_env/shared_skills.py).                      *)
(*                                                                          *)
(* Once per cycle a language model names a skill for each agent.  The       *)
(* skills then turn beliefs into primitive actions, round by round, until   *)
(* both are done or the episode is over.  A skill answers with an action    *)
(* and the record it keeps; both answer from the beliefs of the same        *)
(* moment, and the beliefs are updated after every step.  A reply that      *)
(* cannot be parsed is a wait.                                              *)
(***************************************************************************)
EXTENDS TransportBelief

CONSTANTS
  SkillBudget,     \* BaseSkill._MAX_STEPS
  ExploreBudget,   \* ExploreSkill._MAX_STEPS
  StuckLimit       \* rounds in one place after which _check_stuck turns the agent

ASSUME BudgetAssumption == {SkillBudget, ExploreBudget, StuckLimit} \subseteq Nat \ {0}

\* _PRIOR_OBJECTS and _AGENT_STARTS: of the light packages one is a target, the heavy one is,
\* and no package lies where an agent looks at first.
ASSUME PriorAssumption ==
  /\ \E o \in Light : Targets = {Heavy, o}
  /\ \A a \in Agents, o \in Packages : PackageStart[o] # Ahead(AgentStart[a], LEFT)

VARIABLES
  phase,     \* "planning": the model is asked; "running": the skills are
  skill,     \* the skill of every agent
  record     \* its record

vars == <<beliefVars, phase, skill, record>>

Skills ==
  {"explore", "goto_target", "goto_delivery", "pick", "drop", "cooperate_move", "wait"}

Outcomes ==
  {"none", "found_target", "found_decoy", "explored", "at_target", "none_known", "blocked",
   "at_delivery", "picked_solo", "latched_coop", "failed", "delivered", "dropped",
   "nothing", "moved", "waiting_partner", "arrived", "done"}

\* No cell of the map.
NoCell == <<-1, -1>>

Records ==
  [done : BOOLEAN, label : Outcomes, begun : BOOLEAN, steps : Nat,
   prev : Cells \cup {NoCell}, stuck : Nat,
   targets : SUBSET Cells, decoys : SUBSET Cells]

CommanderTypeOK ==
  /\ BeliefTypeOK
  /\ phase \in {"planning", "running"}
  /\ skill \in [Agents -> Skills]
  /\ record \in [Agents -> Records]

Fresh ==
  [done |-> FALSE, label |-> "none", begun |-> FALSE, steps |-> 0,
   prev |-> NoCell, stuck |-> 0, targets |-> {}, decoys |-> {}]

Answer(action, s) == [action |-> action, record |-> s]

\* Of a skill that is done nothing but the label is read again.
Finish(label) == Answer("stay", [Fresh EXCEPT !.done = TRUE, !.label = label])

\* WaitSkill is born done.
Opening(name) == IF name = "wait" THEN Finish("done").record ELSE Fresh

-----------------------------------------------------------------------------
(* Navigation on the map                                                   *)

TargetCells == {c \in Cells : map[c] = "target"}
DecoyCells  == {c \in Cells : map[c] = "decoy"}

\* _nearest_target_cell walks a hash set: any of the nearest cells may come first.
NearestTargets(from) ==
  {c \in TargetCells : \A n \in TargetCells : Distance(from, c) <= Distance(from, n)}

\* The first of the nearest cells of _DELIVERY_ZONE, which is listed row by row.
NearestZone(from) ==
  CHOOSE c \in Zone : \A n \in Zone \ {c} :
    \/ Distance(from, c) < Distance(from, n)
    \/ Distance(from, c) = Distance(from, n) /\ (c[2] < n[2] \/ (c[2] = n[2] /\ c[1] < n[1]))

\* The cells, as many steps from a goal as a neighbour of `from` that is nearest to one.
Shore(from, goals, free) ==
  LET flood[s \in (SUBSET Cells) \X (SUBSET Cells)] ==
        LET next == ({Ahead(c, d) : c \in s[1], d \in Directions} \cap free) \ s[2]
        IN  IF s[1] = {} \/ \E d \in Directions : Ahead(from, d) \in s[1] THEN s[1]
            ELSE flood[<<next, s[2] \cup next>>]
  IN  flood[<<goals, goals>>]

FirstSteps(from, goals, free) ==
  LET shore == Shore(from, goals, free)
  IN  {d \in Directions : Ahead(from, d) \in shore}

\* _dir_to_action.
Face(d, wanted) ==
  CASE d = wanted -> "move_forward"
    [] (d + 3) % 4 = wanted -> "turn_left"
    [] OTHER -> "turn_right"

\* _smart_nav_hint, for a goal that is walled in.
Hint(a, goal) ==
  LET dx == goal[1] - believed[a][1]
      dy == goal[2] - believed[a][2]
      across == dx # 0 /\ Distance(<<dx, 0>>, <<0, 0>>) >= Distance(<<0, dy>>, <<0, 0>>)
      first  == IF across THEN IF dx > 0 THEN RIGHT ELSE LEFT
                ELSE IF dy > 0 THEN DOWN ELSE UP
      second == IF across THEN IF dy >= 0 THEN DOWN ELSE UP
                ELSE IF dx >= 0 THEN RIGHT ELSE LEFT
      open(d) == LET c == Ahead(believed[a], d) IN c \notin Cells \/ map[c] # "wall"
  IN  CASE open(first) -> first
        [] ~open(first) /\ open(second) -> second
        [] ~open(first) /\ ~open(second) ->
             IF open((second + 2) % 4) THEN (second + 2) % 4 ELSE (first + 2) % 4

\* _bfs_next_action: of the shortest ways through what is not known to be wall, the one
\* whose first direction comes first.
Toward(a, goal) ==
  LET free == {c \in Cells : map[c] # "wall"}
      ways == FirstSteps(believed[a], {goal} \cap free, free)
  IN  IF goal = believed[a] THEN "stay"
      ELSE Face(facing[a], IF ways = {} THEN Hint(a, goal) ELSE Min(ways))

\* _frontier_explore: to the nearest unknown cell over cells known to be free.
Frontier(a) ==
  LET unknown == {c \in Cells : map[c] = "unknown"}
      ways == FirstSteps(believed[a], unknown \ {believed[a]},
                         {c \in Cells : map[c] \in {"empty", "zone"}})
  IN  IF ways = {} THEN "turn_right" ELSE Face(facing[a], Min(ways))

\* _check_stuck: after StuckLimit rounds in one place it prescribes a turn.
UnlessStuck(s, a, action) ==
  LET stuck == IF s.prev = believed[a] THEN s.stuck + 1 ELSE 0
  IN  IF stuck >= StuckLimit
      THEN Answer("turn_left", [s EXCEPT !.prev = believed[a], !.stuck = 0])
      ELSE Answer(action, [s EXCEPT !.prev = believed[a], !.stuck = stuck])

\* A walk that has not used up its budget goes on.
Walk(s, a, goal) ==
  LET t == [s EXCEPT !.steps = @ + 1]
  IN  IF t.steps >= SkillBudget THEN Finish("blocked")
      ELSE UnlessStuck(t, a, Toward(a, goal))

-----------------------------------------------------------------------------
(* The skills: the answers each may give                                   *)

FrontCell(a) == Look(grid, Ahead(at[a], facing[a]))

GotoTarget(s, a) ==
  IF FrontCell(a) = "target" THEN {Finish("at_target")}
  ELSE IF TargetCells = {} THEN {Finish("none_known")}
  ELSE {Walk(s, a, goal) : goal \in NearestTargets(believed[a])}

GotoDelivery(s, a) ==
  IF believed[a] \in Zone THEN {Finish("at_delivery")}
  ELSE {Walk(s, a, NearestZone(believed[a]))}

Pick(s, a) ==
  {CASE carry[a] # Nothing -> Finish("picked_solo")
     [] carry[a] = Nothing /\ engaged[a] # {} -> Finish("latched_coop")
     [] carry[a] = Nothing /\ engaged[a] = {} ->
          IF s.begun THEN Finish("failed") ELSE Answer("pick", [s EXCEPT !.begun = TRUE])}

\* Mutant: the drop is tried whatever the belief says.
DropBlind(s, a) ==
  {IF s.begun THEN Finish(IF claimed[a] # {} THEN "delivered" ELSE "dropped")
   ELSE Answer("drop", [s EXCEPT !.begun = TRUE])}

\* Whatever the agent delivered before counts; a latch is not let go.
Drop(s, a) ==
  {CASE s.begun -> Finish(IF claimed[a] # {} THEN "delivered" ELSE "dropped")
     [] ~s.begun /\ carry[a] = Nothing -> Finish("nothing")
     [] ~s.begun /\ carry[a] # Nothing -> Answer("drop", [s EXCEPT !.begun = TRUE])}

\* One leg of the joint carry.  Each agent finds its way from its own position, and says
\* "moved" in the round that would press forward a second time.
CooperativeMove(s, a) ==
  LET t == [s EXCEPT !.steps = @ + 1]
      go == Toward(a, NearestZone(believed[a]))
      next == UnlessStuck(t, a, go)
  IN  {IF believed[a] \in Zone THEN Finish("arrived")
       ELSE IF (\E b \in Agents : engaged[b] = {}) \/ t.steps >= SkillBudget
            THEN Finish("waiting_partner")
       ELSE IF next.action # go THEN next
       ELSE IF go = "move_forward" /\ t.steps > 1 THEN Finish("moved")
       ELSE next}

\* What the map shows at the first round is nothing new.
Explore(s, a) ==
  LET t == [s EXCEPT !.begun = TRUE,
                     !.targets = IF s.begun THEN @ ELSE TargetCells,
                     !.decoys = IF s.begun THEN @ ELSE DecoyCells]
      u == [t EXCEPT !.steps = @ + 1]
  IN  {CASE ~(TargetCells \subseteq t.targets) -> Finish("found_target")
         [] TargetCells \subseteq t.targets /\ ~(DecoyCells \subseteq t.decoys) ->
              Finish("found_decoy")
         [] OTHER -> IF u.steps >= ExploreBudget THEN Finish("explored")
                     ELSE UnlessStuck(u, a, Frontier(a))}

Answers(a) ==
  LET s == record[a]
  IN  IF s.done THEN {Answer("stay", s)}
      ELSE CASE skill[a] = "explore"        -> Explore(s, a)
             [] skill[a] = "goto_target"    -> GotoTarget(s, a)
             [] skill[a] = "goto_delivery"  -> GotoDelivery(s, a)
             [] skill[a] = "pick"           -> Pick(s, a)
             [] skill[a] = "drop"           -> Drop(s, a)
             [] skill[a] = "cooperate_move" -> CooperativeMove(s, a)

-----------------------------------------------------------------------------
(* The cycle                                                               *)

CommanderInit ==
  /\ BeliefInit
  /\ phase = "planning"
  /\ skill = [a \in Agents |-> "wait"]
  /\ record = [a \in Agents |-> Opening("wait")]

AllDone == \A a \in Agents : record[a].done

\* The model is asked and its reply is parsed.
Plan ==
  /\ phase = "planning" /\ ~Over
  /\ phase' = "running"
  /\ skill' \in [Agents -> Skills]
  /\ record' = [a \in Agents |-> Opening(skill'[a])]
  /\ UNCHANGED beliefVars

\* One primitive step of the inner loop.
Round ==
  /\ phase = "running" /\ ~AllDone /\ ~Over
  /\ \E x \in Answers(Agent0), y \in Answers(Agent1) :
       /\ BeliefStep(Both(x.action, y.action))
       /\ record' = Both(x.record, y.record)
  /\ UNCHANGED <<phase, skill>>

\* The skills are dropped; their labels go into the next prompt.
Return ==
  /\ phase = "running" /\ AllDone /\ ~Over
  /\ phase' = "planning"
  /\ skill' = [a \in Agents |-> "wait"]
  /\ record' = [a \in Agents |-> Opening("wait")]
  /\ UNCHANGED beliefVars

\* The episode is over; a skill under way is reported as in progress.
Close == Over /\ UNCHANGED vars

CommanderNext == Plan \/ Round \/ Return \/ Close

CommanderSpec == CommanderInit /\ [][CommanderNext]_vars

-----------------------------------------------------------------------------
(* Properties                                                              *)

\* Until both hold the heavy package every agent is where it believes to be, and the map
\* they share calls wall what is wall and has lost no box that is drawn, whoever saw it and
\* whoever looked there last.
MapTells ==
  holders # Agents =>
    /\ believed = at
    /\ \A c \in Cells \ Floor : map[c] \in {"unknown", "wall"}
    /\ \A c \in Floor : /\ map[c] # "wall"
                        /\ IsBox(grid[c]) => map[c] \in {"unknown", grid[c]}

NoDecoyTaken == \A o \in Packages \ Targets : grid[pos[o]] = "decoy"

\* Until both hold the heavy package or somebody picks up a decoy, what an agent believes to
\* carry, to hold or to have delivered it does carry, does hold, and is delivered.
BeliefIsReal ==
  holders # Agents /\ NoDecoyTaken => \A a \in Agents :
    /\ carry[a] # Nothing => carrying[a] = carry[a]
    /\ engaged[a] # {} => a \in holders /\ engaged[a] = {Heavy}
    /\ claimed[a] \subseteq delivered

\* The agent that is updated first notices whatever it takes that is drawn, whatever its
\* partner does and sees in the same step.
FirstNotices ==
  [][NoDecoyTaken' =>
       /\ carrying[Agent0] = Nothing /\ carrying'[Agent0] # Nothing =>
            (IsBox(grid[pos[carrying'[Agent0]]]) => carry'[Agent0] = carrying'[Agent0])
       /\ Agent0 \in holders' \ holders => engaged'[Agent0] = {Heavy}]_vars

\* What an agent took without noticing it keeps for good, since no skill drops what it
\* does not believe to carry.
MissedIsKept ==
  [][\A a \in Agents : carry[a] = Nothing => carrying'[a] \in {carrying[a]} \cup
       IF carrying[a] = Nothing THEN Packages ELSE {}]_vars

\* A pick that reports "failed" has taken and latched onto nothing (skill_executor.py,
\* PickSkill: the outcome read from the belief).
PickReports ==
  \A a \in Agents : skill[a] = "pick" /\ record[a].label = "failed" =>
    carrying[a] = Nothing /\ a \notin holders

=============================================================================
