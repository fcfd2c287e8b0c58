---------------------------- MODULE BoxPushSkills ----------------------------
(***************************************************************************)
(* The skills of BoxPush as step machines over the exact world             *)
(* (box_push/env/skill_executor_push.py and custom_env/shared_skills.py),  *)
(* fed the way BoxPushV1Adapter._entities_for feeds them.                  *)
(*                                                                         *)
(* A skill is asked for one primitive action per round.  It answers from   *)
(* the present world and its own record, and hands back both the action    *)
(* and the record to keep.  The skills of one round all see the same       *)
(* world.                                                                  *)
(***************************************************************************)
EXTENDS BoxPushWorld

CONSTANTS
  GotoBudget, PushBudget, CoopBudget, ExploreBudget,  \* _MAX_STEPS
  NoProgress,   \* _NO_PROGRESS of GotoPushPoseSkill
  WaitLimit,    \* _WAIT_LIMIT of CooperativePushSkill
  StuckLimit    \* rounds in one place after which _check_stuck turns the agent

ASSUME SkillBoundsAssumption ==
  /\ {GotoBudget, PushBudget, CoopBudget, ExploreBudget} \subseteq Nat \ {0}
  /\ {NoProgress, WaitLimit, StuckLimit} \subseteq Nat \ {0}

\* A corner of the wall stands for the cell that is not there.
NoCell == <<0, 0>>

\* Farther than any two cells of the floor are apart.
Far == Width + Height

Labels ==
  {"none", "in_position", "none_known", "blocked", "delivered", "pushed", "too_heavy",
   "waiting_partner", "found_target", "explored", "done"}

Records ==
  [done : BOOLEAN, label : Labels, calls : Nat, steps : Nat,
   prev : Floor \cup {NoCell}, stuck : Nat,
   seen : SUBSET Floor, stale : Nat,
   issued : BOOLEAN, start : Floor \cup {NoCell}, land : Int \X Int,
   wait : Nat, best : Int]

Fresh ==
  [done |-> FALSE, label |-> "none", calls |-> 0, steps |-> 0,
   prev |-> NoCell, stuck |-> 0, seen |-> {}, stale |-> 0,
   issued |-> FALSE, start |-> NoCell, land |-> NoCell, wait |-> 0, best |-> Far]

\* WaitSkill is born done.
Waited == [Fresh EXCEPT !.done = TRUE, !.label = "done"]

Answer(action, s) == [action |-> action, record |-> s]

Finish(s, label) == Answer("stay", [s EXCEPT !.done = TRUE, !.label = label])

-----------------------------------------------------------------------------
(* What a skill sees, and navigation                                       *)

Targets == {box[b] : b \in Boxes \ delivered}

\* Ties go to the first cell of a scan by columns.
Nearest(cells, from) ==
  CHOOSE n \in cells : \A m \in cells \ {n} :
    \/ Distance(from, n) < Distance(from, m)
    \/ /\ Distance(from, n) = Distance(from, m)
       /\ n[1] < m[1] \/ (n[1] = m[1] /\ n[2] < m[2])

\* _push_dir_toward_goal.
PushDir(cell) ==
  LET goal == Nearest(GoalZone, cell)
      dx == goal[1] - cell[1]
      dy == goal[2] - cell[2]
      ax == Distance(<<cell[1], 0>>, <<goal[1], 0>>)
      ay == Distance(<<0, cell[2]>>, <<0, goal[2]>>)
  IN  IF ax >= ay /\ dx # 0 THEN IF dx > 0 THEN RIGHT ELSE LEFT
      ELSE IF dy # 0 THEN IF dy > 0 THEN DOWN ELSE UP
      ELSE LEFT

Behind(cell, n) == Toward(cell, PushDir(cell), -n)

\* Mutant: no fallback.
ResolveBoxOnly(a, cell) == IF cell \in Targets \ GoalZone THEN cell ELSE NoCell

\* The grounded box while it stands in its cell, else the nearest target: from its first
\* move on the box of a cooperative push is found as the nearest.
ResolveBox(a, cell) ==
  LET pending == Targets \ GoalZone
  IN  IF cell \in pending THEN cell
      ELSE IF pending = {} THEN NoCell
      ELSE Nearest(pending, at[a])

\* Mutant: the other agent's cell looks empty.
PassableThroughAgents(a) == Floor \ Targets

\* Navigation goes around the other agent and all boxes.
Passable(a) == Floor \ ({at[other] : other \in Agents \ {a}} \cup Targets)

\* The cells from which `goal` is reached in as few steps as from a neighbour of `from`.
Shore(from, goal, free) ==
  LET flood[s \in (SUBSET Floor) \X (SUBSET Floor)] ==
        LET next == ({Ahead(c, d) : c \in s[1], d \in Directions} \cap free) \ s[2]
        IN  IF s[1] = {} \/ \E d \in Directions : Ahead(from, d) \in s[1] THEN s[1]
            ELSE flood[<<next, s[2] \cup next>>]
  IN  flood[<<{goal} \cap free, {goal} \cap free>>]

\* _dir_to_action.
Face(d, wanted) ==
  CASE d = wanted -> "move_forward"
    [] (d + 3) % 4 = wanted -> "turn_left"
    [] OTHER -> "turn_right"

\* The queue of _bfs_avoid_boxes finds, of the shortest ways, the one whose first
\* direction comes first; without a way the agent turns to scan.
Navigate(a, goal) ==
  LET shore == Shore(at[a], goal, Passable(a))
      ways == {d \in Directions : Ahead(at[a], d) \in shore}
  IN  IF ways = {} THEN "turn_right" ELSE Face(facing[a], Min(ways))

\* _check_stuck: after StuckLimit rounds in one place it prescribes a turn.
StuckFor(s, a) == IF s.prev = at[a] THEN s.stuck + 1 ELSE 0

UnlessStuck(s, a, action) ==
  LET stuck == StuckFor(s, a)
  IN  IF stuck >= StuckLimit
      THEN Answer("turn_left", [s EXCEPT !.prev = at[a], !.stuck = 0])
      ELSE Answer(action, [s EXCEPT !.prev = at[a], !.stuck = stuck])

-----------------------------------------------------------------------------
(* The skills                                                              *)

\* Rounds since the agent last reached a cell for the first time.
Stale(s, a) == IF at[a] \in s.seen THEN s.stale + 1 ELSE 0

\* Turning in the pose is not counted as a step.
GotoPushPose(s, a, cell) ==
  LET target == ResolveBox(a, cell)
      dir == PushDir(target)
      pose == Behind(target, 1)
      t == [s EXCEPT !.seen = @ \cup {at[a]}, !.stale = Stale(s, a)]
      u == [t EXCEPT !.steps = @ + 1]
  IN  CASE target = NoCell -> Finish(s, "none_known")
        [] target # NoCell /\ at[a] = pose ->
             IF facing[a] = dir THEN Finish(s, "in_position")
             ELSE Answer(Face(facing[a], dir), s)
        [] OTHER ->
             IF t.stale >= NoProgress THEN Finish(t, "blocked")
             ELSE IF u.steps >= GotoBudget THEN Finish(u, "blocked")
             ELSE UnlessStuck(u, a, Navigate(a, pose))

\* What lies beyond the box tells blocked from too heavy.
PushVerdict(s, a) ==
  IF s.land \notin Floor \/ s.land \in Targets \cup {at[other] : other \in Agents \ {a}}
  THEN "blocked" ELSE "too_heavy"

\* Mutant: the landing cell of the agent is taken for that of the box.
LandingOfAgent(a) == Ahead(at[a], facing[a])

\* Where the box in front of the agent comes to lie.
Landing(a) == Toward(at[a], facing[a], 2)

\* The front cell comes from the drawn grid, so a ghost looks like a box.
IssuePush(s, a) ==
  LET t == [s EXCEPT !.issued = FALSE, !.steps = @ + 1]
  IN  IF Ahead(at[a], facing[a]) \notin shown
      THEN Finish([s EXCEPT !.issued = FALSE], "blocked")
      ELSE IF t.steps >= PushBudget THEN Finish(t, "pushed")
      ELSE Answer("move_forward",
                  [t EXCEPT !.issued = TRUE, !.start = at[a], !.land = Landing(a)])

\* With dest=None the push goes on until the box lands in the zone or stops.
Push(s, a) ==
  LET t == [s EXCEPT !.issued = FALSE]
  IN  CASE ~s.issued -> IssuePush(s, a)
        [] s.issued /\ at[a] # Ahead(s.start, facing[a]) -> Finish(t, PushVerdict(s, a))
        [] s.issued /\ at[a] = Ahead(s.start, facing[a]) ->
             IF s.land \in GoalZone THEN Finish(t, "delivered") ELSE IssuePush(s, a)

Partner(a) == IF a = Agent0 THEN Agent1 ELSE Agent0

\* Whoever is nearer to the front slot takes it; ties go to agent_0.
TakesFront(a, target) ==
  LET mine == Distance(at[a], Behind(target, 1))
      theirs == Distance(at[Partner(a)], Behind(target, 1))
  IN  mine < theirs \/ (mine = theirs /\ a = Agent0)

Slot(a, target) == Behind(target, IF TakesFront(a, target) THEN 1 ELSE 2)

PartnerSlot(a, target) == Behind(target, IF TakesFront(a, target) THEN 2 ELSE 1)

InPlace(a, slot, target) == at[a] = slot /\ facing[a] = PushDir(target)

\* In its slot an agent waits while its partner comes closer.
AwaitPartner(s, a, target) ==
  LET away == Distance(at[Partner(a)], PartnerSlot(a, target))
      t == [s EXCEPT !.wait = @ + 1]
  IN  IF away < s.best THEN Answer("stay", [s EXCEPT !.best = away, !.wait = 0])
      ELSE IF t.wait >= WaitLimit THEN Finish(t, "waiting_partner")
      ELSE Answer("stay", t)

TakeSlot(s, a, target) ==
  LET t == [s EXCEPT !.wait = 0, !.best = Far]
  IN  IF at[a] = Slot(a, target) THEN Answer(Face(facing[a], PushDir(target)), t)
      ELSE UnlessStuck(t, a, Navigate(a, Slot(a, target)))

CoopRound(s, a, target) ==
  LET t == [s EXCEPT !.issued = FALSE, !.steps = @ + 1]
      ready == InPlace(a, Slot(a, target), target)
  IN  IF t.steps >= CoopBudget THEN Finish(t, "waiting_partner")
      ELSE IF ready /\ InPlace(Partner(a), PartnerSlot(a, target), target)
      THEN Answer("move_forward",
                  [t EXCEPT !.wait = 0, !.best = Far, !.issued = TRUE, !.start = at[a],
                            !.land = Ahead(target, PushDir(target))])
      ELSE IF ready THEN AwaitPartner(t, a, target)
      ELSE TakeSlot(t, a, target)

\* Both partners choose target, roles and action on their own.
CooperativePush(s, a, cell) ==
  LET target == ResolveBox(a, cell)
      dest == Ahead(target, PushDir(target))
  IN  CASE target = NoCell -> Finish(s, "none_known")
        [] target # NoCell /\ (dest \notin Floor \/ dest = at[Partner(a)]) ->
             Finish(s, "blocked")
        [] target # NoCell /\ \E n \in 1 .. 2 : Behind(target, n) \notin Floor \ Targets ->
             Finish(s, "blocked")
        [] OTHER ->
             IF s.issued /\ at[a] # s.start /\ s.land \in GoalZone
             THEN Finish([s EXCEPT !.issued = FALSE], "delivered")
             ELSE CoopRound(s, a, target)

\* Mutant: the rounds are not counted.
ExploreUncounted(s, a) ==
  IF s.steps + 1 >= ExploreBudget THEN Finish(s, "explored")
  ELSE UnlessStuck(s, a, "turn_right")

\* The exact grid has no unknown cell, so there is no frontier and the agent scans.
\* `seen` holds the targets of the first round.
Explore(s, a) ==
  LET t == [s EXCEPT !.seen = IF s.calls = 0 THEN Targets ELSE @, !.steps = @ + 1]
  IN  IF s.calls > 0 /\ Targets \ s.seen # {} THEN Finish(s, "found_target")
      ELSE IF t.steps >= ExploreBudget THEN Finish(t, "explored")
      ELSE UnlessStuck(t, a, "turn_right")

=============================================================================
