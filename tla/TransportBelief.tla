--------------------------- MODULE TransportBelief ---------------------------
(***************************************************************************)
(* What the team of the Cooperative Search and Transport world sees and     *)
(* believes.                                                                *)
(*                                                                          *)
(* An observation is cut from the MiniGrid grid, a picture kept beside the  *)
(* state.  It tells nobody where it stands or what it holds.  The updater   *)
(* (middleware_layer/belief_updaters/deterministic_grid_updater.py)         *)
(* reckons both from the agent's own actions and rewards, and projects      *)
(* every view into ONE map that both agents share (cst_centralized.py,      *)
(* main).  An agent marker is read as an empty cell and drawn as one here;  *)
(* the number in a target's label is read by nobody but the prompt, and     *)
(* left out.                                                                *)
(***************************************************************************)
EXTENDS TransportWorld

CONSTANTS Width, Height    \* the size of the grid and of the map

Cells == (0 .. Width - 1) \X (0 .. Height - 1)

ASSUME GridAssumption ==
  Width \in Nat \ {0} /\ Height \in Nat \ {0} /\ Floor \subseteq Cells

VARIABLES
  grid,       \* the picture, core_env.grid
  believed,   \* the position every agent believes it is at
  carry,      \* the package it believes to carry, carrying_object_id
  engaged,    \* the packages it believes to be latched onto, engaged_object_ids
  claimed,    \* the packages it believes it delivered, delivered_object_ids
  map         \* the shared grid of labels

beliefVars == <<worldVars, grid, believed, carry, engaged, claimed, map>>

Labels == {"empty", "wall", "zone", "target", "decoy"}

BeliefTypeOK ==
  /\ TypeOK
  /\ grid \in [Cells -> Labels]
  /\ believed \in [Agents -> Cells]
  /\ carry \in [Agents -> Packages \cup {Nothing}]
  /\ engaged \in [Agents -> SUBSET Targets] /\ claimed \in [Agents -> SUBSET Targets]
  /\ map \in [Cells -> Labels \cup {"unknown"}]

-----------------------------------------------------------------------------
(* The picture and what is seen of it                                      *)

Box(o) == IF o \in Targets THEN "target" ELSE "decoy"

Painted ==
  [c \in Cells |->
     LET boxes == {o \in Packages : PackageStart[o] = c}
     IN  CASE c \notin Floor -> "wall"
           [] c \in Floor /\ boxes # {} -> Box(CHOOSE o \in boxes : TRUE)
           [] OTHER -> IF c \in Zone /\ \A a \in Agents : AgentStart[a] # c
                       THEN "zone" ELSE "empty"]

\* A step wipes out what is drawn where an agent walks and where a box is taken up; a hold
\* that breaks puts its box back, and nothing puts back that of a dropped package.
Redrawn(p) ==
  LET taken  == {o \in Light : carriedBy[o] = Nobody /\ p.carriedBy[o] # Nobody}
      joined == holders # Agents /\ p.holders = Agents
      broken == holders = Agents /\ p.holders # Agents
      wiped  == {p.at[a] : a \in Agents} \cup {pos[o] : o \in taken}
                \cup (IF joined THEN {pos[Heavy]} ELSE {})
      back   == IF broken THEN {p.pos[Heavy]} ELSE {}
  IN  [c \in Cells |-> IF c \in back THEN Box(Heavy)
                       ELSE IF c \in wiped THEN "empty" ELSE grid[c]]

Look(picture, cell) == IF cell \in Cells THEN picture[cell] ELSE "wall"

Vector == [d \in Directions |-> Ahead(<<0, 0>>, d)]

\* k cells ahead of a cell and s cells to its right.
Spot(cell, d, k, s) ==
  LET fwd == Vector[d]
      rgt == Vector[(d + 1) % 4]
  IN  << cell[1] + k * fwd[1] + s * rgt[1], cell[2] + k * fwd[2] + s * rgt[2] >>

View == ((0 .. 2) \X (-1 .. 1)) \ {<<0, 0>>}

\* Light passes everything but walls; the row before the agent and its sides are lit.
Image(picture, from, d) ==
  LET seen(k, side) == Look(picture, Spot(from, d, k, side))
      clear(k, side) == seen(k, side) # "wall"
      lit(k, side) ==
        \/ k < 2
        \/ clear(1, 0)
        \/ \E turn \in {-1, 1} : clear(1, turn) /\ (side \in {0, turn} \/ clear(2, 0))
  IN  [v \in View |-> IF lit(v[1], v[2]) THEN seen(v[1], v[2]) ELSE "dark"]

-----------------------------------------------------------------------------
(* The updater                                                             *)

Clamped(cell) == << Max({0, Min({Width - 1, cell[1]})}), Max({0, Min({Height - 1, cell[2]})}) >>

IsBox(label) == label \in {"target", "decoy"}

\* The belief b of one agent and the map of both.
Belief(a, m) ==
  [at |-> believed[a], carry |-> carry[a], engaged |-> engaged[a], claimed |-> claimed[a],
   map |-> m]

\* _resolve_target_id: an available target that takes so many agents, or else any.
Resolve(b, needed) ==
  LET available == Targets \ ({b.carry} \cup b.engaged \cup b.claimed)
      matching  == IF needed = 1 THEN available \cap Light ELSE available \cap {Heavy}
  IN  CASE matching # {} -> Min(matching)
        [] matching = {} /\ available # {} -> Min(available)
        [] OTHER -> Nothing

Walked(b, d) ==
  LET cell == Clamped(Ahead(b.at, d))
  IN  [b EXCEPT !.at = cell, !.map[cell] = IF IsBox(@) THEN "empty" ELSE @]

\* A rich reward is a package taken, a poor one a latch; it counts if the map shows a box.
Grasped(b, d, pay) ==
  LET front == Ahead(b.at, d)
      o == Resolve(b, IF ReadsCarried(pay) THEN 1 ELSE 2)
  IN  IF front \notin Cells \/ ~IsBox(b.map[front]) THEN b
      ELSE IF ReadsCarried(pay)
           THEN [b EXCEPT !.map[front] = "empty", !.carry = IF o = Nothing THEN @ ELSE o]
      ELSE IF o = Nothing THEN b
      ELSE [b EXCEPT !.engaged = @ \cup {o}, !.map[front] = "target"]

\* Mutant: the package is delivered wherever it is laid down.
LetGoAnywhere(b) ==
  LET laid == IF b.carry = Nothing THEN b
              ELSE [b EXCEPT !.claimed = @ \cup {b.carry}, !.carry = Nothing]
  IN  [laid EXCEPT !.engaged = {}]

\* The map tells whether a drop delivers.
LetGo(b) ==
  LET laid == IF b.carry = Nothing THEN b
              ELSE IF b.map[b.at] = "zone"
                   THEN [b EXCEPT !.claimed = @ \cup {b.carry}, !.carry = Nothing]
              ELSE [b EXCEPT !.map[b.at] = "target", !.carry = Nothing]
  IN  [laid EXCEPT !.engaged = {}]

\* Mutant: every step forward is believed, paid or not.
ReckonAlways(b, d, action, pay) ==
  CASE action = "move_forward" -> Walked(b, d)
    [] action = "pick" /\ pay > 0 -> Grasped(b, d, pay)
    [] action = "drop" -> LetGo(b)
    [] OTHER -> b

\* _apply_action: dead reckoning.
Reckon(b, d, action, pay) ==
  CASE action = "move_forward" /\ ReadsMoved(pay) -> Walked(b, d)
    [] action = "pick" /\ pay > 0 -> Grasped(b, d, pay)
    [] action = "drop" -> LetGo(b)
    [] OTHER -> b

\* The place in the view of an agent at `from` that a cell has.
Seat(cell, from, d) ==
  LET fwd == Vector[d]
      rgt == Vector[(d + 1) % 4]
      dx  == cell[1] - from[1]
      dy  == cell[2] - from[2]
  IN  << dx * fwd[1] + dy * fwd[2], dx * rgt[1] + dy * rgt[2] >>

\* _update_grid_from_image: the view is laid around the believed position.
Sweep(b, d, image) ==
  LET lit  == {v \in View : image[v] # "dark"}
      seen == {Spot(b.at, d, v[1], v[2]) : v \in lit} \cap Cells
  IN  [b EXCEPT !.map = [c \in Cells |-> IF c \in seen THEN image[Seat(c, b.at, d)]
                                         ELSE b.map[c]]]

\* Mutant: the view is laid before the action is reckoned.
SweptFirst(a, m, look, action, p, picture) ==
  Reckon(Sweep(Belief(a, m), look[a], Image(picture, p.at[a], look[a])), look[a],
         action, p.pay[a])

\* update_entity, after a step to a situation p that leaves the agents facing as in look.
Updated(a, m, look, action, p, picture) ==
  Sweep(Reckon(Belief(a, m), look[a], action, p.pay[a]), look[a],
        Image(picture, p.at[a], look[a]))

-----------------------------------------------------------------------------
(* One step of the team                                                    *)

\* The zone is all that is known of the arena.
BeliefInit ==
  /\ Init
  /\ grid = Painted
  /\ believed = at
  /\ carry = [a \in Agents |-> Nothing]
  /\ engaged = [a \in Agents |-> {}] /\ claimed = [a \in Agents |-> {}]
  /\ map = [c \in Cells |-> IF c \in Zone THEN "zone" ELSE "unknown"]

Both(x, y) == [a \in Agents |-> IF a = Agent0 THEN x ELSE y]

\* The agents write the map one after the other.
BeliefStep(joint) ==
  /\ Step(joint)
  /\ \E p \in {Resolved(joint)}, look \in {Looks(joint)} :
     \E picture \in {Redrawn(p)} :
     \E b0 \in {Updated(Agent0, map, look, joint[Agent0], p, picture)} :
     \E b1 \in {Updated(Agent1, b0.map, look, joint[Agent1], p, picture)} :
       /\ grid'     = picture
       /\ believed' = Both(b0.at, b1.at)
       /\ carry'    = Both(b0.carry, b1.carry)
       /\ engaged'  = Both(b0.engaged, b1.engaged)
       /\ claimed'  = Both(b0.claimed, b1.claimed)
       /\ map'      = b1.map

=============================================================================
