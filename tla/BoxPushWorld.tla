---------------------------- MODULE BoxPushWorld ----------------------------
(***************************************************************************)
(* The authoritative BoxPush world: one joint primitive step of            *)
(* MultiAgentBoxPushEnv (functional_layer/custom_env/box_push/env) over    *)
(* the frozen V1 cast of two agents and boxes that are all targets.        *)
(*                                                                         *)
(* A step is one atomic call that resolves its parts in a fixed order:     *)
(* turns, tandem pushes, the movers one after the other, delivery,         *)
(* termination.  A placement p = [at, box, shown] is what the movement     *)
(* phases hand on; `shown` is the drawn grid, of which only the cells that *)
(* render as a package are kept.  max_steps is not counted: the episode    *)
(* may be truncated at any step.                                           *)
(***************************************************************************)
EXTENDS Integers, FiniteSetsExt

CONSTANTS
  Agent0, Agent1,    \* the agents, in the order step() goes through them
  Boxes,
  Required,          \* required_agents of every box
  Width, Height,
  GoalZone,          \* the cells of the delivery zone
  AgentStart,        \* where reset() puts every agent
  BoxStart           \* where reset() puts every box

Agents == {Agent0, Agent1}
Floor  == (1 .. Width - 2) \X (1 .. Height - 2)

RIGHT == 0
DOWN  == 1
LEFT  == 2
UP    == 3
Directions == {RIGHT, DOWN, LEFT, UP}

Actions == {"turn_left", "turn_right", "move_forward", "stay"}

ASSUME AgentsAssumption == Agent0 # Agent1
ASSUME SizeAssumption == Width \in Nat /\ Height \in Nat
ASSUME RequiredAssumption == Required \in [Boxes -> Nat \ {0}]
ASSUME ZoneAssumption == GoalZone \subseteq Floor
ASSUME StartAssumption ==
  /\ AgentStart \in [Agents -> Floor] /\ BoxStart \in [Boxes -> Floor \ GoalZone]
  /\ AgentStart[Agent0] # AgentStart[Agent1]
  /\ \A b \in Boxes, a \in Agents : BoxStart[b] # AgentStart[a]
  /\ \A b, c \in Boxes : b # c => BoxStart[b] # BoxStart[c]

VARIABLES
  at,          \* position of every agent
  facing,      \* direction of every agent
  box,         \* position of every box
  delivered,   \* the delivered boxes
  terminated,  \* every target is delivered
  truncated,   \* max_steps was reached
  shown        \* the cells the grid renders as a package

worldVars == <<at, facing, box, delivered, terminated, truncated, shown>>

TypeOK ==
  /\ at \in [Agents -> Floor]
  /\ facing \in [Agents -> Directions]
  /\ box \in [Boxes -> Floor]
  /\ delivered \subseteq Boxes
  /\ terminated \in BOOLEAN /\ truncated \in BOOLEAN
  /\ shown \subseteq Floor

-----------------------------------------------------------------------------
(* Geometry                                                                *)

Toward(cell, d, n) ==
  << cell[1] + (CASE d = RIGHT -> n [] d = LEFT -> -n [] OTHER -> 0),
     cell[2] + (CASE d = DOWN -> n [] d = UP -> -n [] OTHER -> 0) >>

Ahead(cell, d) == Toward(cell, d, 1)

\* Mutant: a delivered box still collides.
BoxesAtAny(p, cell) == {b \in Boxes : p.box[b] = cell}

\* A delivered box is a ghost: nothing collides with it.
BoxesAt(p, cell) == {b \in Boxes \ delivered : p.box[b] = cell}

FreeForAgent(p, a, cell) ==
  /\ cell \in Floor
  /\ \A other \in Agents \ {a} : p.at[other] # cell
  /\ BoxesAt(p, cell) = {}

\* Mutant: the agents are not looked at.
FreeOfBoxes(p, cell) == cell \in Floor /\ BoxesAt(p, cell) = {}

FreeForBox(p, cell) ==
  /\ cell \in Floor
  /\ \A a \in Agents : p.at[a] # cell
  /\ BoxesAt(p, cell) = {}

-----------------------------------------------------------------------------
(* The phases of a step                                                    *)

Turned(d, action) ==
  CASE action = "turn_left"  -> (d + 3) % 4
    [] action = "turn_right" -> (d + 1) % 4
    [] OTHER -> d

\* Mutant: the box leaves the drawn grid when it slides.
SlideUndrawn(p, b, to) ==
  [p EXCEPT !.box[b] = to, !.shown = @ \ {p.box[b]}]

SlideBox(p, b, to) ==
  [p EXCEPT !.box[b] = to, !.shown = (@ \ {p.box[b]}) \cup {to}]

\* The marker of the agent hides whatever the grid showed there.
Advance(p, a, cell) == [p EXCEPT !.at[a] = cell, !.shown = @ \ {cell}]

\* A tandem: front directly behind the box, rear directly behind front, both
\* moving and facing it, and the cell beyond the box is free.
Tandem(p, look, movers, b, front, rear) ==
  /\ b \notin delivered /\ Required[b] >= 2
  /\ front # rear /\ front \in movers /\ rear \in movers
  /\ look[rear] = look[front]
  /\ p.at[front] = Toward(p.box[b], look[front], -1)
  /\ p.at[rear] = Toward(p.box[b], look[front], -2)
  /\ FreeForBox(p, Ahead(p.box[b], look[front]))

\* Two agents form at most one tandem.
Tandems(p, look, movers) ==
  {t \in Boxes \X Agents \X Agents : Tandem(p, look, movers, t[1], t[2], t[3])}

TandemPush(p, look, t) ==
  LET to == Ahead(p.box[t[1]], look[t[2]])
      moved == [p EXCEPT !.at = [a \in Agents |-> Ahead(p.at[a], look[t[2]])]]
  IN  SlideBox(moved, t[1], to)

\* Mutants: a lone agent moves a heavy box; the pusher does not follow the box.
MoveOneStrong(p, look, a) ==
  LET cell == Ahead(p.at[a], look[a])
      land == Ahead(cell, look[a])
  IN  IF BoxesAt(p, cell) = {}
      THEN IF FreeForAgent(p, a, cell) THEN Advance(p, a, cell) ELSE p
      ELSE LET b == CHOOSE b \in BoxesAt(p, cell) : TRUE
           IN  IF FreeForBox(p, land)
               THEN Advance(SlideBox(p, b, land), a, cell) ELSE p

\* One mover: a plain move, a light push, or a failure that changes nothing.
MoveOne(p, look, a) ==
  LET cell == Ahead(p.at[a], look[a])
      land == Ahead(cell, look[a])
  IN  IF BoxesAt(p, cell) = {}
      THEN IF FreeForAgent(p, a, cell) THEN Advance(p, a, cell) ELSE p
      ELSE LET b == CHOOSE b \in BoxesAt(p, cell) : TRUE
           IN  IF Required[b] = 1 /\ FreeForBox(p, land)
               THEN Advance(SlideBox(p, b, land), a, cell) ELSE p

MoveIf(p, look, movers, a) == IF a \in movers THEN MoveOne(p, look, a) ELSE p

\* A mover that took part in a tandem push does not move again.
ResolvePushes(p, look, movers) ==
  IF Tandems(p, look, movers) # {}
  THEN TandemPush(p, look, CHOOSE t \in Tandems(p, look, movers) : TRUE)
  ELSE MoveIf(MoveIf(p, look, movers, Agent0), look, movers, Agent1)

Deliveries(p) == delivered \cup {b \in Boxes : p.box[b] \in GoalZone}

-----------------------------------------------------------------------------
(* The episode                                                             *)

Init ==
  /\ at = AgentStart
  /\ facing = [a \in Agents |-> LEFT]
  /\ box = BoxStart
  /\ delivered = {}
  /\ terminated = FALSE /\ truncated = FALSE
  /\ shown = {BoxStart[b] : b \in Boxes}

Over == terminated \/ truncated

\* Every caller stops at the end of the episode (BoxPushV1Adapter._drive).
Step(joint) ==
  /\ ~Over
  /\ facing' = [a \in Agents |-> Turned(facing[a], joint[a])]
  /\ LET p == ResolvePushes([at |-> at, box |-> box, shown |-> shown], facing',
                            {a \in Agents : joint[a] = "move_forward"})
     IN  /\ at' = p.at /\ box' = p.box /\ shown' = p.shown
         /\ delivered' = Deliveries(p)
  /\ terminated' = (Boxes # {} /\ delivered' = Boxes)
  /\ truncated' \in BOOLEAN

Ended == Over /\ UNCHANGED worldVars

Next == (\E joint \in [Agents -> Actions] : Step(joint)) \/ Ended

Spec == Init /\ [][Next]_worldVars

-----------------------------------------------------------------------------
(* Properties                                                              *)

\* The agents and the undelivered boxes never share a cell, although the moves of
\* one step are resolved one after the other on a half-updated world.
NoOverlap ==
  /\ at[Agent0] # at[Agent1]
  /\ \A b \in Boxes \ delivered :
       /\ \A a \in Agents : box[b] # at[a]
       /\ \A c \in Boxes \ delivered : b # c => box[b] # box[c]

\* What world_grid_divergence reports: a piece whose cell shows something else.
Divergence ==
  {b \in Boxes \ delivered : box[b] \notin shown} \cup {a \in Agents : at[a] \in shown}

\* The drawn grid never loses a piece, and a package it shows without an
\* undelivered box is the ghost of a delivered one.
GridTracksWorld ==
  /\ Divergence = {}
  /\ shown \subseteq {box[b] : b \in Boxes}

\* A box counts as delivered exactly while it stands in the zone, and the episode
\* terminates exactly when all do: a delivery cannot be missed or revoked.
DeliveredInZone ==
  /\ \A b \in Boxes : b \in delivered <=> box[b] \in GoalZone
  /\ terminated <=> Boxes # {} /\ delivered = Boxes

\* A delivered box stays delivered, and where it is, whatever walks over it.
DeliveredRests ==
  [][\A b \in delivered : b \in delivered' /\ box'[b] = box[b]]_worldVars

\* A heavy box moves only together with both agents, by one cell along the way they
\* both face, and leaves them lined up behind it for the next push.
HeavyMovesInTandem ==
  [][\A b \in Boxes : Required[b] >= 2 /\ box'[b] # box[b] =>
       LET d == facing'[Agent0]
       IN  /\ facing'[Agent1] = d
           /\ box'[b] = Ahead(box[b], d)
           /\ \A a \in Agents : at'[a] = Ahead(at[a], d)
           /\ {at'[a] : a \in Agents} = {Toward(box'[b], d, -1), Toward(box'[b], d, -2)}
    ]_worldVars

Distance(c, d) ==
  LET abs(n) == IF n < 0 THEN -n ELSE n IN abs(c[1] - d[1]) + abs(c[2] - d[2])

=============================================================================
