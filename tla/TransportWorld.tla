--------------------------- MODULE TransportWorld ---------------------------
(***************************************************************************)
(* The Cooperative Search and Transport world: one joint primitive step of *)
(* MultiAgentCooperativeSearchTransportEnv                                 *)
(* (custom_env/cooperative_search_transport/multi_agent_env.py) over the   *)
(* cast it always builds: two agents, one heavy package that both must     *)
(* hold, and packages that one agent carries.                              *)
(*                                                                         *)
(* A step is one atomic call that resolves its parts in a fixed order:     *)
(* turns and moves, picks and drops, the joint carry, the carried          *)
(* packages, the delivery of a held package, termination.  A situation p   *)
(* is what the phases hand on; p.pay is the reward of every agent in       *)
(* hundredths.  COOPERATE sets a flag that nothing reads and is a stay.    *)
(* max_steps is not counted: the episode may be truncated at any step.     *)
(***************************************************************************)
EXTENDS Integers, FiniteSetsExt

CONSTANTS
  Agent0, Agent1,    \* the agents, in the order step() goes through them
  Light,             \* the packages of required_agents = 1, by object_id
  Heavy,             \* the package of required_agents = 2
  Targets,           \* the packages with is_target
  Floor,             \* the cells that are not walls
  Zone,              \* static.delivery_zone
  AgentStart,        \* where reset() puts every agent
  PackageStart,      \* where reset() puts every package
  Nobody, Nothing    \* no carrier, no carried package

Agents   == {Agent0, Agent1}
Packages == Light \cup {Heavy}

RIGHT == 0
DOWN  == 1
LEFT  == 2
UP    == 3
Directions == {RIGHT, DOWN, LEFT, UP}

Actions == {"turn_left", "turn_right", "move_forward", "stay", "pick", "drop"}

ASSUME CastAssumption ==
  /\ Agent0 # Agent1 /\ Nobody \notin Agents
  /\ Light \subseteq Nat /\ Heavy \in Nat \ Light /\ Nothing \notin Packages
  /\ IsFiniteSet(Light) /\ Targets \subseteq Packages
ASSUME ArenaAssumption == Floor \subseteq Int \X Int /\ Zone \subseteq Floor
ASSUME PlacementAssumption ==
  /\ AgentStart \in [Agents -> Floor] /\ PackageStart \in [Packages -> Floor \ Zone]
  /\ AgentStart[Agent0] # AgentStart[Agent1]
  /\ \A o \in Packages, a \in Agents : PackageStart[o] # AgentStart[a]
  /\ \A o, q \in Packages : o # q => PackageStart[o] # PackageStart[q]

VARIABLES
  facing,      \* direction of every agent
  at,          \* position of every agent
  carrying,    \* carrying_object_id of every agent
  carriedBy,   \* carried_by of every package
  pos,         \* position of every package
  holders,     \* engaged_agents of the heavy package
  delivered,   \* the delivered packages
  count,       \* delivered_target_count
  terminated,  \* every target is delivered
  truncated    \* max_steps was reached

worldVars == <<facing, at, carrying, carriedBy, pos, holders, delivered, count,
               terminated, truncated>>

TypeOK ==
  /\ facing \in [Agents -> Directions]
  /\ at \in [Agents -> Floor]
  /\ carrying \in [Agents -> Packages \cup {Nothing}]
  /\ carriedBy \in [Packages -> Agents \cup {Nobody}]
  /\ pos \in [Packages -> Floor]
  /\ holders \subseteq Agents
  /\ delivered \subseteq Packages
  /\ count \in Nat
  /\ terminated \in BOOLEAN /\ truncated \in BOOLEAN

-----------------------------------------------------------------------------
(* Geometry                                                                *)

Ahead(cell, d) ==
  << cell[1] + (CASE d = RIGHT -> 1 [] d = LEFT -> -1 [] OTHER -> 0),
     cell[2] + (CASE d = DOWN -> 1 [] d = UP -> -1 [] OTHER -> 0) >>

Turned(d, action) ==
  CASE action = "turn_left"  -> (d + 3) % 4
    [] action = "turn_right" -> (d + 1) % 4
    [] OTHER -> d

-----------------------------------------------------------------------------
(* Holding and obstacles                                                   *)

FullHold(p) == p.holders = Agents

\* A package nobody carries or fully holds lies on the floor until it is delivered.
OnFloor(p) ==
  {o \in Packages \ p.delivered : p.carriedBy[o] = Nobody /\ (o = Heavy => ~FullHold(p))}

Pay(p, a, amount) == [p EXCEPT !.pay[a] = @ + amount]

\* Mutant: the other agent is no obstacle.
FreeOfPackages(p, a, cell) == cell \in Floor /\ \A o \in OnFloor(p) : p.pos[o] # cell

FreeForAgent(p, a, cell) ==
  /\ cell \in Floor
  /\ \A other \in Agents \ {a} : p.at[other] # cell
  /\ \A o \in OnFloor(p) : p.pos[o] # cell

-----------------------------------------------------------------------------
(* The phases of a step                                                    *)

\* Mutant: the members of a full hold also move on their own.
MovedAlone(p, look, a) ==
  LET cell == Ahead(p.at[a], look[a])
  IN  IF FreeForAgent(p, a, cell) THEN [p EXCEPT !.at[a] = cell] ELSE Pay(p, a, -10)

\* In a full hold an agent moves only with its partner, delivered or not.
Moved(p, look, a) ==
  LET cell == Ahead(p.at[a], look[a])
  IN  IF FullHold(p) THEN p
      ELSE IF FreeForAgent(p, a, cell) THEN [p EXCEPT !.at[a] = cell]
      ELSE Pay(p, a, -10)

\* Mutant: a second latch is paid like the first.
PickedAgain(p, look, a) ==
  LET front == Ahead(p.at[a], look[a])
      inReach == {o \in Packages \ p.delivered : p.carriedBy[o] = Nobody /\ p.pos[o] = front}
      o == Min(inReach)
  IN  IF p.carrying[a] # Nothing \/ inReach = {} THEN p
      ELSE IF o \in Light
           THEN Pay([p EXCEPT !.carriedBy[o] = a, !.carrying[a] = o], a, 10)
      ELSE Pay([p EXCEPT !.holders = @ \cup {a}], a, 5)

\* Free hands take the first package in front by object_id: a light one is carried, the
\* heavy one is latched onto, and a second latch changes nothing.
Picked(p, look, a) ==
  LET front == Ahead(p.at[a], look[a])
      inReach == {o \in Packages \ p.delivered : p.carriedBy[o] = Nobody /\ p.pos[o] = front}
      o == Min(inReach)
  IN  IF p.carrying[a] # Nothing \/ inReach = {} THEN p
      ELSE IF o \in Light
           THEN Pay([p EXCEPT !.carriedBy[o] = a, !.carrying[a] = o], a, 10)
      ELSE IF a \in p.holders THEN p
      ELSE Pay([p EXCEPT !.holders = @ \cup {a}], a, 5)

\* A drop lets go of the carried package, and of the heavy one only with empty hands.
Dropped(p, a) ==
  LET o == p.carrying[a]
      laid == [p EXCEPT !.pos[o] = p.at[a], !.carriedBy[o] = Nobody, !.carrying[a] = Nothing]
  IN  IF o = Nothing THEN [p EXCEPT !.holders = @ \ {a}]
      ELSE IF o \in Targets \ p.delivered /\ p.at[a] \in Zone
           THEN Pay([laid EXCEPT !.delivered = @ \cup {o}, !.count = @ + 1], a, 2000)
      ELSE laid

\* Every piece of the hold must find its next cell free, or vacated by the hold itself.
Feasible(p, d) ==
  LET vacated == {p.at[a] : a \in Agents}
  IN  \A cell \in {Ahead(c, d) : c \in vacated \cup {p.pos[Heavy]}} :
        cell \in Floor /\ (cell \in vacated \/ \A o \in OnFloor(p) : p.pos[o] # cell)

\* The hold moves when both holders press forward, facing the same way.
JointMoves(p, look, joint) ==
  /\ FullHold(p) /\ Heavy \notin p.delivered /\ p.carriedBy[Heavy] = Nobody
  /\ \A a \in Agents : joint[a] = "move_forward"
  /\ look[Agent0] = look[Agent1]
  /\ Feasible(p, look[Agent0])

CarriedJointly(p, look, joint) ==
  LET d == look[Agent0]
  IN  IF JointMoves(p, look, joint)
      THEN [p EXCEPT !.at = [a \in Agents |-> Ahead(p.at[a], d)],
                     !.pos[Heavy] = Ahead(p.pos[Heavy], d),
                     !.pay = [a \in Agents |-> p.pay[a] + 20]]
      ELSE p

Carrier(p, o) == {a \in Agents : p.carrying[a] = o}

Synced(p) ==
  [p EXCEPT !.pos = [o \in Packages |-> IF Carrier(p, o) = {} THEN p.pos[o]
                                        ELSE p.at[CHOOSE a \in Carrier(p, o) : TRUE]]]

\* Mutant, as in the copy under env/: whatever is in the zone is delivered, a package that
\* is still carried included.
AutoDeliveredCarried(p) ==
  LET arrived == {o \in Targets \ p.delivered : p.pos[o] \in Zone}
  IN  [p EXCEPT !.delivered = @ \cup arrived, !.count = @ + Cardinality(arrived),
                !.pay = [a \in Agents |-> p.pay[a] + (IF arrived = {} THEN 0 ELSE 2000)]]

\* Only the heavy package delivers itself, and only while somebody holds it.
AutoDelivered(p) ==
  IF /\ Heavy \in Targets \ p.delivered /\ p.carriedBy[Heavy] = Nobody
     /\ p.holders # {} /\ p.pos[Heavy] \in Zone
  THEN [p EXCEPT !.delivered = @ \cup {Heavy}, !.count = @ + 1,
                 !.pay = [a \in Agents |-> IF a \in p.holders THEN p.pay[a] + 2000
                                           ELSE p.pay[a]]]
  ELSE p

AllDelivered(p) == Targets \subseteq p.delivered

Rewarded(p) ==
  IF AllDelivered(p) THEN [p EXCEPT !.pay = [a \in Agents |-> p.pay[a] + 1000]] ELSE p

Travelled(p, look, joint, a) == IF joint[a] = "move_forward" THEN Moved(p, look, a) ELSE p

Handled(p, look, joint, a) ==
  CASE joint[a] = "pick" -> Picked(p, look, a)
    [] joint[a] = "drop" -> Dropped(p, a)
    [] OTHER -> p

Situation ==
  [at |-> at, carrying |-> carrying, carriedBy |-> carriedBy, pos |-> pos,
   holders |-> holders, delivered |-> delivered, count |-> count,
   pay |-> [a \in Agents |-> -1]]

\* The agents take their turns in each phase; nobody's turn of the head disturbs another.
Looks(joint) == [a \in Agents |-> Turned(facing[a], joint[a])]

Resolved(joint) ==
  LET look == Looks(joint)
      p1 == Travelled(Travelled(Situation, look, joint, Agent0), look, joint, Agent1)
      p2 == Handled(Handled(p1, look, joint, Agent0), look, joint, Agent1)
  IN  Rewarded(AutoDelivered(Synced(CarriedJointly(p2, look, joint))))

-----------------------------------------------------------------------------
(* The episode                                                             *)

Init ==
  /\ facing = [a \in Agents |-> LEFT]
  /\ at = AgentStart
  /\ carrying = [a \in Agents |-> Nothing]
  /\ carriedBy = [o \in Packages |-> Nobody]
  /\ pos = PackageStart
  /\ holders = {} /\ delivered = {} /\ count = 0
  /\ terminated = FALSE /\ truncated = FALSE

Over == terminated \/ truncated

\* Every driver stops at the end of the episode (cst_centralized.py, main).
Step(joint) ==
  /\ ~Over
  /\ facing' = Looks(joint)
  /\ LET p == Resolved(joint)
     IN  /\ at' = p.at /\ carrying' = p.carrying /\ carriedBy' = p.carriedBy
         /\ pos' = p.pos /\ holders' = p.holders
         /\ delivered' = p.delivered /\ count' = p.count
         /\ terminated' = AllDelivered(p)
  /\ truncated' \in BOOLEAN

Ended == Over /\ UNCHANGED worldVars

Next == (\E joint \in [Agents -> Actions] : Step(joint)) \/ Ended

Spec == Init /\ [][Next]_worldVars

-----------------------------------------------------------------------------
(* Properties                                                              *)

\* The agents never share a cell, whether they walk one after the other on the
\* half-updated world or are carried along by a joint move.
AgentsApart == at[Agent0] # at[Agent1]

CarryingAgrees ==
  /\ \A a \in Agents, o \in Packages : carrying[a] = o <=> carriedBy[o] = a
  /\ \A o \in Packages : carriedBy[o] # Nobody =>
       o \in Light \ delivered /\ pos[o] = at[carriedBy[o]]

DeliveriesCount ==
  /\ delivered \subseteq Targets /\ count = Cardinality(delivered)
  /\ \A o \in delivered : pos[o] \in Zone
  /\ terminated => Targets \subseteq delivered
  /\ delivered # {} /\ Targets \subseteq delivered => terminated

\* What is written twice agrees.  Carrier and package name each other, the package goes
\* where its carrier goes, nobody carries the heavy one, and a carried package is never
\* delivered under way; each delivered target is counted once and lies in the zone, and
\* the episode terminates exactly when no target is missing.
RecordsAgree == CarryingAgrees /\ DeliveriesCount

\* A delivered package is never taken up, moved or taken back, although the agents that
\* brought the heavy one still hold it.
DeliveredRests ==
  [][\A o \in delivered : o \in delivered' /\ pos'[o] = pos[o] /\ carriedBy'[o] = Nobody]_worldVars

Distance(c, d) ==
  LET abs(n) == IF n < 0 THEN -n ELSE n IN abs(c[1] - d[1]) + abs(c[2] - d[2])

Offset(c, d) == <<c[1] - d[1], c[2] - d[2]>>

\* The heavy package moves only in a full hold, together with both holders and by one
\* cell, so that a hold keeps its shape; and no step takes an agent further than one cell.
HoldIsRigid ==
  [][/\ \A a \in Agents : Distance(at[a], at'[a]) <= 1
     /\ pos'[Heavy] # pos[Heavy] => holders = Agents /\ holders' = Agents
     /\ holders = Agents => \A a \in Agents :
          Offset(at'[a], pos'[Heavy]) = Offset(at[a], pos[Heavy])
    ]_worldVars

\* How the belief updater and the prompt read a reward (deterministic_grid_updater.py,
\* cst_centralized.py).
ReadsMoved(r)     == r > -6
ReadsCarried(r)   == r > 6
ReadsLatched(r)   == r > 0 /\ r <= 6
ReadsDelivered(r) == r > 50

\* The reward is all an agent learns of its own step, and until the last target is
\* delivered it tells the truth whatever the partner does: a move outside a full hold
\* happened or was blocked, a pick took a package, latched on or failed, a drop delivered
\* or did not.
RewardsTell ==
  ~Over => \A joint \in [Agents -> Actions] :
    LET p == Resolved(joint)
        tells(a) ==
          /\ joint[a] = "move_forward" =>
               /\ p.at[a] # at[a] => ReadsMoved(p.pay[a])
               /\ holders # Agents /\ ReadsMoved(p.pay[a]) => p.at[a] # at[a]
          /\ joint[a] = "pick" =>
               /\ ReadsCarried(p.pay[a]) <=> p.carrying[a] # carrying[a]
               /\ ReadsLatched(p.pay[a]) <=> a \in p.holders \ holders
          /\ joint[a] = "drop" =>
               (ReadsDelivered(p.pay[a]) <=> carrying[a] \in p.delivered \ delivered)
    IN  ~AllDelivered(p) => \A a \in Agents : tells(a)

=============================================================================
