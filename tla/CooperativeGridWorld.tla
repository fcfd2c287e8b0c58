------------------------ MODULE CooperativeGridWorld ------------------------
(***************************************************************************)
(* The backend of the cooperative_grid domain: one joint primitive step of *)
(* CooperativeGridEnv (functional_layer/custom_env/cooperative_grid), and  *)
(* the geometry it offers the skill layer (route).                         *)
(*                                                                         *)
(* A heavy door, possibly jammed, parts a corridor from the goal room.     *)
(* Rendering, rewards and the observation image are left out.              *)
(***************************************************************************)
EXTENDS Integers, Sequences, FiniteSetsExt

CONSTANTS
  A, B,         \* the agents, in the order step() goes through them
  Cells,        \* the cells of the layout that are no wall, the door included
  Door,         \* door_cell
  HandleLeft, HandleRight,   \* handle_cells
  GoalCells,
  Corridor,     \* the cells on this side of the door
  StartAt,      \* where reset() puts every agent
  StepLimits    \* the values of max_steps that are explored

Agents  == {A, B}
Handles == {HandleLeft, HandleRight}

NOOP  == 0
LEFT  == 1
RIGHT == 2
UP    == 3
DOWN  == 4
PULL  == 5
SHAKE == 6
Moves   == {LEFT, RIGHT, UP, DOWN}
Actions == Moves \cup {NOOP, PULL, SHAKE}

ASSUME GridAgents == A # B
ASSUME GridCells ==
  /\ Cells \subseteq Int \X Int
  /\ Door \in Cells
  /\ Handles \subseteq Corridor /\ HandleLeft # HandleRight
  /\ GoalCells \subseteq Cells \ ({Door} \cup Corridor)
ASSUME GridStart == StartAt \in [Agents -> Corridor] /\ StartAt[A] # StartAt[B]
ASSUME GridSteps == StepLimits \subseteq Nat \ {0}

VARIABLES
  jammedAtStart,  \* how the environment was constructed,
  maxSteps,       \* fixed for its life
  at,             \* _pos
  open,           \* _door_open
  jammed,         \* _door_jammed, the hidden condition
  steps,          \* _step_count
  terminated, truncated

pieces == <<at, open, jammed>>

built == <<jammedAtStart, maxSteps>>

gridVars == <<built, pieces, steps, terminated, truncated>>

GridOK ==
  /\ jammedAtStart \in BOOLEAN /\ maxSteps \in StepLimits
  /\ at \in [Agents -> Cells]
  /\ open \in BOOLEAN /\ jammed \in BOOLEAN
  /\ steps \in Nat
  /\ terminated \in BOOLEAN /\ truncated \in BOOLEAN

Ended == terminated \/ truncated

-----------------------------------------------------------------------------
(* Geometry                                                                *)

Beside(cell, move) ==
  << cell[1] + (CASE move = LEFT -> -1 [] move = RIGHT -> 1 [] OTHER -> 0),
     cell[2] + (CASE move = UP -> -1 [] move = DOWN -> 1 [] OTHER -> 0) >>

\* The door is the only way out of the corridor.
ASSUME GridCorridor ==
  /\ Corridor \subseteq Cells \ {Door}
  /\ \A c \in Corridor, move \in Moves :
       Beside(c, move) \in Cells => Beside(c, move) \in Corridor \cup {Door}

\* Mutant: a closed door stops nobody.
FreeThroughDoor(pos, a, cell) ==
  cell \in Cells /\ \A other \in Agents \ {a} : pos[other] # cell

Free(pos, a, cell) ==
  /\ cell \in Cells
  /\ cell = Door => open
  /\ \A other \in Agents \ {a} : pos[other] # cell

\* What agent `a` can walk through now, its own cell included.
Traversable(a) == {at[a]} \cup {c \in Cells : Free(at, a, c)}

\* The first moves of the shortest ways through `free` from a cell to `targets`: the
\* targets are flooded until the flood stands beside the cell.
FirstMoves(cell, targets, free) ==
  LET beside(cells) == {m \in Moves : Beside(cell, m) \in cells}
      flood[front \in SUBSET Cells, seen \in SUBSET Cells] ==
        LET next == ({Beside(c, m) : c \in front, m \in Moves} \cap free) \ seen
        IN  IF front = {} \/ beside(front) # {} THEN beside(front)
            ELSE flood[next, seen \cup next]
  IN  flood[targets \cap free, targets \cap free]

Connected(cell, targets, free) == cell \in targets \/ FirstMoves(cell, targets, free) # {}

Reachable(a, targets) == Connected(at[a], targets, Traversable(a))

\* The breadth-first search of route(): of the shortest ways to a target the one whose
\* moves come first, move by move.
Route(a, targets) ==
  LET way[c \in Cells] ==
        IF c \in targets THEN <<>>
        ELSE LET move == Min(FirstMoves(c, targets, Traversable(a)))
             IN  <<move>> \o way[Beside(c, move)]
  IN  way[at[a]]

-----------------------------------------------------------------------------
(* One joint step                                                          *)

MoveOne(pos, a, action) ==
  IF action \in Moves /\ Free(pos, a, Beside(pos[a], action))
  THEN [pos EXCEPT ![a] = Beside(@, action)] ELSE pos

OnHandle(pos, a) == pos[a] \in Handles

\* The door takes both agents, each on a handle, and must not be jammed.
Opened(joint) ==
  /\ \A a \in Agents : joint[a] = PULL /\ OnHandle(at', a)
  /\ ~jammed'

Shaken(joint) == ~open /\ \E a \in Agents : joint[a] = SHAKE /\ OnHandle(at', a)

\* `agents` is emptied at the end of an episode: a further step() raises.
Step(joint) ==
  /\ ~Ended
  /\ at' = MoveOne(MoveOne(at, A, joint[A]), B, joint[B])
  /\ jammed' = (jammed /\ ~Shaken(joint))
  /\ open' = (open \/ Opened(joint))
  /\ steps' = steps + 1
  /\ terminated' = (\A a \in Agents : at'[a] \in GoalCells)
  /\ truncated' = (~terminated' /\ steps' >= maxSteps)
  /\ UNCHANGED built

GridInit ==
  /\ jammedAtStart \in BOOLEAN /\ maxSteps \in StepLimits
  /\ at = StartAt /\ open = FALSE /\ jammed = jammedAtStart
  /\ steps = 0 /\ terminated = FALSE /\ truncated = FALSE

Reset ==
  /\ at' = StartAt /\ open' = FALSE /\ jammed' = jammedAtStart
  /\ steps' = 0 /\ terminated' = FALSE /\ truncated' = FALSE
  /\ UNCHANGED built

GridNext == Reset \/ \E joint \in [Agents -> Actions] : Step(joint)

GridSpec == GridInit /\ [][GridNext]_gridVars

-----------------------------------------------------------------------------
(* Properties                                                              *)

\* Whatever the skills submit, a closed door keeps the agents in the corridor, it is not
\* opened before its jam is cleared, and the movers of a step never end in one cell.
DoorHolds ==
  /\ at[A] # at[B]
  /\ ~open => \A a \in Agents : at[a] \in Corridor
  /\ open => ~jammed

=============================================================================
