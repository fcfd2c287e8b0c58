------------------------ MODULE CooperativeGrid_proofs ------------------------
(***************************************************************************)
(* Proofs about the cooperative_grid domain: its backend, the kit's        *)
(* environment over it, and an episode of it under the executive loop.     *)
(*                                                                         *)
(* That `path` is a sequence of moves is not proved: route() is a          *)
(* recursive function, and what it returns needs an induction.             *)
(***************************************************************************)
EXTENDS CooperativeGridEpisode, TLAPS

-----------------------------------------------------------------------------
(* The backend                                                             *)

\* What one agent's move does to the positions.
LEMMA MoveOneMoves ==
  ASSUME NEW pos \in [Agents -> Cells], NEW a \in Agents, NEW action
  PROVE  LET new == MoveOne(pos, a, action)
         IN  /\ new \in [Agents -> Cells]
             /\ \A b \in Agents \ {a} : new[b] = pos[b]
             /\ action \notin Moves => new = pos
             /\ pos[A] # pos[B] => new[A] # new[B]
             /\ ~open /\ (\A b \in Agents : pos[b] \in Corridor)
                  => \A b \in Agents : new[b] \in Corridor
  <1>1. CASE action \in Moves /\ Free(pos, a, Beside(pos[a], action))
    <2>1. MoveOne(pos, a, action) = [pos EXCEPT ![a] = Beside(pos[a], action)]
      BY <1>1 DEF MoveOne
    <2>2. Beside(pos[a], action) \in Cells
      BY <1>1 DEF Free
    <2>3. \A b \in Agents \ {a} : pos[b] # Beside(pos[a], action)
      BY <1>1 DEF Free
    <2>4. ASSUME ~open, pos[a] \in Corridor
          PROVE  Beside(pos[a], action) \in Corridor
      BY <1>1, <2>2, <2>4, GridCorridor DEF Free
    <2> QED
      BY <1>1, <2>1, <2>2, <2>3, <2>4, GridAgents DEF Agents
  <1>2. CASE ~(action \in Moves /\ Free(pos, a, Beside(pos[a], action)))
    BY <1>2 DEF MoveOne
  <1> QED
    BY <1>1, <1>2

\* What a joint step does to the positions.
LEMMA StepMoves ==
  ASSUME at \in [Agents -> Cells], NEW joint \in [Agents -> Actions], Step(joint)
  PROVE  /\ at' \in [Agents -> Cells]
         /\ \A b \in Agents : joint[b] \notin Moves => at'[b] = at[b]
         /\ at[A] # at[B] => at'[A] # at'[B]
         /\ ~open /\ (\A b \in Agents : at[b] \in Corridor)
              => \A b \in Agents : at'[b] \in Corridor
  <1> DEFINE mid == MoveOne(at, A, joint[A])
             new == MoveOne(mid, B, joint[B])
  <1>1. A \in Agents /\ B \in Agents /\ Agents = {A, B} /\ A # B
    BY GridAgents DEF Agents
  <1>2. /\ mid \in [Agents -> Cells]
        /\ \A b \in Agents \ {A} : mid[b] = at[b]
        /\ joint[A] \notin Moves => mid = at
        /\ at[A] # at[B] => mid[A] # mid[B]
        /\ ~open /\ (\A b \in Agents : at[b] \in Corridor)
             => \A b \in Agents : mid[b] \in Corridor
    BY <1>1, MoveOneMoves
  <1> HIDE DEF mid
  <1>3. /\ new \in [Agents -> Cells]
        /\ \A b \in Agents \ {B} : new[b] = mid[b]
        /\ joint[B] \notin Moves => new = mid
        /\ mid[A] # mid[B] => new[A] # new[B]
        /\ ~open /\ (\A b \in Agents : mid[b] \in Corridor)
             => \A b \in Agents : new[b] \in Corridor
    BY <1>1, <1>2, MoveOneMoves
  <1>4. at' = new
    BY DEF Step, mid
  <1> HIDE DEF new
  <1> QED
    BY <1>1, <1>2, <1>3, <1>4

\* Every variable of the backend keeps its type.
LEMMA GridTypes == GridOK /\ [GridNext]_gridVars => GridOK'
  <1> SUFFICES ASSUME GridOK, [GridNext]_gridVars PROVE GridOK'
    OBVIOUS
  <1>1. CASE Reset
    <2>1. StartAt \in [Agents -> Cells]
      BY GridStart, GridCorridor
    <2> QED
      BY <1>1, <2>1 DEF GridOK, Reset, built
  <1>2. ASSUME NEW joint \in [Agents -> Actions], Step(joint) PROVE GridOK'
    <2>1. at' \in [Agents -> Cells]
      BY <1>2, StepMoves DEF GridOK
    <2>2. steps' \in Nat /\ jammedAtStart' \in BOOLEAN /\ maxSteps' \in StepLimits
      BY <1>2 DEF GridOK, Step, built
    <2>3. open' \in BOOLEAN /\ jammed' \in BOOLEAN
      BY <1>2 DEF GridOK, Step, Opened, Shaken
    <2>4. terminated' \in BOOLEAN /\ truncated' \in BOOLEAN
      BY <1>2 DEF GridOK, Step
    <2> QED
      BY <2>1, <2>2, <2>3, <2>4 DEF GridOK
  <1>3. CASE UNCHANGED gridVars
    BY <1>3 DEF GridOK, gridVars, pieces, built
  <1> QED
    BY <1>1, <1>2, <1>3 DEF GridNext

LEMMA GridStarts == GridInit => GridOK /\ DoorHolds
  <1> SUFFICES ASSUME GridInit PROVE GridOK /\ DoorHolds
    OBVIOUS
  <1>1. GridOK
    BY GridStart, GridCorridor DEF GridInit, GridOK
  <1>2. DoorHolds
    BY GridStart DEF GridInit, DoorHolds
  <1> QED
    BY <1>1, <1>2

LEMMA DoorStays == GridOK /\ DoorHolds /\ [GridNext]_gridVars => DoorHolds'
  <1> SUFFICES ASSUME GridOK, DoorHolds, [GridNext]_gridVars PROVE DoorHolds'
    OBVIOUS
  <1>1. CASE Reset
    BY <1>1, GridStart DEF DoorHolds, Reset
  <1>2. ASSUME NEW joint \in [Agents -> Actions], Step(joint) PROVE DoorHolds'
    <2>1. at'[A] # at'[B]
      BY <1>2, StepMoves DEF GridOK, DoorHolds
    <2>2. ~open' => \A a \in Agents : at'[a] \in Corridor
      BY <1>2, StepMoves DEF GridOK, DoorHolds, Step
    <2>3. open' => ~jammed'
      BY <1>2 DEF GridOK, DoorHolds, Step, Opened
    <2> QED
      BY <2>1, <2>2, <2>3 DEF DoorHolds
  <1>3. CASE UNCHANGED gridVars
    BY <1>3 DEF DoorHolds, gridVars, pieces
  <1> QED
    BY <1>1, <1>2, <1>3 DEF GridNext

\* Whatever joint actions are submitted, CooperativeGridEnv keeps a closed door closed to
\* the agents, never opens a jammed one, and never puts two agents in one cell
\* (grid_env.py, step): for every layout whose corridor has the door as its only way out.
THEOREM BackendDoorHolds == GridSpec => []DoorHolds
  <1>1. GridOK /\ DoorHolds /\ [GridNext]_gridVars => (GridOK /\ DoorHolds)'
    BY GridTypes, DoorStays
  <1> QED
    BY <1>1, GridStarts, PTL DEF GridSpec

-----------------------------------------------------------------------------
(* The environment is a scheduler of the backend                           *)

\* The joint actions the hooks submit.
LEMMA JointActions ==
  ASSUME NEW actors, NEW action \in Actions
  PROVE  Joint(actors, action) \in [Agents -> Actions]
  BY DEF Joint, Actions

\* Every step of the environment is a step of the backend or leaves it alone.
LEMMA NextIsGridNext == [Next]_vars => [GridNext]_gridVars
  <1> SUFFICES ASSUME [Next]_vars PROVE [GridNext]_gridVars
    OBVIOUS
  <1> USE DEF GridNext
  <1>1. CASE EnvironmentReset
    BY <1>1 DEF EnvironmentReset
  <1>2. CASE Refuse \/ Reject \/ \E c \in Calls : Begin(c)
    BY <1>2 DEF Refuse, Reject, Begin
  <1>3. CASE Walk
    BY <1>3, JointActions DEF Walk, Actions
  <1>4. CASE NoWay \/ NoWalker \/ Arrive \/ BackendRaises
    BY <1>4 DEF NoWay, NoWalker, Arrive, BackendRaises
  <1>5. CASE CooperateOpen
    BY <1>5, JointActions DEF CooperateOpen, Actions
  <1>6. CASE ClearJam
    BY <1>6, JointActions DEF ClearJam, Actions
  <1>7. CASE UNCHANGED vars
    BY <1>7 DEF vars
  <1> QED
    BY <1>1, <1>2, <1>3, <1>4, <1>5, <1>6, <1>7 DEF Next, Attempt

\* The environment reaches the backend through its own operations only: each behaviour of
\* the domain's environment (kit/environment.py with domains/cooperative_grid) is, seen at
\* the backend's variables, a behaviour of the backend.
THEOREM EnvironmentImplementsBackend == Spec => GridSpec
  <1>1. Init => GridInit
    BY DEF Init
  <1> QED
    BY <1>1, NextIsGridNext, PTL DEF Spec, GridSpec

\* The backend's guarantee therefore holds under the environment, whatever calls a caller
\* issues and whenever it resets.
THEOREM EnvironmentDoorHolds == Spec => []DoorHolds
  BY EnvironmentImplementsBackend, BackendDoorHolds, PTL

-----------------------------------------------------------------------------
(* The types of the environment                                            *)

LEMMA ReadTypes == GridOK => Read \in States
  BY DEF GridOK, Read, States, Ended

\* How an attempt can end: typed, and with the primitives it took.
LEMMA Ends ==
  ASSUME NEW n \in Nat, NEW post \in States, NEW named \in Classes,
         cached \in States \cup {NoState},
         Succeed(n, post) \/ Fault(n) \/ Fail(n, post, named)
  PROVE  /\ KitOK'
         /\ phase' = "idle" /\ answer'.prim = n
         /\ answer'.kind = "success" => cached' = post
         /\ answer'.kind = "fault" => cached' = cached
         /\ answer'.kind = "failure" => cached' = post
         /\ answer'.kind \in {"success", "failure", "fault"}
  <1> USE DEF Over
  <1>1. CASE Succeed(n, post)
    BY <1>1 DEF Succeed, KitOK, Kinds, Classes
  <1>2. CASE Fault(n)
    BY <1>2 DEF Fault, KitOK, Kinds, Classes
  <1>3. CASE Fail(n, post, named)
    BY <1>2, <1>3 DEF Fail, Fault, KitOK, Kinds, Classes
  <1> QED
    BY <1>1, <1>2, <1>3

-----------------------------------------------------------------------------
(* The cached state and the backend                                        *)

Behind(a) == \A b \in Agents \ {a} : cached.at[b] = at[b]

\* The cache as an attempt leaves it: fresh, or abandoned when the backend's episode ended.
Settled == cached = Read \/ (Ended /\ ~cached.over)

\* The cache while an attempt runs: only an agent's walk takes more than one step.
Underway ==
  /\ ~cached.over /\ answer.kind # "fault"
  /\ ~Ended \/ prim # 0 => Behind(call.agent)
  /\ ~Ended /\ prim = 0 => cached.at = at
  /\ call.op # "Goto" \/ call.agent \notin Agents => prim = 0 /\ path = <<>>

Lag ==
  /\ cached # NoState =>
       /\ cached.open = open /\ cached.jammed = jammed
       /\ \E a \in Agents : Behind(a)
  /\ phase = "idle" /\ cached # NoState => Settled
  /\ phase = "running" => Underway
  /\ answer.kind = "fault" => cached # NoState /\ (Ended \/ answer.prim = 0)

KitInv == GridOK /\ KitOK /\ Lag

LEMMA CallTypes ==
  ASSUME KitOK, phase = "running"
  PROVE  /\ call \in Calls
         /\ cached \in States /\ cached # NoState
         /\ cached.at \in [Agents -> Cells] /\ cached.over \in BOOLEAN
  <1>1. call \in Calls /\ cached # NoState /\ cached \in States
    BY DEF KitOK
  <1> QED
    BY <1>1 DEF Calls, States

\* What a joint step does to the door.
LEMMA StepDoor ==
  ASSUME GridOK, NEW joint \in [Agents -> Actions], Step(joint)
  PROVE  /\ (\A a \in Agents : joint[a] # SHAKE) => jammed' = jammed
         /\ (\E a \in Agents : joint[a] # PULL) => open' = open
         /\ jammed' => jammed /\ open' = open
  BY DEF GridOK, Step, Opened, Shaken

\* The cache is fresh once it has been replaced by what the backend says.
LEMMA FreshLag ==
  ASSUME GridOK', cached' = Read', phase' = "idle", answer'.kind # "fault"
  PROVE  Lag'
  <1>1. cached'.open = open' /\ cached'.jammed = jammed' /\ cached'.at = at'
    BY DEF Read
  <1> QED
    BY <1>1, GridAgents DEF Lag, Settled, Behind, Agents

LEMMA InvStarts == Init => KitInv
  <1> SUFFICES ASSUME Init PROVE KitInv
    OBVIOUS
  <1>1. GridOK
    BY GridStarts DEF Init
  <1>2. KitOK
    BY DEF Init, KitOK, NoAnswer, Kinds, Classes
  <1>3. Lag
    BY DEF Init, Lag, NoAnswer
  <1> QED
    BY <1>1, <1>2, <1>3 DEF KitInv

LEMMA ResetKeeps == KitInv /\ GridOK' /\ EnvironmentReset => KitInv'
  <1> SUFFICES ASSUME KitInv, GridOK', EnvironmentReset PROVE KitInv'
    OBVIOUS
  <1>1. KitOK'
    <2>1. Read' \in States
      BY DEF GridOK, Read, States, Ended
    <2> QED
      BY <2>1 DEF KitInv, KitOK, EnvironmentReset, NoAnswer, Kinds, Classes
  <1>2. Lag'
    BY FreshLag DEF EnvironmentReset, NoAnswer
  <1> QED
    BY <1>1, <1>2 DEF KitInv

LEMMA AnswersKeep == KitInv /\ (Refuse \/ Reject) => KitInv'
  <1> SUFFICES ASSUME KitInv, Refuse \/ Reject PROVE KitInv'
    OBVIOUS
  <1> USE DEF Refuse, Reject, gridVars, pieces, built
  <1>1. GridOK'
    BY DEF KitInv, GridOK
  <1>2. KitOK'
    BY DEF KitInv, KitOK, NoAnswer, Kinds, Classes
  <1>3. Lag'
    BY DEF KitInv, Lag, Settled, Behind, Read, Ended, NoAnswer
  <1> QED
    BY <1>1, <1>2, <1>3 DEF KitInv

LEMMA BeginKeeps ==
  ASSUME KitInv, NEW c \in Calls, Begin(c)
  PROVE  KitInv'
  <1>1. cached # NoState /\ cached \in States /\ ~cached.over /\ Settled
    BY DEF KitInv, KitOK, Lag, Begin, Refused
  <1> USE DEF Begin, gridVars, pieces, built
  <1>2. GridOK'
    BY DEF KitInv, GridOK
  <1>3. KitOK'
    BY <1>1 DEF KitInv, KitOK, NoAnswer, Kinds, Classes
  <1>4. Underway'
    <2>1. call'.op # "Goto" \/ call'.agent \notin Agents => prim' = 0 /\ path' = <<>>
      BY DEF WayOf, HasWay
    <2>2. answer'.kind # "fault" /\ cached' = cached /\ prim' = 0
      BY DEF NoAnswer
    <2> QED
      BY <1>1, <2>1, <2>2 DEF Underway, Settled, Behind, Read, Ended
  <1>5. Lag'
    BY <1>1, <1>4 DEF KitInv, Lag, Behind, NoAnswer
  <1> QED
    BY <1>2, <1>3, <1>5 DEF KitInv

LEMMA WalkKeeps == KitInv /\ Walk => KitInv'
  <1> SUFFICES ASSUME KitInv, Walk PROVE KitInv'
    OBVIOUS
  <1>1. PICK move \in Moves : Step(Joint({call.agent}, move))
    BY DEF Walk
  <1> DEFINE joint == Joint({call.agent}, move)
  <1>2. joint \in [Agents -> Actions]
    BY JointActions DEF Actions
  <1>3. /\ phase = "running" /\ phase' = phase /\ call' = call /\ call.op = "Goto"
        /\ cached' = cached /\ answer' = answer /\ prim' = prim + 1
    BY DEF Walk, Running
  <1>4. Underway /\ ~Ended
    BY <1>1, <1>3 DEF KitInv, Lag, Step
  <1>5. call.agent \in Agents /\ cached \in States /\ cached # NoState
    <2>1. path # <<>>
      BY DEF Walk
    <2> QED
      BY <1>3, <1>4, <2>1, CallTypes DEF KitInv, Underway
  <1>6. \A b \in Agents : joint[b] # SHAKE /\ joint[b] # PULL
    BY DEF Joint, Moves, LEFT, RIGHT, UP, DOWN, PULL, SHAKE, NOOP
  <1>7. open' = open /\ jammed' = jammed
    BY <1>1, <1>2, <1>5, <1>6, StepDoor DEF KitInv
  <1>8. \A b \in Agents \ {call.agent} : at'[b] = at[b]
    <2>1. \A b \in Agents \ {call.agent} : joint[b] \notin Moves
      BY DEF Joint, Moves, LEFT, RIGHT, UP, DOWN, NOOP
    <2> QED
      BY <1>1, <1>2, <2>1, StepMoves DEF KitInv, GridOK
  <1>9. GridOK'
    BY <1>1, <1>2, GridTypes DEF KitInv, GridNext
  <1>10. KitOK'
    BY <1>3 DEF KitInv, KitOK
  <1>11. prim \in Nat
    BY DEF KitInv, KitOK
  <1>12. Behind(call.agent)'
    BY <1>3, <1>4, <1>8 DEF Underway, Behind
  <1>13. Underway'
    BY <1>3, <1>5, <1>4, <1>11, <1>12 DEF Underway
  <1>14. cached'.open = open' /\ cached'.jammed = jammed'
    BY <1>3, <1>5, <1>7 DEF KitInv, Lag
  <1>15. answer'.kind # "fault"
    BY <1>3, <1>4 DEF Underway
  <1>16. Lag'
    BY <1>3, <1>5, <1>12, <1>13, <1>14, <1>15 DEF Lag
  <1> QED
    BY <1>9, <1>10, <1>16 DEF KitInv

\* An attempt that gives up without a step leaves the cache as settled as it was.
LEMMA KeptLag ==
  ASSUME KitInv, phase = "running", prim = 0 \/ Ended, UNCHANGED <<gridVars, cached>>,
         phase' = "idle", answer'.kind = "fault" => Ended \/ answer'.prim = 0
  PROVE  Lag'
  <1>1. /\ cached \in States /\ cached # NoState
    BY CallTypes DEF KitInv
  <1>2. Underway
    BY DEF KitInv, Lag
  <1>3. /\ cached.open = open /\ cached.jammed = jammed
        /\ \E a \in Agents : Behind(a)
    BY <1>1 DEF KitInv, Lag
  <1>4. Settled
    <2>1. CASE Ended
      BY <1>2, <2>1 DEF Underway, Settled
    <2>2. CASE ~Ended
      <3>1. cached.at = at /\ cached.over = FALSE
        BY <1>1, <1>2, <2>2 DEF Underway, States
      <3>2. cached = [at |-> cached.at, open |-> cached.open,
                      jammed |-> cached.jammed, over |-> cached.over]
        BY <1>1 DEF States
      <3>3. Ended = FALSE
        BY <2>2 DEF KitInv, GridOK, Ended
      <3> QED
        BY <1>3, <3>1, <3>2, <3>3 DEF Settled, Read
    <2> QED
      BY <2>1, <2>2
  <1>5. at' = at /\ open' = open /\ jammed' = jammed /\ Ended' = Ended /\ cached' = cached
    BY DEF gridVars, pieces, built, Ended
  <1>6. Settled'
    BY <1>4, <1>5 DEF Settled, Read
  <1>7. \E a \in Agents : Behind(a)'
    BY <1>3, <1>5 DEF Behind
  <1> QED
    BY <1>1, <1>3, <1>5, <1>6, <1>7 DEF Lag

LEMMA NoWayKeeps == KitInv /\ NoWay => KitInv' /\ answer'.prim = 0 /\ answer'.kind = "failure"
  <1> SUFFICES ASSUME KitInv, NoWay
               PROVE  KitInv' /\ answer'.prim = 0 /\ answer'.kind = "failure"
    OBVIOUS
  <1>1. phase = "running" /\ prim = 0 /\ UNCHANGED gridVars
    BY DEF NoWay, Running
  <1>2. cached \in States
    BY <1>1, CallTypes DEF KitInv
  <1>3. /\ cached' = cached
        /\ Over([kind |-> "failure", class |-> "rejected_before_transition", prim |-> 0])
    BY DEF NoWay, Fail, SameWorld
  <1>4. KitOK'
    BY <1>2, <1>3 DEF KitOK, Over, Kinds, Classes
  <1>5. GridOK'
    BY <1>1 DEF KitInv, GridOK, gridVars, pieces, built
  <1>6. phase' = "idle" /\ answer'.kind = "failure" /\ answer'.prim = 0
    BY <1>3 DEF Over
  <1>7. Lag'
    BY <1>1, <1>3, <1>6, KeptLag
  <1> QED
    BY <1>4, <1>5, <1>6, <1>7 DEF KitInv

LEMMA NoWalkerKeeps ==
  KitInv /\ NoWalker => KitInv' /\ prim = 0 /\ answer'.prim = 0 /\ answer'.kind = "fault"
  <1> SUFFICES ASSUME KitInv, NoWalker
               PROVE  KitInv' /\ prim = 0 /\ answer'.prim = 0 /\ answer'.kind = "fault"
    OBVIOUS
  <1>1. phase = "running" /\ call.agent \notin Agents /\ UNCHANGED gridVars
    BY DEF NoWalker, Running
  <1>2. cached \in States /\ prim = 0
    BY <1>1, CallTypes DEF KitInv, Lag, Underway
  <1>3. cached' = cached /\ Over([kind |-> "fault", class |-> "none", prim |-> 0])
    BY <1>2 DEF NoWalker, Fault
  <1>4. KitOK'
    BY <1>2, <1>3 DEF KitOK, Over, Kinds, Classes
  <1>5. GridOK'
    BY <1>1 DEF KitInv, GridOK, gridVars, pieces, built
  <1>6. phase' = "idle" /\ answer'.kind = "fault" /\ answer'.prim = 0
    BY <1>3 DEF Over
  <1>7. Lag'
    BY <1>1, <1>2, <1>3, <1>6, KeptLag
  <1> QED
    BY <1>2, <1>4, <1>5, <1>6, <1>7 DEF KitInv

LEMMA RaisesKeep ==
  KitInv /\ BackendRaises => KitInv' /\ answer'.prim = prim /\ answer'.kind = "fault"
  <1> SUFFICES ASSUME KitInv, BackendRaises
               PROVE  KitInv' /\ answer'.prim = prim /\ answer'.kind = "fault"
    OBVIOUS
  <1>1. phase = "running" /\ Ended /\ UNCHANGED gridVars
    BY DEF BackendRaises
  <1>2. cached \in States /\ prim \in Nat
    BY <1>1, CallTypes DEF KitInv, KitOK
  <1>3. cached' = cached /\ Over([kind |-> "fault", class |-> "none", prim |-> prim])
    BY DEF BackendRaises, Fault
  <1>4. KitOK'
    BY <1>2, <1>3 DEF KitOK, Over, Kinds, Classes
  <1>5. GridOK'
    BY <1>1 DEF KitInv, GridOK, gridVars, pieces, built
  <1>6. phase' = "idle" /\ answer'.kind = "fault" /\ answer'.prim = prim
    BY <1>3 DEF Over
  <1>7. Lag'
    BY <1>1, <1>3, <1>6, KeptLag
  <1> QED
    BY <1>4, <1>5, <1>6, <1>7 DEF KitInv

\* What an attempt whose last look at the backend is fresh leaves behind.
EndsFresh ==
  /\ answer'.kind \in {"success", "failure"}
  /\ phase' = "idle" /\ cached' = Read' /\ KitInv'

LEMMA ArriveKeeps == KitInv /\ Arrive => EndsFresh /\ answer'.prim = prim
  <1> SUFFICES ASSUME KitInv, Arrive PROVE EndsFresh /\ answer'.prim = prim
    OBVIOUS
  <1>1. phase = "running" /\ UNCHANGED gridVars
    BY DEF Arrive, Running
  <1>2. cached \in States /\ prim \in Nat /\ Read \in States
    BY <1>1, CallTypes, ReadTypes DEF KitInv, KitOK
  <1>3. Read' = Read
    BY <1>1 DEF Read, Ended, gridVars, pieces, built
  <1>4. /\ cached' = Read
        /\ \E kind \in {"success", "failure"}, class \in Classes :
             Over([kind |-> kind, class |-> class, prim |-> prim])
    BY DEF Arrive, Succeed, Fail, Classes
  <1>5. KitOK' /\ phase' = "idle" /\ answer'.kind \in {"success", "failure"}
        /\ answer'.prim = prim
    BY <1>2, <1>4 DEF KitOK, Over, Kinds
  <1>6. GridOK'
    BY <1>1 DEF KitInv, GridOK, gridVars, pieces, built
  <1>7. Lag'
    BY <1>3, <1>4, <1>5, <1>6, FreshLag
  <1> QED
    BY <1>3, <1>4, <1>5, <1>6, <1>7 DEF KitInv, EndsFresh

LEMMA OpenKeeps ==
  KitInv /\ CooperateOpen =>
    /\ EndsFresh /\ answer'.prim = 1 /\ steps' = steps + 1 /\ prim = 0
    /\ at' = at /\ cached.at = at
    /\ answer'.kind = "success" <=> open'
  <1> SUFFICES ASSUME KitInv, CooperateOpen
               PROVE  /\ EndsFresh /\ answer'.prim = 1 /\ steps' = steps + 1 /\ prim = 0
                      /\ at' = at /\ cached.at = at
                      /\ answer'.kind = "success" <=> open'
    OBVIOUS
  <1> DEFINE joint == Joint(Pullers, PULL)
  <1>1. phase = "running" /\ call.op = "CooperateOpen" /\ Step(joint)
    BY DEF CooperateOpen, Running
  <1>2. joint \in [Agents -> Actions]
    BY JointActions DEF Actions
  <1>3. cached \in States /\ cached # NoState
    BY <1>1, CallTypes DEF KitInv
  <1>4. ~Ended /\ steps' = steps + 1
    BY <1>1 DEF Step
  <1>5. prim = 0 /\ cached.at = at /\ cached.open = open /\ cached.jammed = jammed
    BY <1>1, <1>3, <1>4 DEF KitInv, Lag, Underway
  <1>6. \A a \in Agents : joint[a] \notin Moves /\ joint[a] # SHAKE
    BY DEF Joint, Moves, LEFT, RIGHT, UP, DOWN, PULL, SHAKE, NOOP
  <1>7. at' = at
    <2>1. at' \in [Agents -> Cells] /\ \A a \in Agents : at'[a] = at[a]
      BY <1>1, <1>2, <1>6, StepMoves DEF KitInv, GridOK
    <2> QED
      BY <2>1 DEF KitInv, GridOK
  <1>8. GridOK'
    BY <1>1, <1>2, GridTypes DEF KitInv, GridNext
  <1>9. Read' \in States
    BY <1>8 DEF GridOK, Read, States, Ended
  <1>10. ~open' => SameWorld(cached, Read')
    BY <1>1, <1>2, <1>5, <1>6, <1>7, <1>8, StepDoor
       DEF KitInv, GridOK, Step, SameWorld, Read
  <1>11. /\ cached' = Read'
         /\ \E class \in Classes :
              Over([kind |-> IF open' THEN "success" ELSE "failure",
                    class |-> class, prim |-> 1])
    BY <1>10 DEF CooperateOpen, Succeed, Fail, Classes
  <1>12. KitOK' /\ phase' = "idle" /\ answer'.prim = 1
         /\ answer'.kind = IF open' THEN "success" ELSE "failure"
    BY <1>9, <1>11 DEF KitOK, Over, Kinds
  <1>13. Lag'
    BY <1>8, <1>11, <1>12, FreshLag
  <1> QED
    BY <1>4, <1>5, <1>7, <1>8, <1>11, <1>12, <1>13 DEF KitInv, EndsFresh

LEMMA ShakeKeeps ==
  KitInv /\ ClearJam =>
    /\ EndsFresh /\ answer'.prim = 1 /\ steps' = steps + 1 /\ prim = 0
    /\ at' = at /\ cached.at = at /\ open' = open
  <1> SUFFICES ASSUME KitInv, ClearJam
               PROVE  /\ EndsFresh /\ answer'.prim = 1 /\ steps' = steps + 1 /\ prim = 0
                      /\ at' = at /\ cached.at = at /\ open' = open
    OBVIOUS
  <1> DEFINE joint == Joint({call.agent}, SHAKE)
  <1>1. phase = "running" /\ call.op = "ClearJam" /\ Step(joint)
    BY DEF ClearJam, Running
  <1>2. joint \in [Agents -> Actions]
    BY JointActions DEF Actions
  <1>3. cached \in States /\ cached # NoState
    BY <1>1, CallTypes DEF KitInv
  <1>4. ~Ended /\ steps' = steps + 1
    BY <1>1 DEF Step
  <1>5. prim = 0 /\ cached.at = at /\ cached.open = open /\ cached.jammed = jammed
    BY <1>1, <1>3, <1>4 DEF KitInv, Lag, Underway
  <1>6. \A a \in Agents : joint[a] \notin Moves /\ joint[a] # PULL
    BY DEF Joint, Moves, LEFT, RIGHT, UP, DOWN, PULL, SHAKE, NOOP
  <1>7. at' = at
    <2>1. at' \in [Agents -> Cells] /\ \A a \in Agents : at'[a] = at[a]
      BY <1>1, <1>2, <1>6, StepMoves DEF KitInv, GridOK
    <2> QED
      BY <2>1 DEF KitInv, GridOK
  <1>8. GridOK'
    BY <1>1, <1>2, GridTypes DEF KitInv, GridNext
  <1>9. Read' \in States
    BY <1>8 DEF GridOK, Read, States, Ended
  <1>10. open' = open
    BY <1>1, <1>2, <1>6, StepDoor, GridAgents DEF KitInv, Agents
  <1>11. jammed' => SameWorld(cached, Read')
    BY <1>1, <1>2, <1>5, <1>7, <1>8, <1>10, StepDoor
       DEF KitInv, GridOK, Step, SameWorld, Read
  <1>12. /\ cached' = Read'
         /\ \E kind \in {"success", "failure"}, class \in Classes :
              Over([kind |-> kind, class |-> class, prim |-> 1])
    BY <1>11 DEF ClearJam, Succeed, Fail, Classes
  <1>13. KitOK' /\ phase' = "idle" /\ answer'.prim = 1
         /\ answer'.kind \in {"success", "failure"}
    BY <1>9, <1>12 DEF KitOK, Over, Kinds
  <1>14. Lag'
    BY <1>8, <1>12, <1>13, FreshLag
  <1> QED
    BY <1>4, <1>5, <1>7, <1>8, <1>10, <1>12, <1>13, <1>14 DEF KitInv, EndsFresh

LEMMA InvKeeps == KitInv /\ [Next]_vars => KitInv'
  <1> SUFFICES ASSUME KitInv, [Next]_vars PROVE KitInv'
    OBVIOUS
  <1>1. CASE EnvironmentReset
    BY <1>1, GridTypes, NextIsGridNext, ResetKeeps DEF KitInv
  <1>2. CASE Refuse \/ Reject
    BY <1>2, AnswersKeep
  <1>3. CASE \E c \in Calls : Begin(c)
    BY <1>3, BeginKeeps
  <1>4. CASE Attempt
    BY <1>4, WalkKeeps, NoWayKeeps, NoWalkerKeeps, ArriveKeeps, OpenKeeps, ShakeKeeps,
       RaisesKeep
       DEF Attempt, EndsFresh
  <1>5. CASE UNCHANGED vars
    <2>1. /\ GridOK' /\ KitOK'
      BY <1>5 DEF KitInv, GridOK, KitOK, vars, gridVars, kitVars, pieces, built
    <2>2. Lag'
      BY <1>5 DEF KitInv, Lag, Underway, Settled, Behind, Read, Ended, vars, gridVars,
                  kitVars, pieces, built
    <2> QED
      BY <2>1, <2>2 DEF KitInv
  <1> QED
    BY <1>1, <1>2, <1>3, <1>4, <1>5 DEF Next

LEMMA Invariant == Spec => []KitInv
  BY InvStarts, InvKeeps, PTL DEF Spec

-----------------------------------------------------------------------------
(* The theorems                                                            *)

\* Backend and kit keep their types in every reachable state, apart from the moves route()
\* returned.
THEOREM KitTypes == Spec => [](GridOK /\ KitOK)
  BY Invariant, PTL DEF KitInv

\* CacheLags without the reason for the end of the backend's episode, which depends on the
\* ways route() finds.
CacheLagsAtEnd ==
  /\ answer.kind = "fault" /\ ~Ended => answer.prim = 0 /\ cached = Read
  /\ phase = "idle" /\ cached \notin {NoState, Read} =>
       /\ Ended /\ ~cached.over
       /\ cached.open = open /\ cached.jammed = jammed
       /\ \E a \in Agents : \A b \in Agents \ {a} : cached.at[b] = at[b]

\* The kit's cached state (EnvironmentBase._state) is fresh whenever a caller can look,
\* unless an attempt died with the backend's episode; then one agent's place is missed.  A
\* fault while that episode still runs, for a walk of what is no agent, reports no primitive
\* and leaves the cache fresh: whatever groundable calls a caller issues.
THEOREM CacheLagsOnlyAtEnd == Spec => []CacheLagsAtEnd
  <1>1. KitInv => CacheLagsAtEnd
    BY DEF KitInv, KitOK, Lag, Settled, Underway, Behind, CacheLagsAtEnd
  <1> QED
    BY <1>1, Invariant, PTL

\* Every step of the backend is reported exactly once, by the result of an attempt or by
\* the fault's primitive_steps_before_failure (kit/environment.py, execute_skill).
THEOREM EveryStepReported == Spec => StepsReported
  <1> DEFINE Report == phase = "running" =>
                         IF phase' = "running" THEN prim' - prim = steps' - steps
                         ELSE answer'.prim - prim = steps' - steps
  <1>1. KitInv /\ [Next]_vars => [Report]_vars
    <2> SUFFICES ASSUME KitInv, Next, phase = "running" PROVE Report
      OBVIOUS
    <2>1. steps \in Nat /\ prim \in Nat
      BY DEF KitInv, GridOK, KitOK
    <2>2. Attempt
      BY DEF Next, EnvironmentReset, Refuse, Reject, Begin
    <2>3. CASE Walk
      BY <2>1, <2>3 DEF Walk, Step
    <2>4. CASE NoWay
      <3>1. phase' = "idle" /\ steps' = steps /\ prim = 0
        BY <2>4 DEF NoWay, Fail, Fault, Over, SameWorld, gridVars
      <3> QED
        BY <2>1, <2>4, <3>1, NoWayKeeps
    <2>5. CASE NoWalker
      BY <2>1, <2>5, NoWalkerKeeps DEF NoWalker, Fault, Over, gridVars
    <2>6. CASE Arrive
      BY <2>1, <2>6, ArriveKeeps DEF EndsFresh, Arrive, gridVars
    <2>7. CASE CooperateOpen
      BY <2>1, <2>7, OpenKeeps DEF EndsFresh
    <2>8. CASE ClearJam
      BY <2>1, <2>8, ShakeKeeps DEF EndsFresh
    <2>9. CASE BackendRaises
      BY <2>1, <2>9, RaisesKeep DEF BackendRaises, Fault, Over, gridVars
    <2> QED
      BY <2>2, <2>3, <2>4, <2>6, <2>7, <2>8, <2>9, <2>5 DEF Attempt
  <1>2. StepsReported <=> [][Report]_vars
    BY DEF StepsReported
  <1> QED
    BY <1>1, <1>2, Invariant, PTL DEF Spec

-----------------------------------------------------------------------------
(* The prediction                                                          *)

\* An agent that stands on a cell of a place is at that place.
LEMMA CellPlace ==
  ASSUME NEW place \in Places, NEW cell \in CellsOf(place)
  PROVE  PlaceOf(cell) = place
  <1>1. HandleLeft # HandleRight /\ HandleLeft \notin GoalCells /\ HandleRight \notin GoalCells
    BY GridCells DEF Handles
  <1>2. CASE place = "goal"
    BY <1>1, <1>2 DEF PlaceOf, CellsOf
  <1>3. CASE place = "handle_left"
    BY <1>1, <1>3 DEF PlaceOf, CellsOf
  <1>4. CASE place = "handle_right"
    BY <1>1, <1>4 DEF PlaceOf, CellsOf
  <1> QED
    BY <1>2, <1>3, <1>4 DEF Places

\* A walk the model deems applicable ends where the model says.
LEMMA WalkPredicted ==
  ASSUME KitInv, Arrive, Issued, answer'.kind = "success"
  PROVE  Project(cached') = Apply(Project(cached), call)
  <1>1. /\ phase = "running" /\ call.op = "Goto" /\ call.agent \in Agents
        /\ at[call.agent] \in CellsOf(call.target) /\ cached' = Read
    BY DEF Arrive, Running, Succeed, Fail, Fault, Over
  <1>2. /\ call.agent \in Agents /\ cached # NoState
        /\ cached.open = open /\ \E a \in Agents : Behind(a)
    BY <1>1, CallTypes DEF KitInv, Lag
  <1>3. call.target \in Places /\ PlaceOf(cached.at[call.agent]) # call.target
    BY <1>1, <1>2 DEF Issued, Applicable, MayGo, Project
  <1>4. PlaceOf(at[call.agent]) = call.target
    BY <1>1, <1>3, CellPlace
  <1>5. Behind(call.agent)
    BY <1>2, <1>3, <1>4 DEF Behind
  <1>6. Project(cached') = [at |-> [a \in Agents |-> PlaceOf(at[a])], open |-> open]
    BY <1>1 DEF Project, Read
  <1>7. Apply(Project(cached), call) =
          [at |-> [[a \in Agents |-> PlaceOf(cached.at[a])] EXCEPT ![call.agent] = call.target],
           open |-> open]
    BY <1>1, <1>2 DEF Apply, Project
  <1>8. [a \in Agents |-> PlaceOf(at[a])] =
          [[a \in Agents |-> PlaceOf(cached.at[a])] EXCEPT ![call.agent] = call.target]
    BY <1>2, <1>4, <1>5 DEF Behind
  <1> QED
    BY <1>6, <1>7, <1>8

\* Of any attempt the model would have let begin.
LEMMA SuccessPredicted ==
  ASSUME KitInv, Next, Completes, Issued, answer'.kind = "success"
  PROVE  Project(cached') = Apply(Project(cached), call)
  <1>1. Attempt
    BY DEF Completes, Next, EnvironmentReset, Refuse, Reject, Begin
  <1>2. ~Walk /\ ~NoWay /\ ~NoWalker /\ ~BackendRaises
    BY NoWayKeeps, NoWalkerKeeps, RaisesKeep DEF Completes, Walk
  <1>3. CASE Arrive
    BY <1>3, WalkPredicted
  <1>4. CASE CooperateOpen
    <2>1. /\ cached' = Read' /\ at' = at /\ cached.at = at /\ open' = TRUE
          /\ call.op = "CooperateOpen"
      BY <1>4, OpenKeeps DEF EndsFresh, CooperateOpen, Running, KitInv, GridOK
    <2> QED
      BY <2>1 DEF Project, Apply, Read
  <1>5. CASE ClearJam
    <2>1. /\ cached' = Read' /\ at' = at /\ cached.at = at /\ open' = open
          /\ call.op = "ClearJam" /\ phase = "running"
      BY <1>5, ShakeKeeps DEF EndsFresh, ClearJam, Running
    <2>2. cached.open = open
      BY <2>1, CallTypes DEF KitInv, Lag
    <2> QED
      BY <2>1, <2>2 DEF Project, Apply, Read
  <1> QED
    BY <1>1, <1>2, <1>3, <1>4, <1>5 DEF Attempt

\* Of the calls the symbolic model deems applicable, those that succeed realise the state
\* it predicts (model.py, apply_call): also from a stale cache, and whatever the jam.
THEOREM PredictionsHold == Spec => NoSurprise
  <1> DEFINE Predicted == Completes /\ Issued /\ answer'.kind = "success"
                            => Project(cached') = Apply(Project(cached), call)
  <1>1. KitInv /\ [Next]_vars => [Predicted]_vars
    BY SuccessPredicted
  <1>2. NoSurprise <=> [][Predicted]_vars
    BY DEF NoSurprise
  <1> QED
    BY <1>1, <1>2, Invariant, PTL DEF Spec

-----------------------------------------------------------------------------
(* An episode under the loop                                               *)

\* A walk is the only part of an attempt that takes several steps; what ends one reports
\* all its steps.
LEMMA AttemptReports ==
  ASSUME KitInv, Attempt
  PROVE  /\ phase = "running" /\ KitInv'
         /\ phase' = "running" => /\ cached' = cached /\ call' = call
                                  /\ prim' - prim = steps' - steps
         /\ phase' = "idle" => /\ answer'.prim - prim = steps' - steps
                               /\ prim' = 0 /\ cached' \in States
                               /\ answer'.kind \in {"success", "failure", "fault"}
         /\ phase' \in {"idle", "running"}
  <1>1. steps \in Nat /\ prim \in Nat /\ phase = "running"
    BY DEF KitInv, GridOK, KitOK, Attempt, Walk, NoWay, NoWalker, Arrive, CooperateOpen,
           ClearJam, BackendRaises, Running
  <1>2. cached \in States
    BY <1>1, CallTypes DEF KitInv
  <1>3. CASE Walk
    BY <1>1, <1>3, WalkKeeps DEF Walk, Step
  <1>4. CASE NoWay
    <2>1. phase' = "idle" /\ steps' = steps /\ prim = 0 /\ prim' = 0 /\ cached' = cached
      BY <1>4 DEF NoWay, Fail, Fault, Over, SameWorld, gridVars
    <2> QED
      BY <1>1, <1>2, <1>4, <2>1, NoWayKeeps
  <1>5. CASE NoWalker
    <2>1. phase' = "idle" /\ steps' = steps /\ prim' = 0 /\ cached' = cached
      BY <1>5 DEF NoWalker, Fault, Over, gridVars
    <2> QED
      BY <1>1, <1>2, <1>5, <2>1, NoWalkerKeeps
  <1>6. CASE Arrive \/ CooperateOpen \/ ClearJam
    <2>1. /\ EndsFresh /\ answer'.prim - prim = steps' - steps
      BY <1>1, <1>6, ArriveKeeps, OpenKeeps, ShakeKeeps DEF Arrive, gridVars
    <2>2. prim' = 0
      BY <1>6 DEF Arrive, CooperateOpen, ClearJam, Succeed, Fail, Fault, Over
    <2>3. cached' \in States
      BY <2>1 DEF EndsFresh, KitInv, GridOK, Read, States, Ended
    <2> QED
      BY <1>1, <2>1, <2>2, <2>3 DEF EndsFresh
  <1>7. CASE BackendRaises
    <2>1. phase' = "idle" /\ steps' = steps /\ prim' = 0 /\ cached' = cached
      BY <1>7 DEF BackendRaises, Fault, Over, gridVars
    <2> QED
      BY <1>1, <1>2, <1>7, <2>1, RaisesKeep
  <1> QED
    BY <1>3, <1>4, <1>6, <1>7, <1>5 DEF Attempt

\* The backend's own episode ends no later than max_steps.
StepsLeft == steps <= maxSteps /\ (steps = maxSteps => Ended)

LEMMA StepsStayLeft ==
  ASSUME GridOK, StepsLeft, [GridNext]_gridVars
  PROVE  StepsLeft'
  <1>1. steps \in Nat /\ maxSteps \in Nat \ {0} /\ terminated \in BOOLEAN
    BY GridSteps DEF GridOK
  <1>2. CASE Reset
    BY <1>1, <1>2 DEF Reset, StepsLeft, built
  <1>3. CASE \E joint \in [Agents -> Actions] : Step(joint)
    <2>1. /\ ~Ended /\ steps' = steps + 1 /\ maxSteps' = maxSteps
          /\ truncated' = (~terminated' /\ steps' >= maxSteps)
      BY <1>3 DEF Step, built
    <2>2. maxSteps' \in Nat /\ steps' <= maxSteps'
      BY <1>1, <2>1 DEF StepsLeft
    <2>3. steps' = maxSteps' => steps' >= maxSteps
      BY <1>1, <2>1
    <2>4. steps' >= maxSteps => terminated' \/ truncated'
      BY <2>1, Zenon
    <2> QED
      BY <2>2, <2>3, <2>4 DEF StepsLeft, Ended
  <1>4. CASE UNCHANGED gridVars
    BY <1>4 DEF gridVars, built, StepsLeft, Ended
  <1> QED
    BY <1>2, <1>3, <1>4 DEF GridNext

\* The calls the planner grounds have identities the environment knows.
LEMMA CandidateCalls == Candidates \in Seq(Calls)
  <1>1. A \in Agents /\ B \in Agents
    BY DEF Agents
  <1>2. \A a \in Agents, place \in Places :
          [op |-> "Goto", agent |-> a, target |-> place, partner |-> NoPartner] \in Calls
    BY DEF Calls, Names
  <1>3. [op |-> "CooperateOpen", agent |-> A, target |-> DoorName, partner |-> B] \in Calls
    BY <1>1 DEF Calls, Names
  <1>4. \A a \in Agents :
          [op |-> "ClearJam", agent |-> a, target |-> DoorName, partner |-> NoPartner] \in Calls
    BY DEF Calls, Names
  <1>5. {"goal", "handle_left", "handle_right"} \subseteq Places
    BY DEF Places
  <1> QED
    BY <1>1, <1>2, <1>3, <1>4, <1>5 DEF Candidates

LEMMA PlannedCalls == Planned \subseteq Calls
  BY CandidateCalls DEF Planned

\* Advice names shakes that the planner grounds.
LEMMA AdvicePlanned == ASSUME NEW c \in Planned PROVE Recover(c) \in Seq(Planned)
  <1>1. CASE c.op # "CooperateOpen"
    BY <1>1 DEF Recover
  <1>2. CASE c.op = "CooperateOpen"
    <2>1. c = [op |-> "CooperateOpen", agent |-> A, target |-> DoorName, partner |-> B]
      BY <1>2 DEF Planned, Candidates
    <2>2. Recover(c) = <<[c EXCEPT !.op = "ClearJam", !.partner = NoPartner]>>
      BY <1>2 DEF Recover
    <2>3. Candidates[8] =
            [op |-> "ClearJam", agent |-> A, target |-> DoorName, partner |-> NoPartner]
      BY DEF Candidates
    <2>4. [c EXCEPT !.op = "ClearJam", !.partner = NoPartner] = Candidates[8]
      <3> DEFINE halfway == [c EXCEPT !.op = "ClearJam"]
      <3>1. halfway = [op |-> "ClearJam", agent |-> A, target |-> DoorName, partner |-> B]
        BY <2>1
      <3>2. [halfway EXCEPT !.partner = NoPartner] = Candidates[8]
        <4> HIDE DEF halfway
        <4> QED
          BY <2>3, <3>1
      <3>3. [c EXCEPT !.op = "ClearJam", !.partner = NoPartner]
              = [halfway EXCEPT !.partner = NoPartner]
        OBVIOUS
      <3> QED
        BY <3>2, <3>3
    <2>5. Candidates[8] \in Planned
      BY DEF Planned, Candidates
    <2> QED
      BY <2>2, <2>4, <2>5
  <1> QED
    BY <1>1, <1>2

\* The calls evaluate() refuses in the state the loop sees.
Refusable == {c \in Planned : ~Applicable(Project(cached), c)}

\* The invariant of an episode: the environment works only on the call the loop waits for
\* at its gate, its steps are within the limit, and the loop sees the kit's cache.  What
\* evaluate() said at the start of a cycle is still so when the attempt begins and ends.
EpisodeInv ==
  /\ KitInv /\ StepsLeft
  /\ cached \in States
  /\ prim <= steps
  /\ phase = "running" => pc = "gate" /\ call = chosen
  /\ plan \in Planned \cup {NoHead, EmptyPlan}
  /\ pending \in Seq(Planned)
  /\ pc = "gate" => chosen \in Planned
  /\ pc \in {"plan", "select", "gate"} => inapplicable = Refusable
  /\ phase = "running" => Issued

LEMMA EpisodeStarts == EpisodeInit => EpisodeInv
  <1> SUFFICES ASSUME EpisodeInit PROVE EpisodeInv
    OBVIOUS
  <1>1. GridOK /\ steps = 0 /\ maxSteps \in Nat \ {0}
    BY GridStarts, GridSteps DEF EpisodeInit, GridInit
  <1>2. cached = Read /\ Read \in States
    BY <1>1, ReadTypes DEF EpisodeInit
  <1>3. KitOK /\ prim = 0 /\ phase = "idle"
    BY <1>2 DEF EpisodeInit, KitOK, NoAnswer, Kinds, Classes
  <1>4. Lag
    BY <1>2, <1>3, GridAgents
       DEF EpisodeInit, Lag, Settled, Behind, Read, NoAnswer, Agents
  <1>5. plan = NoHead /\ pending = <<>> /\ pc = "sync"
    BY DEF EpisodeInit, Loop!Init
  <1> QED
    BY <1>1, <1>2, <1>3, <1>4, <1>5 DEF EpisodeInv, KitInv, StepsLeft

\* Every step is one of the environment's own or leaves it alone.
LEMMA EpisodeMoves == EpisodeInv /\ [EpisodeNext]_episodeVars => [Next]_vars
  <1> SUFFICES ASSUME EpisodeInv, [EpisodeNext]_episodeVars PROVE [Next]_vars
    OBVIOUS
  <1>1. CASE StartCycle \/ PlannerAnswers \/ RequestRecovery \/ Alone
    BY <1>1 DEF StartCycle, PlannerAnswers, RequestRecovery, Alone
  <1>2. CASE BeginAttempt
    <2>1. chosen \in Calls /\ Begin(chosen)
      BY <1>2, PlannedCalls DEF BeginAttempt, Loop!Admitted, EpisodeInv
    <2> QED
      BY <2>1 DEF Next
  <1>3. CASE DuringAttempt \/ AttemptCompletes \/ AttemptDies \/ AttemptRefused
    BY <1>3 DEF DuringAttempt, AttemptCompletes, AttemptDies, AttemptRefused, Next
  <1>4. CASE UNCHANGED episodeVars
    BY <1>4 DEF episodeVars
  <1> QED
    BY <1>1, <1>2, <1>3, <1>4 DEF EpisodeNext

\* What the environment's variables contribute to the invariant.
LEMMA EpisodeEnvironment ==
  ASSUME EpisodeInv, [EpisodeNext]_episodeVars
  PROVE  KitInv' /\ StepsLeft'
  <1>1. [Next]_vars
    BY EpisodeMoves
  <1>2. [GridNext]_gridVars
    BY <1>1, NextIsGridNext
  <1> QED
    BY <1>1, <1>2, InvKeeps, StepsStayLeft DEF EpisodeInv, KitInv

\* The loop's own steps of a cycle.
LEMMA CycleKeeps ==
  ASSUME EpisodeInv, StartCycle \/ PlannerAnswers \/ RequestRecovery \/ Alone
  PROVE  EpisodeInv'
  <1>1. UNCHANGED vars /\ [EpisodeNext]_episodeVars
    BY DEF StartCycle, PlannerAnswers, RequestRecovery, Alone, EpisodeNext
  <1>2. /\ KitInv' /\ StepsLeft' /\ UNCHANGED <<cached, prim, steps, phase, call>>
        /\ Refusable' = Refusable /\ (phase = "running" => Issued')
    BY <1>1, EpisodeEnvironment DEF vars, gridVars, kitVars, Refusable, EpisodeInv, Issued
  <1>3. CASE StartCycle
    <2>1. /\ pc = "sync" /\ pc' = "plan" /\ UNCHANGED <<plan, pending, chosen>>
          /\ inapplicable' = Refusable
      BY <1>3 DEF Refusable, StartCycle, Loop!StartCycle, Loop!adviceVars
    <2> QED
      BY <1>2, <2>1 DEF EpisodeInv
  <1>4. CASE PlannerAnswers
    <2>1. /\ pc = "plan" /\ pc' = "select" /\ plan' \in Planned \cup {NoHead, EmptyPlan}
          /\ UNCHANGED <<pending, chosen, inapplicable>>
      BY <1>4 DEF PlannerAnswers, Loop!PlannerAnswers, Loop!adviceVars
    <2> QED
      BY <1>2, <2>1 DEF EpisodeInv
  <1>5. CASE RequestRecovery
    <2>1. /\ pc = "select" /\ pc' = pc /\ UNCHANGED <<plan, chosen, inapplicable>>
          /\ Loop!Route = "escape" /\ pending' = Recover(plan)
      BY <1>5 DEF RequestRecovery, Loop!RequestRecovery, Loop!cycleVars
    <2>2. plan \in Planned
      BY <2>1 DEF Loop!Route, Loop!RouteAt, EpisodeInv
    <2>3. pending' \in Seq(Planned)
      BY <2>1, <2>2, AdvicePlanned
    <2> QED
      BY <1>2, <2>1, <2>3 DEF EpisodeInv
  <1>6. CASE Alone
    <2>1. CASE Loop!SelectExecute
      <3>1. /\ pc = "select" /\ pc' = "gate" /\ UNCHANGED <<plan, pending, inapplicable>>
            /\ chosen' = Loop!Enacted /\ Loop!Route = "execute"
        BY <2>1 DEF Loop!SelectExecute, Loop!adviceVars
      <3>2. chosen' \in Planned
        <4>1. CASE Loop!Standing
          BY <3>1, <4>1 DEF Loop!Standing, Loop!Enacted, EpisodeInv
        <4>2. CASE ~Loop!Standing
          BY <3>1, <4>2 DEF Loop!Route, Loop!RouteAt, Loop!Enacted, EpisodeInv
        <4> QED
          BY <4>1, <4>2
      <3> QED
        BY <1>2, <3>1, <3>2 DEF EpisodeInv
    <2>2. CASE Loop!GoalReached \/ Loop!BudgetStops \/ Loop!HaltRepeatedFailure
      <3>1. /\ pc # "gate" /\ pc' = "done" /\ UNCHANGED <<plan, pending, chosen>>
        BY <2>2 DEF Loop!GoalReached, Loop!BudgetStops, Loop!HaltRepeatedFailure,
                    Loop!Finish, Loop!cycleVars, Loop!adviceVars
      <3> QED
        BY <1>2, <3>1 DEF EpisodeInv
    <2>3. CASE Loop!SettleCharged \/ Loop!SettleIdle \/ Loop!LivenessGuard
      <3>1. /\ pc # "gate" /\ pc' \in {"sync", "done"} /\ plan' = NoHead
            /\ UNCHANGED pending
        BY <2>3 DEF Loop!SettleCharged, Loop!SettleIdle, Loop!LivenessGuard, Loop!Finish,
                    Loop!LeaveCycle, Loop!adviceVars
      <3> QED
        BY <1>2, <3>1 DEF EpisodeInv
    <2> QED
      BY <1>6, <2>1, <2>2, <2>3 DEF Alone
  <1> QED
    BY <1>3, <1>4, <1>5, <1>6

\* The steps in which the environment answers the call the loop chose.
LEMMA AttemptKeeps ==
  ASSUME EpisodeInv,
         BeginAttempt \/ DuringAttempt \/ AttemptCompletes \/ AttemptDies \/ AttemptRefused
  PROVE  EpisodeInv'
  <1>1. KitInv' /\ StepsLeft'
    BY EpisodeEnvironment DEF EpisodeNext
  <1>2. steps \in Nat /\ prim \in Nat /\ steps' \in Nat /\ prim' \in Nat
    BY <1>1 DEF EpisodeInv, KitInv, GridOK, KitOK
  <1>3. CASE BeginAttempt
    <2>1. /\ pc = "gate" /\ call' = chosen /\ prim' = 0 /\ UNCHANGED <<cached, loopVars>>
          /\ chosen \notin inapplicable
      BY <1>3 DEF BeginAttempt, Begin, Loop!Admitted
    <2>2. Issued' /\ Refusable' = Refusable
      BY <2>1 DEF EpisodeInv, Refusable, Issued
    <2> QED
      BY <1>1, <1>2, <2>1, <2>2 DEF EpisodeInv, loopVars
  <1>4. CASE DuringAttempt
    <2>1. Attempt /\ phase' = "running" /\ UNCHANGED loopVars
      BY <1>4 DEF DuringAttempt
    <2>2. /\ phase = "running" /\ cached' = cached /\ call' = call
          /\ prim' - prim = steps' - steps
      BY <2>1, AttemptReports DEF EpisodeInv
    <2>3. Issued' /\ Refusable' = Refusable
      BY <2>2 DEF EpisodeInv, Refusable, Issued
    <2> QED
      BY <1>1, <1>2, <2>1, <2>2, <2>3 DEF EpisodeInv, loopVars
  <1>5. CASE AttemptCompletes \/ AttemptDies
    <2>1. Attempt /\ phase' = "idle"
      BY <1>5 DEF AttemptCompletes, AttemptDies
    <2>2. prim' = 0 /\ cached' \in States
      BY <2>1, AttemptReports DEF EpisodeInv
    <2>3. pc' \in {"settle", "done"} /\ plan' = plan
      BY <1>5 DEF AttemptCompletes, AttemptDies, Loop!Completes, Loop!FaultsMidway,
                  Loop!MaybeFaultHalt, Loop!Finish, Loop!cycleVars
    <2>4. pending' \in Seq(Planned)
      <3>1. pending' \in {pending, IF Loop!Standing THEN Tail(pending) ELSE pending}
        BY <1>5 DEF AttemptCompletes, AttemptDies, Loop!Completes, Loop!FaultsMidway,
                    Loop!adviceVars
      <3> QED
        BY <3>1 DEF EpisodeInv, Loop!Standing
    <2> QED
      BY <1>1, <1>2, <2>1, <2>2, <2>3, <2>4 DEF EpisodeInv
  <1>6. CASE AttemptRefused
    <2>1. /\ phase = "idle" /\ UNCHANGED <<gridVars, cached, phase, call, prim>>
          /\ pc' \in {"settle", "done"} /\ UNCHANGED <<plan, pending>>
      BY <1>6 DEF AttemptRefused, Refuse, Loop!RefusesTerminal, Loop!MaybeFaultHalt,
                  Loop!Finish, Loop!cycleVars, Loop!adviceVars
    <2> QED
      BY <1>1, <1>2, <2>1 DEF EpisodeInv, gridVars
  <1> QED
    BY <1>3, <1>4, <1>5, <1>6

LEMMA EpisodeKeeps == EpisodeInv /\ [EpisodeNext]_episodeVars => EpisodeInv'
  <1> SUFFICES ASSUME EpisodeInv, [EpisodeNext]_episodeVars PROVE EpisodeInv'
    OBVIOUS
  <1>1. CASE UNCHANGED episodeVars
    <2>1. UNCHANGED <<cached, prim, steps, phase, call, plan, pending, pc, chosen, inapplicable>>
      BY <1>1 DEF episodeVars, vars, gridVars, kitVars, loopVars
    <2>2. Refusable' = Refusable /\ Issued' = Issued
      BY <2>1 DEF Refusable, Issued
    <2> QED
      BY <2>1, <2>2, EpisodeEnvironment DEF EpisodeInv
  <1> QED
    BY <1>1, CycleKeeps, AttemptKeeps DEF EpisodeNext

\* In every episode the loop chooses, believes and is advised of nothing but calls the
\* planner grounds, the environment works on the chosen one alone and within max_steps, and
\* what the loop sees, the kit's cache, lags as it may (PlanningRuntime.run over the kit).
THEOREM EpisodeCorrect == EpisodeSpec => []EpisodeInv
  BY EpisodeStarts, EpisodeKeeps, PTL DEF EpisodeSpec

\* A call is diagnosed only when it failed.
OnlyFailuresDiagnosed ==
  [][diagnosed' # diagnosed => answer'.kind = "failure"]_episodeVars

\* The monitor blames no success: whatever reaches the executor was applicable in the state
\* the loop saw, and then a success is what the model predicts, so that recovery advice is
\* asked about failures alone (kit/services.py, symbolic/monitor.py).
THEOREM EpisodeBlamesFailures == EpisodeSpec => OnlyFailuresDiagnosed
  <1> DEFINE Blamed == diagnosed' # diagnosed => answer'.kind = "failure"
  <1>1. EpisodeInv /\ [EpisodeNext]_episodeVars => [Blamed]_episodeVars
    <2> SUFFICES ASSUME EpisodeInv, EpisodeNext, diagnosed' # diagnosed
                 PROVE  answer'.kind = "failure"
      BY DEF episodeVars, loopVars
    <2>1. AttemptCompletes
      BY DEF EpisodeNext, StartCycle, PlannerAnswers, RequestRecovery, Alone, BeginAttempt,
             DuringAttempt, AttemptDies, AttemptRefused, episodeVars, loopVars,
             Loop!StartCycle, Loop!PlannerAnswers, Loop!RequestRecovery, Loop!GoalReached,
             Loop!BudgetStops, Loop!SelectExecute, Loop!HaltRepeatedFailure,
             Loop!SettleCharged, Loop!SettleIdle, Loop!LivenessGuard, Loop!FaultsMidway,
             Loop!RefusesTerminal, Loop!fixedVars
    <2>2. Attempt /\ phase = "running" /\ phase' = "idle" /\ answer'.kind # "fault"
      BY <2>1, AttemptReports DEF AttemptCompletes, EpisodeInv
    <2>3. call = chosen /\ Issued /\ Discrepant
      BY <2>1, <2>2 DEF EpisodeInv, AttemptCompletes
    <2>4. answer'.kind # "success"
      BY <2>2, <2>3, SuccessPredicted DEF Discrepant, Next, Completes, EpisodeInv
    <2>5. answer'.kind \in {"success", "failure"}
      BY <2>2, AttemptReports DEF EpisodeInv
    <2> QED
      BY <2>4, <2>5
  <1>2. OnlyFailuresDiagnosed <=> [][Blamed]_episodeVars
    BY DEF OnlyFailuresDiagnosed
  <1> QED
    BY <1>1, <1>2, EpisodeCorrect, PTL DEF EpisodeSpec

\* The backend's guarantee holds in every episode.
THEOREM EpisodeDoorHolds == EpisodeSpec => []DoorHolds
  <1>1. EpisodeInit => GridInit
    BY DEF EpisodeInit
  <1>2. EpisodeInv /\ [EpisodeNext]_episodeVars => [GridNext]_gridVars
    BY EpisodeMoves, NextIsGridNext
  <1>3. EpisodeSpec => GridSpec
    BY <1>1, <1>2, EpisodeCorrect, PTL DEF EpisodeSpec, GridSpec
  <1> QED
    BY <1>3, BackendDoorHolds, PTL

\* No attempt takes more primitive steps than max_steps allows, and it ends in a world.
LEMMA AttemptBounded ==
  ASSUME EpisodeInv, EpisodeInv', Attempt, phase' = "idle"
  PROVE  answer'.prim \in 0 .. MaxPrimitives /\ Key(cached') \in Worlds
  <1>1. /\ prim \in Nat /\ steps \in Nat /\ prim <= steps /\ steps' \in Nat
        /\ steps' <= maxSteps' /\ maxSteps' \in StepLimits
    BY DEF EpisodeInv, KitInv, KitOK, GridOK, StepsLeft
  <1>2. answer'.prim - prim = steps' - steps /\ answer'.prim \in Nat
    BY AttemptReports DEF EpisodeInv, KitInv, KitOK
  <1>3. maxSteps' \in Nat /\ maxSteps' <= MaxPrimitives /\ MaxPrimitives \in Nat
    BY <1>1, GridSteps, EpisodeAssumption
  <1>4. answer'.prim <= steps'
    BY <1>1, <1>2
  <1>5. Key(cached') \in Worlds
    BY DEF EpisodeInv, States, Key, Worlds
  <1> QED
    BY <1>1, <1>2, <1>3, <1>4, <1>5

LEMMA LoopMoves == EpisodeInv /\ EpisodeInv' /\ [EpisodeNext]_episodeVars => [Loop!Next]_(Loop!vars)
  <1> SUFFICES ASSUME EpisodeInv, EpisodeInv', [EpisodeNext]_episodeVars
               PROVE  [Loop!Next]_(Loop!vars)
    OBVIOUS
  <1>1. ASSUME UNCHANGED <<loopVars, cached>> PROVE UNCHANGED Loop!vars
    BY <1>1 DEF loopVars, Key, Loop!vars, Loop!fixedVars, Loop!envVars, Loop!beliefVars,
                Loop!cycleVars, Loop!adviceVars, Loop!nlVars, Loop!bookVars,
                Loop!historyVars, Loop!ghostVars
  <1>2. CASE StartCycle \/ PlannerAnswers
    BY <1>2 DEF StartCycle, PlannerAnswers, Loop!Next
  <1>3. CASE RequestRecovery \/ Alone
    BY <1>3 DEF RequestRecovery, Alone, Loop!Next, Loop!Select
  <1>4. CASE BeginAttempt
    BY <1>1, <1>4 DEF BeginAttempt, Begin
  <1>5. CASE DuringAttempt
    <2>1. cached' = cached /\ UNCHANGED loopVars
      BY <1>5, AttemptReports DEF DuringAttempt, EpisodeInv
    <2> QED
      BY <1>1, <2>1
  <1>6. CASE AttemptCompletes
    <2>1. Loop!Completes(answer'.prim, Key(cached')) /\ Attempt /\ phase' = "idle"
      BY <1>6 DEF AttemptCompletes
    <2>2. answer'.prim \in 0 .. MaxPrimitives /\ Key(cached') \in Worlds
      BY <2>1, AttemptBounded
    <2> QED
      BY <2>1, <2>2 DEF Loop!Next, Loop!Attempt
  <1>7. CASE AttemptDies
    <2>1. Loop!FaultsMidway(answer'.prim, Key(cached')) /\ Attempt /\ phase' = "idle"
      BY <1>7 DEF AttemptDies
    <2>2. answer'.prim \in 0 .. MaxPrimitives /\ Key(cached') \in Worlds
      BY <2>1, AttemptBounded
    <2> QED
      BY <2>1, <2>2 DEF Loop!Next, Loop!Attempt
  <1>8. CASE AttemptRefused
    BY <1>8 DEF AttemptRefused, Loop!Next, Loop!Attempt
  <1>9. CASE UNCHANGED episodeVars
    BY <1>1, <1>9 DEF episodeVars, vars, kitVars
  <1> QED
    BY <1>2, <1>3, <1>4, <1>5, <1>6, <1>7, <1>8, <1>9 DEF EpisodeNext

\* An episode of the domain is one of the loop's, whatever the layout and the limit: what is
\* proved of the loop for every domain package holds in it, also when max_steps ends an
\* attempt half way and the loop goes on with the cache (app/assembly.py).
THEOREM EpisodeImplementsLoop == EpisodeSpec => Loop!Init /\ [][Loop!Next]_(Loop!vars)
  <1>1. EpisodeInit => Loop!Init
    BY DEF EpisodeInit
  <1> QED
    BY <1>1, LoopMoves, EpisodeCorrect, PTL DEF EpisodeSpec

\* What the loop takes for granted of its calls, its worlds and its advice holds of this
\* domain's: recover() names no call that the planner cannot ground.
THEOREM LoopAssumptionsMet ==
  /\ {NoCall, NoHead, EmptyPlan} \cap Planned = {}
  /\ {w \in Worlds : Reached(Project(w))} \subseteq Worlds /\ NoWorld \notin Worlds
  /\ {<<>>} \cup {Recover(c) : c \in Planned} \subseteq Seq(Planned)
  <1>1. \A c \in Calls : c.op # "none"
    BY DEF Calls
  <1>2. NoCall.op = "none"
    BY DEF NoCall
  <1>3. NoCall \notin Planned
    BY <1>1, <1>2, PlannedCalls
  <1>4. <<>> \in Seq(Planned) /\ \A c \in Planned : Recover(c) \in Seq(Planned)
    BY AdvicePlanned
  <1> QED
    BY <1>3, <1>4, EpisodeAssumption

=============================================================================
