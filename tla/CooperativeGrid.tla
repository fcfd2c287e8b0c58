--------------------------- MODULE CooperativeGrid ---------------------------
(***************************************************************************)
(* The environment of the cooperative_grid domain: the kit's               *)
(* EnvironmentBase (kit/environment.py) with the hooks of                  *)
(* domains/cooperative_grid/environment.py over the backend.               *)
(*                                                                         *)
(* The kit keeps the authoritative state as a value, `cached`, which only  *)
(* a completed attempt replaces; the backend is mutable and steps on its   *)
(* own.  A caller may reset, or issue any call, whenever no attempt runs.  *)
(***************************************************************************)
EXTENDS CooperativeGridWorld

CONSTANTS
  NoState,     \* _state before the first reset()
  NoPartner,   \* a call without a second agent
  DoorName     \* the identity of the door

VARIABLES
  cached,   \* _state
  phase,    \* "idle" or "running"
  call,     \* the call of the attempt
  path,     \* the moves of a walk that are left
  prim,     \* _primitive_steps
  answer    \* what execute_skill returned or raised

kitVars == <<cached, phase, call, path, prim, answer>>

vars == <<gridVars, kitVars>>

Places == {"goal", "handle_left", "handle_right"}

CellsOf(place) ==
  CASE place = "handle_left" -> {HandleLeft}
    [] place = "handle_right" -> {HandleRight}
    [] place = "goal" -> GoalCells

\* Who acts may be any identity of the state; the door stands for all that are no agents.
Names == Agents \cup {DoorName}

\* The calls that ground_by_identity() lets pass, sensible or not.  As the target of a walk
\* the door stands for all that is no place; of the other operations the target matters to
\* the symbolic model alone, which asks whether it is the door.
Calls ==
  [op : {"Goto", "CooperateOpen", "ClearJam"}, agent : Names,
   target : Places \cup {DoorName}, partner : Names \cup {NoPartner}]

NoCall == [op |-> "none"]

\* The state as a value: the world, and whether the episode is over.
States == [at : [Agents -> Cells], open : BOOLEAN, jammed : BOOLEAN, over : BOOLEAN]

\* _read(): derived from a fresh snapshot of the backend.
Read == [at |-> at, open |-> open, jammed |-> jammed, over |-> Ended]

\* same_world(): the bookkeeping of the episode is not world content.
SameWorld(s, t) == s.at = t.at /\ s.open = t.open /\ s.jammed = t.jammed

Kinds == {"none", "refused", "rejected", "success", "failure", "fault"}
Classes == {"none", "partial_execution", "unchanged", "rejected_before_transition"}

NoAnswer == [kind |-> "none", class |-> "none", prim |-> 0]

KitOK ==
  /\ cached \in States \cup {NoState}
  /\ phase \in {"idle", "running"}
  /\ phase = "running" => cached # NoState
  /\ call \in (IF phase = "running" THEN Calls ELSE {NoCall})
  /\ prim \in Nat
  /\ answer \in [kind : Kinds, class : Classes, prim : Nat]

TypeOK == GridOK /\ KitOK /\ path \in Seq(Moves)

-----------------------------------------------------------------------------
(* The calls outside an attempt                                            *)

EnvironmentReset ==
  /\ phase = "idle"
  /\ Reset
  /\ cached' = Read'
  /\ answer' = NoAnswer
  /\ UNCHANGED <<phase, call, path, prim>>

\* Before reset() and after the terminal state a call is refused by a fault.
Refused == cached # NoState => cached.over

Refuse ==
  /\ phase = "idle" /\ Refused
  /\ answer' = [NoAnswer EXCEPT !.kind = "refused"]
  /\ UNCHANGED <<gridVars, cached, phase, call, path, prim>>

\* No Call, or a call that names an identity the state lacks: a typed answer.
Reject ==
  /\ phase = "idle" /\ ~Refused
  /\ answer' = [NoAnswer EXCEPT !.kind = "rejected"]
  /\ UNCHANGED <<gridVars, cached, phase, call, path, prim>>

\* The agent can walk to the place.
HasWay(c) == c.agent \in Agents /\ c.target \in Places /\ Reachable(c.agent, CellsOf(c.target))

\* A walk asks the backend for its way before the first step.
WayOf(c) ==
  IF c.op = "Goto" /\ HasWay(c) THEN Route(c.agent, CellsOf(c.target)) ELSE <<>>

Begin(c) ==
  /\ phase = "idle" /\ ~Refused
  /\ phase' = "running" /\ call' = c /\ path' = WayOf(c) /\ prim' = 0
  /\ answer' = NoAnswer
  /\ UNCHANGED <<gridVars, cached>>

-----------------------------------------------------------------------------
(* The attempt                                                             *)

\* The attempt ends; what is not kept is cleared.
Over(result) ==
  /\ phase' = "idle" /\ call' = NoCall /\ path' = <<>> /\ prim' = 0
  /\ answer' = result

\* Mutant: the state the attempt began with is kept.
SucceedStale(n, post) ==
  /\ cached' = cached
  /\ Over([kind |-> "success", class |-> "none", prim |-> n])

Succeed(n, post) ==
  /\ cached' = post
  /\ Over([kind |-> "success", class |-> "none", prim |-> n])

\* An exception inside _attempt is a fault that reports the primitives noted; the
\* cached state is left as it was.
Fault(n) ==
  /\ cached' = cached
  /\ Over([kind |-> "fault", class |-> "none", prim |-> n])

\* failed(): the class is derived where the world changed, and naming another one there
\* raises.
Fail(n, post, named) ==
  IF SameWorld(cached, post)
  THEN cached' = post /\ Over([kind |-> "failure", class |-> named, prim |-> n])
  ELSE IF named \in {"none", "partial_execution"}
  THEN cached' = post /\ Over([kind |-> "failure", class |-> "partial_execution", prim |-> n])
  ELSE Fault(n)

Running(op) == phase = "running" /\ call.op = op

\* NOOP for every agent not named; a name that is no agent's is dropped.
Joint(actors, action) == [a \in Agents |-> IF a \in actors THEN action ELSE NOOP]

\* _goto, for a target that is no place or to which there is no way.
NoWay ==
  /\ Running("Goto") /\ prim = 0
  /\ call.target \in Places => call.agent \in Agents /\ ~HasWay(call)
  /\ Fail(0, cached, "rejected_before_transition")
  /\ UNCHANGED gridVars

\* route() of what is no agent raises a KeyError, before any step.
NoWalker ==
  /\ Running("Goto") /\ call.target \in Places /\ call.agent \notin Agents
  /\ Fault(prim)
  /\ UNCHANGED gridVars

Walk ==
  /\ Running("Goto") /\ path # <<>>
  /\ \E move \in Moves : move = Head(path) /\ Step(Joint({call.agent}, move))
  /\ path' = Tail(path) /\ prim' = prim + 1
  /\ UNCHANGED <<cached, phase, call, answer>>

\* The truth of the walk is where it ended.
Arrive ==
  /\ Running("Goto") /\ path = <<>>
  /\ call.target \in Places /\ call.agent \in Agents
  /\ prim = 0 => at[call.agent] \in CellsOf(call.target)
  /\ IF at[call.agent] \in CellsOf(call.target) THEN Succeed(prim, Read)
     ELSE Fail(prim, Read, IF SameWorld(cached, Read) THEN "unchanged" ELSE "none")
  /\ UNCHANGED gridVars

Pullers == {call.agent} \cup ({call.partner} \ {NoPartner})

CooperateOpen ==
  /\ Running("CooperateOpen")
  /\ Step(Joint(Pullers, PULL))
  /\ IF open' THEN Succeed(1, Read') ELSE Fail(1, Read', "unchanged")

ClearJam ==
  /\ Running("ClearJam")
  /\ Step(Joint({call.agent}, SHAKE))
  /\ IF ~jammed' THEN Succeed(1, Read') ELSE Fail(1, Read', "unchanged")

\* The backend raises when its own episode is over.
BackendRaises ==
  /\ phase = "running" /\ Ended
  /\ call.op # "Goto" \/ path # <<>>
  /\ Fault(prim)
  /\ UNCHANGED gridVars

\* Before the first reset() the backend has no pieces; nothing looks at them.
Init ==
  /\ GridInit
  /\ cached = NoState /\ phase = "idle" /\ call = NoCall
  /\ path = <<>> /\ prim = 0 /\ answer = NoAnswer

Attempt ==
  Walk \/ NoWay \/ NoWalker \/ Arrive \/ CooperateOpen \/ ClearJam \/ BackendRaises

Next ==
  \/ EnvironmentReset \/ Refuse \/ Reject \/ (\E c \in Calls : Begin(c))
  \/ Attempt

Spec == Init /\ [][Next]_vars

=============================================================================
