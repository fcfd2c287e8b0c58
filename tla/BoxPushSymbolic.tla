--------------------------- MODULE BoxPushSymbolic ---------------------------
(***************************************************************************)
(* The symbolic track of the frozen V1 domain (symbolic/belief.py,         *)
(* applicability.py, planner.py, predictor.py and monitor.py over          *)
(* domain/box_push_v1.py) beside the attempts it plans, with the recovery  *)
(* proposer of nl/recovery.py.                                             *)
(*                                                                         *)
(* A symbolic state is the set of delivered boxes, whose complement is     *)
(* `pending`, and the in_pose literals.  discovered, light, heavy and      *)
(* different never vary.  The belief takes the first part from the world   *)
(* and keeps the second itself, from nothing but outcomes.                 *)
(***************************************************************************)
EXTENDS BoxPushAttempt, Sequences

CONSTANTS
  BoxOrder,   \* the boxes by id
  NoHead      \* the plan is empty, or there is none

ASSUME BoxOrderAssumption ==
  BoxOrder \in Seq(Boxes) /\ Boxes = {BoxOrder[i] : i \in DOMAIN BoxOrder}

VARIABLE tracked   \* the in_pose literals of the belief

SymbolicStates == [delivered : SUBSET Boxes, posed : SUBSET (Agents \X Boxes)]

\* project() and the belief's state.
Believing(w) == [delivered |-> w.delivered, posed |-> tracked]

Poses(c) == Participants(c) \X {c.box}

Light(b) == Required[b] = 1

-----------------------------------------------------------------------------
(* Applicability and effects                                               *)

\* Mutant: a push asks for any box.
ApplicableToHeavy(sym, c) ==
  /\ c.box \notin sym.delivered
  /\ CASE c.skill = "goto" -> TRUE
       [] c.skill = "push" -> Poses(c) \subseteq sym.posed
       [] c.skill = "coop" -> ~Light(c.box) /\ Poses(c) \subseteq sym.posed

Applicable(sym, c) ==
  /\ c.box \notin sym.delivered
  /\ CASE c.skill = "goto" -> TRUE
       [] c.skill = "push" -> Light(c.box) /\ Poses(c) \subseteq sym.posed
       [] c.skill = "coop" -> ~Light(c.box) /\ Poses(c) \subseteq sym.posed

\* A walk to one pose deletes no other: in_pose is not exclusive.
Apply(sym, c) ==
  IF c.skill = "goto" THEN [sym EXCEPT !.posed = @ \cup Poses(c)]
  ELSE [delivered |-> sym.delivered \cup {c.box}, posed |-> sym.posed \ Poses(c)]

\* Mutant: a failed walk establishes its pose.
TrackedOptimistic(c, success, changed) ==
  IF c.skill = "goto" THEN tracked \cup Poses(c)
  ELSE IF success THEN tracked \ Poses(c) ELSE tracked

\* record_outcome(): a failed push or cooperative push retracts nothing.
TrackedAfter(c, success, changed) ==
  CASE c.skill = "goto" /\ success -> tracked \cup Poses(c)
    [] c.skill = "goto" /\ ~success -> IF changed THEN tracked \ Poses(c) ELSE tracked
    [] c.skill \in {"push", "coop"} -> IF success THEN tracked \ Poses(c) ELSE tracked

-----------------------------------------------------------------------------
(* The planner                                                             *)

CallsOf(name, a) ==
  [i \in DOMAIN BoxOrder |-> [skill |-> name, agent |-> a, box |-> BoxOrder[i]]]

\* ground_calls(), sorted by skill name, agents and box.
Grounded ==
  CallsOf("coop", Agent0) \o CallsOf("goto", Agent0) \o CallsOf("goto", Agent1)
    \o CallsOf("push", Agent0) \o CallsOf("push", Agent1)

Planned == {Grounded[i] : i \in DOMAIN Grounded}

\* A box takes at most two walks and one push.
Horizon == 3 * Len(BoxOrder)

\* Solved[goal][n + 1]: the symbolic states that a plan of at most n calls solves.
Solved ==
  LET Grow(states) ==
        states \cup {s \in SymbolicStates :
                       \E c \in Planned : Applicable(s, c) /\ Apply(s, c) \in states}
      layers[goal \in SUBSET Boxes, n \in Nat] ==
        IF n = 0 THEN << {s \in SymbolicStates : goal \subseteq s.delivered} >>
        ELSE LET shorter == layers[goal, n - 1] IN Append(shorter, Grow(shorter[n]))
  IN  [goal \in SUBSET Boxes |-> layers[goal, Horizon]]

PlanLength(sym, goal) == Min({n \in 0 .. Horizon : sym \in Solved[goal][n + 1]})

\* The first call of what plan() finds: of the shortest plans the one whose calls come
\* first, call by call.
PlanHead(sym, goal) ==
  IF goal \subseteq sym.delivered \/ sym \notin Solved[goal][Horizon + 1] THEN NoHead
  ELSE Grounded[Min({i \in DOMAIN Grounded :
                       /\ Applicable(sym, Grounded[i])
                       /\ Apply(sym, Grounded[i]) \in Solved[goal][PlanLength(sym, goal)]})]

-----------------------------------------------------------------------------
(* Prediction, monitoring and recovery                                     *)

\* first_zone_cell_along(), as a set of at most one cell.
Landings(cell, d) ==
  LET hits == {n \in 1 .. Far : Toward(cell, d, n) \in GoalZone}
  IN  IF hits = {} THEN {} ELSE {Toward(cell, d, Min(hits))}

Delivering(w, b, cell) == [w EXCEPT !.box[b] = cell, !.delivered = @ \cup {b}]

\* Mutant: the pusher ends where the box was, as it does for a push by one cell.
PushedOneCell(w, c, cell) == [Delivering(w, c.box, cell) EXCEPT !.at[c.agent] = w.box[c.box]]

\* The pusher ends one cell behind the box, wherever the push ends.
Pushed(w, c, cell) ==
  [Delivering(w, c.box, cell) EXCEPT !.at[c.agent] = Toward(cell, w.facing[c.agent], -1)]

Paired(w, c, cell, front) ==
  LET d == PushDir(w.box[c.box])
  IN  [Delivering(w, c.box, cell) EXCEPT
         !.at = [a \in Agents |-> Toward(cell, d, IF a = front THEN -1 ELSE -2)],
         !.facing = [a \in Agents |-> d]]

\* predict_world_candidates(): a lone push goes where the agent faces; which of two
\* partners ends in front is left open.
PredictedWorlds(w, c) ==
  LET b == c.box
      d == PushDir(w.box[b])
  IN  CASE c.skill = "goto" ->
             {[w EXCEPT !.at[c.agent] = Behind(w.box[b], 1), !.facing[c.agent] = d]}
        [] c.skill = "push" ->
             {Pushed(w, c, cell) : cell \in Landings(w.box[b], w.facing[c.agent])}
        [] c.skill = "coop" ->
             {Paired(w, c, cell, front) : cell \in Landings(w.box[b], d), front \in Agents}

\* A success that differs from the prediction on either basis (STATE_EFFECT_MISMATCH).
Mismatch(sym, w, c, post) ==
  \/ Apply(sym, c).delivered # post.delivered
  \/ PredictedWorlds(w, c) # {} /\ post \notin PredictedWorlds(w, c)

\* propose_recovery(): a push that failed is preceded by its walks.
Recover(c) ==
  LET walk(a) == [skill |-> "goto", agent |-> a, box |-> c.box]
  IN  CASE c.skill = "goto" -> <<>>
        [] c.skill = "push" -> <<walk(c.agent)>>
        [] c.skill = "coop" -> <<walk(Agent0), walk(Agent1)>>

=============================================================================
