------------------------- MODULE CooperativeGridModel -------------------------
(***************************************************************************)
(* The symbolic model of the cooperative_grid domain                       *)
(* (domains/cooperative_grid/model.py) with the kit's breadth-first        *)
(* planner and derived services (kit/planning.py, kit/services.py), beside *)
(* the environment it is a model of.                                       *)
(*                                                                         *)
(* A symbolic state says at which named place every agent is and whether   *)
(* the door is open.  It knows no cell, and no jam.                        *)
(***************************************************************************)
EXTENDS CooperativeGrid, Functions

CONSTANT NoHead   \* the plan is empty, or there is none

Hall == "hall"

SymbolicStates == [at : [Agents -> Places \cup {Hall}], open : BOOLEAN]

PlaceOf(cell) ==
  CASE cell = HandleLeft -> "handle_left"
    [] cell = HandleRight -> "handle_right"
    [] cell \in GoalCells -> "goal"
    [] OTHER -> Hall

Project(s) == [at |-> [a \in Agents |-> PlaceOf(s.at[a])], open |-> s.open]

HandlePlaces == {"handle_left", "handle_right"}

\* Mutant: the door stays as it was.
ApplyWalksOnly(sym, c) ==
  IF c.op = "Goto" THEN [sym EXCEPT !.at[c.agent] = c.target] ELSE sym

\* The intended effect; shaking the door has none that the model knows.
Apply(sym, c) ==
  CASE c.op = "Goto" -> [sym EXCEPT !.at[c.agent] = c.target]
    [] c.op = "CooperateOpen" -> [sym EXCEPT !.open = TRUE]
    [] c.op = "ClearJam" -> sym

MayGo(sym, c) ==
  /\ c.partner = NoPartner /\ c.target \in Places
  /\ sym.at[c.agent] # c.target
  /\ c.target = "goal" => sym.open
  /\ c.target \in HandlePlaces => \A a \in Agents \ {c.agent} : sym.at[a] # c.target

\* Mutant: one handle is enough.
MayOpenHalfway(sym, c) ==
  /\ ~sym.open /\ c.partner \in Agents \ {c.agent}
  /\ sym.at[c.agent] \in HandlePlaces

MayOpen(sym, c) ==
  /\ ~sym.open /\ c.partner \in Agents \ {c.agent}
  /\ {sym.at[c.agent], sym.at[c.partner]} = HandlePlaces

MayShake(sym, c) ==
  c.partner = NoPartner /\ ~sym.open /\ sym.at[c.agent] \in HandlePlaces

Applicable(sym, c) ==
  /\ c.agent \in Agents
  /\ IF c.op = "Goto" THEN MayGo(sym, c)
     ELSE /\ c.target = DoorName
          /\ IF c.op = "CooperateOpen" THEN MayOpen(sym, c) ELSE MayShake(sym, c)

-----------------------------------------------------------------------------
(* The planner                                                             *)

\* The calls plan() enumerates, in its order.
Candidates ==
  << [op |-> "Goto", agent |-> A, target |-> "goal", partner |-> NoPartner],
     [op |-> "Goto", agent |-> A, target |-> "handle_left", partner |-> NoPartner],
     [op |-> "Goto", agent |-> A, target |-> "handle_right", partner |-> NoPartner],
     [op |-> "Goto", agent |-> B, target |-> "goal", partner |-> NoPartner],
     [op |-> "Goto", agent |-> B, target |-> "handle_left", partner |-> NoPartner],
     [op |-> "Goto", agent |-> B, target |-> "handle_right", partner |-> NoPartner],
     [op |-> "CooperateOpen", agent |-> A, target |-> DoorName, partner |-> B],
     [op |-> "ClearJam", agent |-> A, target |-> DoorName, partner |-> NoPartner],
     [op |-> "ClearJam", agent |-> B, target |-> DoorName, partner |-> NoPartner] >>

Reached(sym) == \A a \in Agents : sym.at[a] = "goal"

\* The symbolic states from which one call of the model leads into `solved`.
Before(solved) ==
  {s \in SymbolicStates : \E i \in DOMAIN Candidates :
     Applicable(s, Candidates[i]) /\ Apply(s, Candidates[i]) \in solved}

\* No symbolic state is further from the goal.
Horizon == 5

\* Solved[n + 1]: the symbolic states that a plan of at most n calls solves.
Solved ==
  LET layers[n \in Nat] ==
        IF n = 0 THEN << {s \in SymbolicStates : Reached(s)} >>
        ELSE LET shorter == layers[n - 1]
             IN  Append(shorter, shorter[n] \cup Before(shorter[n]))
  IN  layers[Horizon]

PlanLength(sym) == Min({n \in 0 .. Horizon : sym \in Solved[n + 1]})

\* The first call of what bfs_plan finds: of the shortest plans the one whose calls come
\* first, call by call.
PlanHead(sym) ==
  IF Reached(sym) \/ sym \notin Solved[Horizon + 1] THEN NoHead
  ELSE Candidates[Min({i \in DOMAIN Candidates :
                         /\ Applicable(sym, Candidates[i])
                         /\ Apply(sym, Candidates[i]) \in Solved[PlanLength(sym)]})]

\* recover(): a door that did not open is shaken.
Recover(c) ==
  IF c.op = "CooperateOpen"
  THEN <<[c EXCEPT !.op = "ClearJam", !.partner = NoPartner]>> ELSE <<>>

-----------------------------------------------------------------------------
(* Properties                                                              *)

\* The kit's cached state is what the backend says whenever a caller can look, except
\* after an attempt that died half way: only the end of the backend's own episode can
\* cause that, and what is missed are the last steps of one walk.  Any other fault (a walk
\* of what is no agent) took no step and leaves the cache fresh.
CacheLags ==
  /\ answer.kind = "fault" /\ ~Ended => answer.prim = 0 /\ cached = Read
  /\ phase = "idle" /\ cached \notin {NoState, Read} =>
       /\ truncated /\ ~cached.over
       /\ \E a \in Agents : SameWorld(Read, [cached EXCEPT !.at[a] = at[a]])

\* Every step of the backend is reported once: by the result of a completed attempt or,
\* when the attempt dies, by its fault (primitive_steps_before_failure).
StepsReported ==
  [][phase = "running" =>
       IF phase' = "running" THEN prim' - prim = steps' - steps
       ELSE answer'.prim - prim = steps' - steps]_vars

Completes == phase = "running" /\ phase' = "idle" /\ answer'.kind # "fault"

\* Whether the model would have let the loop issue the call that now runs.
Issued == Applicable(Project(cached), call)

\* A call the model deems applicable realises the predicted symbolic state when it
\* succeeds: the monitor never reports a mismatch, stale cache and hidden jam or not.
NoSurprise ==
  [][Completes /\ Issued /\ answer'.kind = "success"
       => Project(cached') = Apply(Project(cached), call)]_vars

\* A call the model deems applicable fails for two reasons only, and changes nothing
\* then: the door is jammed, or the other agent blocks the only way.
OnlyJamOrPartner ==
  [][Completes /\ Issued /\ answer'.kind = "failure" =>
       /\ SameWorld(cached, cached')
       /\ \/ call.op = "CooperateOpen" /\ jammed
          \/ /\ call.op = "Goto"
             /\ ~Reachable(call.agent, CellsOf(call.target))
             /\ Connected(at[call.agent], CellsOf(call.target), Cells \ {d \in {Door} : ~open})
    ]_vars

\* "After every attempt the authoritative State is derived from a fresh read of the
\* mutable simulator" (domains/cooperative_grid/environment.py); this is also what the
\* loop has to resynchronise from after a half-way attempt (shared/faults.py).
CacheFollowsBackend == phase = "idle" /\ cached # NoState => cached = Read

=============================================================================
