------------------------ MODULE BoxPushAttempt_proofs ------------------------
(***************************************************************************)
(* Theorems about BoxPushAttempt for an arena of any size, any zone, any   *)
(* number of boxes and any budgets below the runaway cap.                  *)
(***************************************************************************)
EXTENDS BoxPushAttempt, BoxPushWorld_proofs, WellFoundedInduction

USE SkillBoundsAssumption, HardCapAssumption

-----------------------------------------------------------------------------
(* Geometry                                                                *)

LEMMA LeastNat ==
  ASSUME NEW S \in SUBSET Nat, S # {}
  PROVE  \E m \in S : \A n \in S : m <= n
<1> DEFINE R == OpToRel(<, Nat)
<1>1. PICK m \in S : \A n \in S : <<n, m>> \notin R
  <2>1. IsWellFoundedOn(R, Nat)
    BY NatLessThanWellFounded
  <2> HIDE DEF R
  <2>2. QED
    BY <2>1, WFMin
<1>2. \A n \in S : ~(n < m)
  BY <1>1 DEF OpToRel
<1>3. QED
  BY <1>2

LEMMA DistanceNat ==
  ASSUME NEW c \in Int \X Int, NEW d \in Int \X Int
  PROVE  Distance(c, d) \in Nat
  BY DEF Distance

LEMMA TowardInt ==
  ASSUME NEW cell \in Int \X Int, NEW d, NEW n \in Int
  PROVE  Toward(cell, d, n) \in Int \X Int
  BY DEF Toward

LEMMA PushDirDirection ==
  ASSUME NEW cell
  PROVE  PushDir(cell) \in Directions
  BY DEF PushDir, Directions

\* The nearest cell of a set is one of its cells.
LEMMA NearestIn ==
  ASSUME NEW cells \in SUBSET Floor, cells # {}, NEW from \in Floor
  PROVE  Nearest(cells, from) \in cells
<1> DEFINE D == {Distance(from, n) : n \in cells}
<1>0. \A n \in Floor : n \in Int \X Int /\ n[1] \in Nat /\ n[2] \in Nat /\ n = <<n[1], n[2]>>
  BY DEF Floor
<1>1. PICK d \in D : \A e \in D : d <= e
  <2>1. D \in SUBSET Nat /\ D # {}
    BY <1>0, DistanceNat
  <2> HIDE DEF D
  <2>2. QED
    BY <2>1, LeastNat
<1> DEFINE C == {n \in cells : Distance(from, n) = d}
           X == {n[1] : n \in C}
<1>2. PICK x \in X : \A y \in X : x <= y
  <2>1. X \in SUBSET Nat /\ X # {}
    BY <1>0
  <2> HIDE DEF X
  <2>2. QED
    BY <2>1, LeastNat
<1> DEFINE E == {n \in C : n[1] = x}
           Y == {n[2] : n \in E}
<1>3. PICK y \in Y : \A z \in Y : y <= z
  <2>1. Y \in SUBSET Nat /\ Y # {}
    BY <1>0
  <2> HIDE DEF Y
  <2>2. QED
    BY <2>1, LeastNat
<1>4. PICK n \in E : n[2] = y
  OBVIOUS
<1>5. ASSUME NEW m \in cells \ {n}
      PROVE  \/ Distance(from, n) < Distance(from, m)
             \/ /\ Distance(from, n) = Distance(from, m)
                /\ n[1] < m[1] \/ (n[1] = m[1] /\ n[2] < m[2])
  <2>1. Distance(from, n) = d /\ d <= Distance(from, m)
    BY <1>1, <1>4
  <2>2. m[1] \in Nat /\ m[2] \in Nat /\ n[1] \in Nat /\ n[2] \in Nat /\ n # m
        /\ m = <<m[1], m[2]>> /\ n = <<n[1], n[2]>>
    BY <1>0, <1>4
  <2>3. Distance(from, m) = d => n[1] <= m[1]
    BY <1>2, <1>4
  <2>4. Distance(from, m) = d /\ m[1] = n[1] => n[2] <= m[2]
    BY <1>3, <1>4
  <2>5. Distance(from, m) \in Nat /\ d \in Nat
    BY <1>0, DistanceNat
  <2>6. QED
    BY <2>1, <2>2, <2>3, <2>4, <2>5
<1>6. n \in cells
  BY <1>4
<1> HIDE DEF D, C, X, E, Y
<1>7. QED
  BY <1>5, <1>6 DEF Nearest

-----------------------------------------------------------------------------
(* The skills                                                              *)

Answering == [action : Actions, record : Records]

\* A round that does not finish the skill is counted, and leaves budget for another.
Counted(s, answer, n) ==
  answer.record.done \/ (answer.record.steps = s.steps + 1 /\ answer.record.steps < n)

LEMMA FreshRecord == Fresh \in Records /\ Waited \in Records
<1>1. Far \in Int /\ NoCell \in Int \X Int
  BY SizeAssumption DEF Far, NoCell
<1>2. Fresh \in Records
  BY <1>1 DEF Fresh, Records, Labels
<1>3. Waited \in Records
  BY <1>2 DEF Waited, Records, Labels
<1>4. QED
  BY <1>2, <1>3

LEMMA StepsUpdate ==
  ASSUME NEW s \in Records, NEW n \in Nat
  PROVE  /\ [s EXCEPT !.steps = n] \in Records
         /\ [s EXCEPT !.steps = n].steps = n
         /\ [s EXCEPT !.steps = n].done = s.done
  BY DEF Records

LEMMA FinishAnswer ==
  ASSUME NEW s \in Records, NEW label \in Labels
  PROVE  Finish(s, label) \in Answering /\ Finish(s, label).record.done
  BY DEF Finish, Answer, Answering, Records, Actions

LEMMA PlainAnswer ==
  ASSUME NEW s \in Records, NEW action \in Actions
  PROVE  /\ Answer(action, s) \in Answering
         /\ Answer(action, s).record = s /\ Answer(action, s).action = action
  BY DEF Answer, Answering

LEMMA FaceAction ==
  ASSUME NEW d, NEW wanted
  PROVE  Face(d, wanted) \in Actions
  BY DEF Face, Actions

LEMMA NavigateAction ==
  ASSUME NEW a, NEW goal
  PROVE  Navigate(a, goal) \in Actions
  BY FaceAction DEF Navigate, Actions

LEMMA UnlessStuckAnswer ==
  ASSUME TypeOK, NEW s \in Records, NEW a \in Agents, NEW action \in Actions
  PROVE  /\ UnlessStuck(s, a, action) \in Answering
         /\ UnlessStuck(s, a, action).record.steps = s.steps
         /\ UnlessStuck(s, a, action).record.done = s.done
<1>1. at[a] \in Floor
  BY DEF TypeOK
<1>2. StuckFor(s, a) \in Nat
  BY DEF StuckFor, Records
<1>3. ASSUME NEW k \in Nat
      PROVE  /\ [s EXCEPT !.prev = at[a], !.stuck = k] \in Records
             /\ [s EXCEPT !.prev = at[a], !.stuck = k].steps = s.steps
             /\ [s EXCEPT !.prev = at[a], !.stuck = k].done = s.done
  BY <1>1 DEF Records
<1>4. CASE StuckFor(s, a) >= StuckLimit
  <2> DEFINE t == [s EXCEPT !.prev = at[a], !.stuck = 0]
  <2>1. t \in Records /\ t.steps = s.steps /\ t.done = s.done
    BY <1>3
  <2>2. UnlessStuck(s, a, action) = Answer("turn_left", t)
    BY <1>4 DEF UnlessStuck
  <2> HIDE DEF t
  <2>3. QED
    BY <2>1, <2>2, PlainAnswer DEF Actions
<1>5. CASE ~(StuckFor(s, a) >= StuckLimit)
  <2> DEFINE t == [s EXCEPT !.prev = at[a], !.stuck = StuckFor(s, a)]
  <2>1. t \in Records /\ t.steps = s.steps /\ t.done = s.done
    BY <1>2, <1>3
  <2>2. UnlessStuck(s, a, action) = Answer(action, t)
    BY <1>5 DEF UnlessStuck
  <2> HIDE DEF t
  <2>3. QED
    BY <2>1, <2>2, PlainAnswer
<1>6. QED
  BY <1>4, <1>5

LEMMA ExploreAnswer ==
  ASSUME TypeOK, NEW s \in Records, NEW a \in Agents
  PROVE  Explore(s, a) \in Answering /\ Counted(s, Explore(s, a), ExploreBudget)
<1> DEFINE t == [s EXCEPT !.seen = IF s.calls = 0 THEN Targets ELSE @, !.steps = @ + 1]
<1>1. Targets \in SUBSET Floor
  BY DEF Targets, TypeOK
<1>2. t \in Records /\ t.steps = s.steps + 1 /\ t.done = s.done
  <2> DEFINE sight == IF s.calls = 0 THEN Targets ELSE s.seen
             q == [s EXCEPT !.seen = sight]
  <2>1. sight \in SUBSET Floor
    BY <1>1 DEF Records
  <2> HIDE DEF sight
  <2>2. q \in Records /\ q.done = s.done
    BY <2>1 DEF Records
  <2>3. s.steps + 1 \in Nat
    BY DEF Records
  <2>4. t = [q EXCEPT !.steps = s.steps + 1]
    BY DEF sight
  <2> HIDE DEF q, t
  <2>5. QED
    BY <2>2, <2>3, <2>4, StepsUpdate
<1>3. Finish(s, "found_target") \in Answering /\ Finish(s, "found_target").record.done
  BY FinishAnswer DEF Labels
<1>4. Finish(t, "explored") \in Answering /\ Finish(t, "explored").record.done
  BY <1>2, FinishAnswer DEF Labels
<1>5. /\ UnlessStuck(t, a, "turn_right") \in Answering
      /\ UnlessStuck(t, a, "turn_right").record.steps = t.steps
  BY <1>2, UnlessStuckAnswer DEF Actions
<1>6. t.steps \in Nat
  BY <1>2 DEF Records
<1>7. Explore(s, a) = IF s.calls > 0 /\ Targets \ s.seen # {} THEN Finish(s, "found_target")
                      ELSE IF t.steps >= ExploreBudget THEN Finish(t, "explored")
                      ELSE UnlessStuck(t, a, "turn_right")
  BY DEF Explore
<1> HIDE DEF t
<1>8. QED
  BY <1>2, <1>3, <1>4, <1>5, <1>6, <1>7 DEF Counted

LEMMA PushAnswer ==
  ASSUME TypeOK, NEW s \in Records, NEW a \in Agents
  PROVE  Push(s, a) \in Answering /\ Counted(s, Push(s, a), PushBudget)
<1> DEFINE q == [s EXCEPT !.issued = FALSE]
           t == [s EXCEPT !.issued = FALSE, !.steps = @ + 1]
           u == [t EXCEPT !.issued = TRUE, !.start = at[a], !.land = Landing(a)]
<1>1. at[a] \in Floor /\ Landing(a) \in Int \X Int
  BY FloorCells, TowardInt DEF TypeOK, Landing
<1>2. q \in Records /\ t \in Records /\ t.steps = s.steps + 1 /\ t.steps \in Nat
  <2>0. s.steps + 1 \in Nat
    BY DEF Records
  <2>1. q \in Records
    BY DEF Records
  <2>2. t = [q EXCEPT !.steps = s.steps + 1]
    OBVIOUS
  <2> HIDE DEF q, t
  <2>4. q \in Records /\ t \in Records /\ t.steps = s.steps + 1
    BY <2>0, <2>1, <2>2, StepsUpdate
  <2>5. QED
    BY <2>0, <2>4
<1>3. u \in Records /\ u.steps = t.steps
  BY <1>1, <1>2 DEF Records
<1>4. ASSUME NEW label \in {"blocked", "too_heavy", "delivered", "pushed"}
      PROVE  /\ Finish(q, label) \in Answering /\ Finish(q, label).record.done
             /\ Finish(t, label) \in Answering /\ Finish(t, label).record.done
  BY <1>2, FinishAnswer DEF Labels
<1>5. /\ Answer("move_forward", u) \in Answering
      /\ Answer("move_forward", u).record = u
  BY <1>3, PlainAnswer DEF Actions
<1>6. IssuePush(s, a) =
        IF Ahead(at[a], facing[a]) \notin shown THEN Finish(q, "blocked")
        ELSE IF t.steps >= PushBudget THEN Finish(t, "pushed")
        ELSE Answer("move_forward", u)
  BY DEF IssuePush
<1>7. PushVerdict(s, a) \in {"blocked", "too_heavy"}
  BY DEF PushVerdict
<1>8. Push(s, a) \in {Finish(q, PushVerdict(s, a)), Finish(q, "delivered"), IssuePush(s, a)}
  BY DEF Push
<1> HIDE DEF q, t, u
<1>9. IssuePush(s, a) \in Answering /\ Counted(s, IssuePush(s, a), PushBudget)
  BY <1>2, <1>3, <1>4, <1>5, <1>6 DEF Counted
<1>10. QED
  BY <1>4, <1>7, <1>8, <1>9 DEF Counted

LEMMA ResolveBoxCell ==
  ASSUME TypeOK, NEW a \in Agents, NEW cell
  PROVE  ResolveBox(a, cell) \in Floor \cup {NoCell} /\ ResolveBox(a, cell) \in Int \X Int
<1>1. Targets \in SUBSET Floor /\ at[a] \in Floor
  BY DEF Targets, TypeOK
<1>2. ResolveBox(a, cell) \in Floor \cup {NoCell}
  BY <1>1, NearestIn DEF ResolveBox
<1>3. QED
  BY <1>2, FloorCells DEF NoCell

LEMMA BehindInt ==
  ASSUME NEW cell \in Int \X Int, NEW n \in Int
  PROVE  Behind(cell, n) \in Int \X Int
  BY TowardInt DEF Behind

AtTarget(a, target) == target # NoCell /\ at[a] = Behind(target, 1)

\* Only turning in the pose is not counted, and it moves nobody.
LEMMA GotoAnswer ==
  ASSUME TypeOK, NEW s \in Records, NEW a \in Agents, NEW cell
  PROVE  LET answer == GotoPushPose(s, a, cell)
             target == ResolveBox(a, cell)
         IN  /\ answer \in Answering
             /\ \/ /\ Counted(s, answer, GotoBudget)
                   /\ AtTarget(a, target) => answer.record.done
                \/ /\ AtTarget(a, target) /\ facing[a] # PushDir(target)
                   /\ answer.action = Face(facing[a], PushDir(target))
                   /\ answer.record = s
<1> DEFINE target == ResolveBox(a, cell)
           dir == PushDir(target)
           pose == Behind(target, 1)
           r == [s EXCEPT !.seen = @ \cup {at[a]}]
           t == [s EXCEPT !.seen = @ \cup {at[a]}, !.stale = Stale(s, a)]
           u == [t EXCEPT !.steps = @ + 1]
<1>1. t \in Records /\ t.steps = s.steps /\ t.done = s.done
  <2>1. r \in Records /\ r.steps = s.steps /\ r.done = s.done
    BY DEF Records, TypeOK
  <2>2. Stale(s, a) \in Nat
    BY DEF Stale, Records
  <2>3. t = [r EXCEPT !.stale = Stale(s, a)]
    OBVIOUS
  <2> HIDE DEF r, t
  <2>4. QED
    BY <2>1, <2>2, <2>3 DEF Records
<1>2. s.steps \in Nat
  BY DEF Records
<1>3. u \in Records /\ u.steps = s.steps + 1 /\ u.done = s.done
  <2> HIDE DEF t
  <2>1. u = [t EXCEPT !.steps = s.steps + 1]
    BY <1>1
  <2>2. s.steps + 1 \in Nat
    BY <1>2
  <2> HIDE DEF u
  <2>3. QED
    BY <1>1, <2>1, <2>2, StepsUpdate
<1>4. GotoPushPose(s, a, cell) =
        CASE target = NoCell -> Finish(s, "none_known")
          [] target # NoCell /\ at[a] = pose ->
               IF facing[a] = dir THEN Finish(s, "in_position")
               ELSE Answer(Face(facing[a], dir), s)
          [] OTHER ->
               IF t.stale >= NoProgress THEN Finish(t, "blocked")
               ELSE IF u.steps >= GotoBudget THEN Finish(u, "blocked")
               ELSE UnlessStuck(u, a, Navigate(a, pose))
  BY DEF GotoPushPose
<1> HIDE DEF t, u
<1>5. /\ Finish(s, "none_known") \in Answering /\ Finish(s, "none_known").record.done
      /\ Finish(s, "in_position") \in Answering /\ Finish(s, "in_position").record.done
      /\ Finish(t, "blocked") \in Answering /\ Finish(t, "blocked").record.done
      /\ Finish(u, "blocked") \in Answering /\ Finish(u, "blocked").record.done
  BY <1>1, <1>3, FinishAnswer DEF Labels
<1>6. /\ Answer(Face(facing[a], dir), s) \in Answering
      /\ Answer(Face(facing[a], dir), s).record = s
      /\ Answer(Face(facing[a], dir), s).action = Face(facing[a], dir)
  BY FaceAction, PlainAnswer
<1>7. /\ UnlessStuck(u, a, Navigate(a, pose)) \in Answering
      /\ UnlessStuck(u, a, Navigate(a, pose)).record.steps = u.steps
  BY <1>3, NavigateAction, UnlessStuckAnswer
<1> DEFINE answer == GotoPushPose(s, a, cell)
<1> HIDE DEF target, dir, pose
<1>8. CASE target = NoCell
  BY <1>4, <1>5, <1>8 DEF Counted, AtTarget, target
<1>9. CASE target # NoCell /\ at[a] = pose
  <2>1. answer = IF facing[a] = dir THEN Finish(s, "in_position")
                 ELSE Answer(Face(facing[a], dir), s)
    BY <1>4, <1>9
  <2>2. QED
    BY <2>1, <1>5, <1>6, <1>9 DEF Counted, AtTarget, target, dir, pose
<1>10. CASE target # NoCell /\ at[a] # pose
  <2>1. answer = IF t.stale >= NoProgress THEN Finish(t, "blocked")
                 ELSE IF u.steps >= GotoBudget THEN Finish(u, "blocked")
                 ELSE UnlessStuck(u, a, Navigate(a, pose))
    BY <1>4, <1>10
  <2>2. answer \in Answering /\ Counted(s, answer, GotoBudget)
    BY <2>1, <1>2, <1>3, <1>5, <1>7 DEF Counted
  <2>3. ~AtTarget(a, target)
    BY <1>10 DEF AtTarget, pose
  <2>4. QED
    BY <2>2, <2>3 DEF target
<1>11. QED
  BY <1>8, <1>9, <1>10

LEMMA AwaitPartnerAnswer ==
  ASSUME TypeOK, NEW s \in Records, NEW a \in Agents, NEW target \in Int \X Int
  PROVE  /\ AwaitPartner(s, a, target) \in Answering
         /\ \/ AwaitPartner(s, a, target).record.done
            \/ AwaitPartner(s, a, target).record.steps = s.steps
<1> DEFINE away == Distance(at[Partner(a)], PartnerSlot(a, target))
           t == [s EXCEPT !.wait = @ + 1]
           q == [s EXCEPT !.best = away]
           u == [s EXCEPT !.best = away, !.wait = 0]
<1>1. away \in Int
  <2>1. at[Partner(a)] \in Int \X Int
    BY FloorCells DEF TypeOK, Partner, Agents
  <2>2. PartnerSlot(a, target) \in Int \X Int
    <3>1. PartnerSlot(a, target) \in {Behind(target, 1), Behind(target, 2)}
      BY DEF PartnerSlot
    <3>2. Behind(target, 1) \in Int \X Int /\ Behind(target, 2) \in Int \X Int
      BY BehindInt
    <3>3. QED
      BY <3>1, <3>2
  <2>3. QED
    BY <2>1, <2>2, DistanceNat
<1> HIDE DEF away
<1>2. t \in Records
  BY DEF Records
<1>3. u \in Records /\ u.steps = s.steps
  <2>1. q \in Records /\ q.steps = s.steps
    BY <1>1 DEF Records
  <2>2. u = [q EXCEPT !.wait = 0]
    OBVIOUS
  <2> HIDE DEF q, u
  <2>3. QED
    BY <2>1, <2>2 DEF Records
<1>4. t.steps = s.steps
  BY DEF Records
<1>5. AwaitPartner(s, a, target) =
        IF away < s.best THEN Answer("stay", u)
        ELSE IF t.wait >= WaitLimit THEN Finish(t, "waiting_partner")
        ELSE Answer("stay", t)
  BY DEF AwaitPartner, away
<1> HIDE DEF t, u
<1>6. /\ Answer("stay", u) \in Answering /\ Answer("stay", u).record = u
      /\ Answer("stay", t) \in Answering /\ Answer("stay", t).record = t
  BY <1>2, <1>3, PlainAnswer DEF Actions
<1>7. Finish(t, "waiting_partner") \in Answering /\ Finish(t, "waiting_partner").record.done
  BY <1>2, FinishAnswer DEF Labels
<1>8. QED
  BY <1>3, <1>4, <1>5, <1>6, <1>7

LEMMA TakeSlotAnswer ==
  ASSUME TypeOK, NEW s \in Records, NEW a \in Agents, NEW target
  PROVE  /\ TakeSlot(s, a, target) \in Answering
         /\ TakeSlot(s, a, target).record.steps = s.steps
<1> DEFINE q == [s EXCEPT !.wait = 0]
           t == [s EXCEPT !.wait = 0, !.best = Far]
<1>1. t \in Records /\ t.steps = s.steps
  <2>1. q \in Records /\ q.steps = s.steps
    BY DEF Records
  <2>2. t = [q EXCEPT !.best = Far]
    OBVIOUS
  <2>3. Far \in Int
    BY SizeAssumption DEF Far
  <2> HIDE DEF q, t
  <2>4. QED
    BY <2>1, <2>2, <2>3 DEF Records
<1>2. TakeSlot(s, a, target) =
        IF at[a] = Slot(a, target) THEN Answer(Face(facing[a], PushDir(target)), t)
        ELSE UnlessStuck(t, a, Navigate(a, Slot(a, target)))
  BY DEF TakeSlot
<1> HIDE DEF t
<1>3. /\ Answer(Face(facing[a], PushDir(target)), t) \in Answering
      /\ Answer(Face(facing[a], PushDir(target)), t).record = t
  BY <1>1, FaceAction, PlainAnswer
<1>4. /\ UnlessStuck(t, a, Navigate(a, Slot(a, target))) \in Answering
      /\ UnlessStuck(t, a, Navigate(a, Slot(a, target))).record.steps = t.steps
  BY <1>1, NavigateAction, UnlessStuckAnswer
<1>5. QED
  BY <1>1, <1>2, <1>3, <1>4

LEMMA CoopRoundAnswer ==
  ASSUME TypeOK, NEW s \in Records, NEW a \in Agents, NEW target \in Int \X Int
  PROVE  CoopRound(s, a, target) \in Answering
         /\ Counted(s, CoopRound(s, a, target), CoopBudget)
<1> DEFINE q == [s EXCEPT !.issued = FALSE]
           t == [s EXCEPT !.issued = FALSE, !.steps = @ + 1]
           land == Ahead(target, PushDir(target))
           push == Answer("move_forward",
                     [t EXCEPT !.wait = 0, !.best = Far, !.issued = TRUE,
                               !.start = at[a], !.land = land])
           answer == CoopRound(s, a, target)
<1>1. s.steps + 1 \in Nat
  BY DEF Records
<1>2. t \in Records /\ t.steps = s.steps + 1
  <2>1. q \in Records
    BY DEF Records
  <2>2. t = [q EXCEPT !.steps = s.steps + 1]
    OBVIOUS
  <2> HIDE DEF q, t
  <2>3. QED
    BY <1>1, <2>1, <2>2, StepsUpdate
<1>3. answer \in {Finish(t, "waiting_partner"), push, AwaitPartner(t, a, target),
                   TakeSlot(t, a, target)}
      /\ (t.steps >= CoopBudget => answer = Finish(t, "waiting_partner"))
  BY DEF CoopRound
<1> HIDE DEF t, answer
<1>4. push \in Answering /\ push.record.steps = t.steps
  <2> DEFINE q1 == [t EXCEPT !.wait = 0]
             q2 == [q1 EXCEPT !.best = Far]
             q3 == [q2 EXCEPT !.issued = TRUE]
             q4 == [q3 EXCEPT !.start = at[a]]
             q5 == [q4 EXCEPT !.land = land]
  <2>1. q1 \in Records /\ q1.steps = t.steps
    BY <1>2 DEF Records
  <2> HIDE DEF q1
  <2>2. Far \in Int
    BY SizeAssumption DEF Far
  <2>3. q2 \in Records /\ q2.steps = t.steps
    BY <2>1, <2>2 DEF Records
  <2> HIDE DEF q2
  <2>4. q3 \in Records /\ q3.steps = t.steps
    BY <2>3 DEF Records
  <2> HIDE DEF q3
  <2>5. at[a] \in Floor
    BY DEF TypeOK
  <2>6. q4 \in Records /\ q4.steps = t.steps
    BY <2>4, <2>5 DEF Records
  <2> HIDE DEF q4
  <2>7. land \in Int \X Int
    BY TowardInt DEF Ahead
  <2> HIDE DEF land
  <2>8. q5 \in Records /\ q5.steps = t.steps
    BY <2>6, <2>7 DEF Records
  <2>9. push = Answer("move_forward", q5)
    BY DEF q1, q2, q3, q4
  <2> HIDE DEF q5, push
  <2>10. QED
    BY <2>8, <2>9, PlainAnswer DEF Actions
<1> HIDE DEF push
<1>5. Finish(t, "waiting_partner") \in Answering /\ Finish(t, "waiting_partner").record.done
  BY <1>2, FinishAnswer DEF Labels
<1>6. /\ AwaitPartner(t, a, target) \in Answering
      /\ \/ AwaitPartner(t, a, target).record.done
         \/ AwaitPartner(t, a, target).record.steps = t.steps
  BY <1>2, AwaitPartnerAnswer
<1>7. /\ TakeSlot(t, a, target) \in Answering
      /\ TakeSlot(t, a, target).record.steps = t.steps
  BY <1>2, TakeSlotAnswer
<1>8. answer \in Answering /\ (answer.record.done \/ answer.record.steps = t.steps)
  BY <1>3, <1>4, <1>5, <1>6, <1>7
<1>9. answer.record.done \/ t.steps < CoopBudget
  BY <1>1, <1>2, <1>3, <1>5
<1>10. QED
  BY <1>2, <1>8, <1>9 DEF Counted, answer

LEMMA CoopAnswer ==
  ASSUME TypeOK, NEW s \in Records, NEW a \in Agents, NEW cell
  PROVE  CooperativePush(s, a, cell) \in Answering
         /\ Counted(s, CooperativePush(s, a, cell), CoopBudget)
<1> DEFINE target == ResolveBox(a, cell)
           q == [s EXCEPT !.issued = FALSE]
           answer == CooperativePush(s, a, cell)
<1>1. q \in Records
  BY DEF Records
<1>2. target \in Int \X Int
  BY ResolveBoxCell
<1>3. answer \in {Finish(s, "none_known"), Finish(s, "blocked"), Finish(q, "delivered"),
                   CoopRound(s, a, target)}
  BY DEF CooperativePush
<1> HIDE DEF target, q, answer
<1>4. /\ Finish(s, "none_known") \in Answering /\ Finish(s, "none_known").record.done
      /\ Finish(s, "blocked") \in Answering /\ Finish(s, "blocked").record.done
      /\ Finish(q, "delivered") \in Answering /\ Finish(q, "delivered").record.done
  BY <1>1, FinishAnswer DEF Labels
<1>5. /\ CoopRound(s, a, target) \in Answering
      /\ Counted(s, CoopRound(s, a, target), CoopBudget)
  BY <1>2, CoopRoundAnswer
<1>6. QED
  BY <1>3, <1>4, <1>5 DEF Counted, answer

-----------------------------------------------------------------------------
(* The attempt                                                             *)

\* Turns left until an agent that looks toward d faces `wanted`.
Remaining(d, wanted) ==
  CASE d = wanted -> 0
    [] d # wanted /\ ((d + 3) % 4 = wanted \/ (d + 1) % 4 = wanted) -> 1
    [] OTHER -> 2

LEMMA TurnRemaining ==
  ASSUME NEW d \in Directions, NEW wanted \in Directions, d # wanted
  PROVE  Remaining(Turned(d, Face(d, wanted)), wanted) + 1 = Remaining(d, wanted)
  BY DEF Remaining, Turned, Face, Directions, RIGHT, DOWN, LEFT, UP

\* What is left of the budget of an unfinished skill: all rounds are counted, except
\* those in which an agent turns in the pose.
Counts(a) ==
  IF call.skill = "goto"
  THEN \/ prim = skill[a].steps
       \/ LET target == ResolveBox(a, GroundedCell)
          IN  /\ AtTarget(a, target)
              /\ prim + Remaining(facing[a], PushDir(target)) <= skill[a].steps + 2
  ELSE prim = skill[a].steps

Running ==
  /\ call \in Calls
  /\ call.skill = "wait" => skill[call.agent].done
  /\ prim <= Budget(call) + 2
  /\ \A a \in Participants(call) :
       ~skill[a].done => skill[a].steps < Budget(call) /\ Counts(a)

AttemptInv ==
  /\ WorldInv
  /\ AttemptTypeOK
  /\ WithinBudget
  /\ call = NoCall => prim = 0
  /\ phase = "idle" => call = NoCall
  /\ phase \in {"idle", "running"} => result = NoResult
  /\ phase = "running" => Running

LEMMA CallTypes ==
  ASSUME NEW c \in Calls
  PROVE  /\ c # NoCall
         /\ c.skill \in {"goto", "push", "coop", "explore", "wait"}
         /\ c.agent \in Agents
         /\ Participants(c) \subseteq Agents
         /\ Budget(c) \in Nat /\ Budget(c) + 2 < HardCap
<1>1. c.skill \in {"goto", "push", "coop", "explore", "wait"} /\ c.agent \in Agents
  BY DEF Calls, Agents
<1>2. NoCall.skill = "none"
  BY DEF NoCall
<1>3. Participants(c) \subseteq Agents
  BY <1>1 DEF Participants
<1>4. Budget(c) \in {GotoBudget, PushBudget, CoopBudget, ExploreBudget}
  BY <1>1 DEF Budget
<1>5. QED
  BY <1>1, <1>2, <1>3, <1>4

LEMMA SnapshotType ==
  ASSUME TypeOK
  PROVE  Snapshot \in [at : [Agents -> Floor], facing : [Agents -> Directions],
                       box : [Boxes -> Floor], delivered : SUBSET Boxes]
  BY DEF TypeOK, Snapshot

LEMMA SkillAnswer ==
  ASSUME TypeOK, call \in Calls, call.skill # "wait",
         NEW a \in Agents, skill[a] \in Records
  PROVE  LET answer == SkillStep(a)
             target == ResolveBox(a, GroundedCell)
         IN  /\ answer \in Answering
             /\ \/ /\ Counted(skill[a], answer, Budget(call))
                   /\ call.skill = "goto" /\ AtTarget(a, target) => answer.record.done
                \/ /\ call.skill = "goto"
                   /\ AtTarget(a, target) /\ facing[a] # PushDir(target)
                   /\ answer.action = Face(facing[a], PushDir(target))
                   /\ answer.record = skill[a]
<1>1. CASE call.skill = "goto"
  <2>1. SkillStep(a) = GotoPushPose(skill[a], a, GroundedCell) /\ Budget(call) = GotoBudget
    BY <1>1 DEF SkillStep, Budget
  <2>2. QED
    BY <1>1, <2>1, GotoAnswer
<1>2. CASE call.skill = "push"
  <2>1. SkillStep(a) = Push(skill[a], a) /\ Budget(call) = PushBudget
    BY <1>2 DEF SkillStep, Budget
  <2>2. QED
    BY <1>2, <2>1, PushAnswer
<1>3. CASE call.skill = "coop"
  <2>1. SkillStep(a) = CooperativePush(skill[a], a, GroundedCell) /\ Budget(call) = CoopBudget
    BY <1>3 DEF SkillStep, Budget
  <2>2. QED
    BY <1>3, <2>1, CoopAnswer
<1>4. CASE call.skill = "explore"
  <2>1. SkillStep(a) = Explore(skill[a], a) /\ Budget(call) = ExploreBudget
    BY <1>4 DEF SkillStep, Budget
  <2>2. QED
    BY <1>4, <2>1, ExploreAnswer
<1>5. QED
  BY <1>1, <1>2, <1>3, <1>4, CallTypes

\* Counting the call leaves the rest of an answer alone.
LEMMA AnswersShape ==
  ASSUME AttemptInv, Running, NEW a \in Agents, ~AllDone
  PROVE  /\ Answers[a].action \in Actions /\ Answers[a].record \in Records
         /\ Asked(a) => /\ Answers[a].action = SkillStep(a).action
                        /\ Answers[a].record.done = SkillStep(a).record.done
                        /\ Answers[a].record.steps = SkillStep(a).record.steps
         /\ ~Asked(a) => Answers[a].action = "stay" /\ Answers[a].record = skill[a]
<1>1. TypeOK /\ skill[a] \in Records /\ call \in Calls
  BY DEF AttemptInv, AttemptTypeOK, Running
<1>2. CASE Asked(a)
  <2>1. call.skill # "wait"
    BY <1>2 DEF Asked, Running, Participants
  <2>2. SkillStep(a) \in Answering
    BY <1>1, <2>1, SkillAnswer
  <2>3. Answers[a] = [SkillStep(a) EXCEPT !.record.calls = @ + 1]
    BY <1>2 DEF Answers
  <2> DEFINE x == SkillStep(a)
             r == [x.record EXCEPT !.calls = x.record.calls + 1]
  <2> HIDE DEF x
  <2>4. x \in Answering
    BY <2>2 DEF x
  <2>5. x.record \in Records /\ x.action \in Actions
    BY <2>4 DEF Answering
  <2>6. r \in Records /\ r.done = x.record.done /\ r.steps = x.record.steps
    BY <2>5 DEF Records
  <2>7. Answers[a] = [x EXCEPT !.record = r]
    BY <2>3 DEF x
  <2> HIDE DEF r
  <2>8. Answers[a].record = r /\ Answers[a].action = x.action
    BY <2>4, <2>7 DEF Answering
  <2>9. QED
    BY <1>2, <2>5, <2>6, <2>8 DEF x
<1>3. CASE ~Asked(a)
  <2>1. Answers[a] = Answer("stay", skill[a])
    BY <1>3 DEF Answers
  <2>2. QED
    BY <1>1, <1>3, <2>1, PlainAnswer DEF Actions
<1>4. QED
  BY <1>2, <1>3

\* A step in which nobody advances moves nothing and delivers nothing.
LEMMA StillStep ==
  ASSUME WorldInv, NEW joint \in [Agents -> Actions], Step(joint),
         \A a \in Agents : joint[a] # "move_forward"
  PROVE  /\ at' = at /\ box' = box /\ delivered' = delivered
         /\ \A a \in Agents : facing'[a] = Turned(facing[a], joint[a])
<1> DEFINE p == [at |-> at, box |-> box, shown |-> shown]
           movers == {a \in Agents : joint[a] = "move_forward"}
<1>1. movers = {}
  OBVIOUS
<1>2. ResolvePushes(p, facing', movers) = p
  <2> HIDE DEF p, movers
  <2>1. Tandems(p, facing', movers) = {}
    BY <1>1 DEF Tandems, Tandem
  <2>2. QED
    BY <1>1, <2>1 DEF ResolvePushes, MoveIf
<1>3. at' = at /\ box' = box /\ delivered' = Deliveries(p)
  BY <1>2 DEF Step
<1>4. Deliveries(p) = delivered \cup {b \in Boxes : box[b] \in GoalZone}
  BY DEF Deliveries
<1>5. delivered = {b \in Boxes : box[b] \in GoalZone}
  BY DEF WorldInv, DeliveredInZone, TypeOK
<1>6. QED
  BY <1>3, <1>4, <1>5 DEF Step

\* What a round does to the world and to the records.
LEMMA RoundShape ==
  ASSUME AttemptInv, Round
  PROVE  \E joint \in [Agents -> Actions] :
            /\ Step(joint)
            /\ \A a \in Agents : joint[a] = Answers[a].action
            /\ skill' \in [Agents -> Records]
            /\ \A a \in Agents : skill'[a] = Answers[a].record
<1> DEFINE joint == [a \in Agents |-> Answers[a].action]
<1>1. Running /\ ~AllDone
  BY DEF Round, AttemptInv
<1>2. Step(joint) /\ skill' = [a \in Agents |-> Answers[a].record]
  BY DEF Round
<1>3. joint \in [Agents -> Actions] /\ skill' \in [Agents -> Records]
  BY <1>1, <1>2, AnswersShape
<1>4. QED
  BY <1>2, <1>3

LEMMA RoundWorld ==
  ASSUME AttemptInv, Round
  PROVE  WorldInv' /\ TypeOK'
<1>1. Next
  BY RoundShape DEF Next
<1>2. WorldInv'
  BY <1>1, WorldInvStep DEF AttemptInv
<1>3. QED
  BY <1>2 DEF WorldInv

\* A skill that is not done after a round had budget for it.
LEMMA RoundCounts ==
  ASSUME AttemptInv, Round, NEW a \in Participants(call), ~skill'[a].done
  PROVE  skill'[a].steps < Budget(call) /\ Counts(a)'
<1>1. /\ Running /\ ~AllDone /\ call' = call /\ pre' = pre /\ prim' = prim + 1
      /\ call \in Calls /\ prim \in Nat /\ WorldInv /\ TypeOK
  BY DEF Round, AttemptInv, AttemptTypeOK, Running
<1>2. a \in Agents
  BY <1>1, CallTypes
<1>3. PICK joint \in [Agents -> Actions] :
            /\ Step(joint)
            /\ \A b \in Agents : joint[b] = Answers[b].action
            /\ skill' \in [Agents -> Records]
            /\ \A b \in Agents : skill'[b] = Answers[b].record
  BY RoundShape
<1>4. Asked(a)
  <2>1. skill'[a] = Answers[a].record
    BY <1>2, <1>3
  <2>2. ~Asked(a) => skill'[a] = skill[a] /\ skill[a].done
    BY <1>1, <1>2, <2>1, AnswersShape DEF Asked
  <2>3. QED
    BY <2>2
<1>5. /\ ~skill[a].done /\ skill[a].steps < Budget(call) /\ Counts(a)
      /\ call.skill # "wait"
  BY <1>1, <1>4 DEF Asked, Running, Participants
<1>6. skill[a] \in Records /\ skill[a].steps \in Nat
  BY <1>2 DEF AttemptInv, AttemptTypeOK, Records
<1> DEFINE answer == SkillStep(a)
           target == ResolveBox(a, GroundedCell)
           dir == PushDir(target)
<1>7. /\ joint[a] = answer.action
      /\ skill'[a].done = answer.record.done
      /\ skill'[a].steps = answer.record.steps
  BY <1>1, <1>2, <1>3, <1>4, AnswersShape
<1>8. \/ /\ Counted(skill[a], answer, Budget(call))
         /\ call.skill = "goto" /\ AtTarget(a, target) => answer.record.done
      \/ /\ call.skill = "goto"
         /\ AtTarget(a, target) /\ facing[a] # dir
         /\ answer.action = Face(facing[a], dir)
         /\ answer.record = skill[a]
  BY <1>1, <1>2, <1>5, <1>6, SkillAnswer
<1> HIDE DEF answer
<1>9. CASE /\ Counted(skill[a], answer, Budget(call))
           /\ call.skill = "goto" /\ AtTarget(a, target) => answer.record.done
  <2>1. skill'[a].steps = skill[a].steps + 1 /\ skill'[a].steps < Budget(call)
    BY <1>7, <1>9 DEF Counted
  <2>2. prim = skill[a].steps
    BY <1>5, <1>7, <1>9 DEF Counts
  <2>3. prim' = skill'[a].steps
    BY <1>1, <2>1, <2>2
  <2>4. QED
    BY <1>1, <2>1, <2>3 DEF Counts
<1>10. CASE /\ call.skill = "goto"
            /\ AtTarget(a, target) /\ facing[a] # dir
            /\ answer.action = Face(facing[a], dir)
            /\ answer.record = skill[a]
  <2>1. \A b \in Agents : joint[b] # "move_forward"
    <3>1. joint[a] \in {"turn_left", "turn_right"}
      BY <1>7, <1>10 DEF Face
    <3>2. \A b \in Agents \ {a} : ~Asked(b)
      BY <1>10 DEF Asked, Participants
    <3>3. \A b \in Agents \ {a} : joint[b] = "stay"
      BY <1>1, <1>3, <3>2, AnswersShape
    <3>4. QED
      BY <3>1, <3>3
  <2>2. /\ at' = at /\ box' = box /\ delivered' = delivered
        /\ facing'[a] = Turned(facing[a], Face(facing[a], dir))
    BY <1>1, <1>2, <1>3, <1>7, <1>10, <2>1, StillStep
  <2>3. ResolveBox(a, GroundedCell)' = target
    BY <1>1, <2>2 DEF ResolveBox, GroundedCell, Targets
  <2>4. facing[a] \in Directions /\ dir \in Directions
    BY <1>1, <1>2, PushDirDirection DEF TypeOK
  <2> HIDE DEF dir
  <2>5. Remaining(facing'[a], dir) + 1 = Remaining(facing[a], dir)
    BY <1>10, <2>2, <2>4, TurnRemaining
  <2>6. Remaining(facing[a], dir) \in 0 .. 2 /\ Remaining(facing'[a], dir) \in 0 .. 2
    BY DEF Remaining
  <2>7. prim + Remaining(facing[a], dir) <= skill[a].steps + 2
    BY <1>1, <1>5, <1>6, <1>10, <2>6 DEF Counts, dir
  <2>8. prim' + Remaining(facing'[a], dir) <= skill'[a].steps + 2
    BY <1>1, <1>6, <1>7, <1>10, <2>5, <2>6, <2>7
  <2>9. AtTarget(a, target)'
    BY <1>10, <2>2, <2>3 DEF AtTarget, ResolveBox, GroundedCell, Targets
  <2>10. Counts(a)'
    BY <1>1, <1>10, <2>3, <2>8, <2>9 DEF Counts, dir
  <2>11. QED
    BY <1>5, <1>7, <1>10, <2>10
<1>11. QED
  BY <1>8, <1>9, <1>10

LEMMA RoundInv ==
  ASSUME AttemptInv, Round
  PROVE  AttemptInv'
<1>1. /\ Running /\ ~AllDone /\ call' = call /\ pre' = pre /\ prim' = prim + 1
      /\ call \in Calls /\ prim \in Nat /\ phase = "running" /\ result = NoResult
      /\ call.skill # "wait"
  BY DEF Round, AttemptInv, AttemptTypeOK, Running, AllDone, Participants
<1>2. PICK a \in Participants(call) : ~skill[a].done
  BY <1>1 DEF AllDone
<1>3. /\ a \in Agents /\ skill[a].steps \in Nat
      /\ skill[a].steps < Budget(call) /\ Counts(a)
      /\ Budget(call) \in Nat /\ Budget(call) + 2 < HardCap
  BY <1>1, <1>2, CallTypes DEF Running, AttemptInv, AttemptTypeOK, Records
<1>4. prim' <= Budget(call) + 2
  <2>1. Remaining(facing[a], PushDir(ResolveBox(a, GroundedCell))) \in 0 .. 2
    BY DEF Remaining
  <2>2. prim <= skill[a].steps + 2
    BY <1>1, <1>3, <2>1 DEF Counts
  <2>3. QED
    BY <1>1, <1>3, <2>2
<1>5. phase' = phase /\ result' = result
  BY <1>1, <1>3, <1>4 DEF Round
<1>6. WorldInv' /\ TypeOK'
  BY RoundWorld
<1>7. skill' \in [Agents -> Records]
  BY RoundShape
<1>8. AttemptTypeOK'
  BY <1>1, <1>3, <1>4, <1>5, <1>6, <1>7 DEF AttemptInv, AttemptTypeOK
<1>9. WithinBudget'
  BY <1>1, <1>4, <1>5 DEF WithinBudget, NoResult, Budget
<1>10. Running'
  <2>1. \A b \in Participants(call) :
          ~skill'[b].done => skill'[b].steps < Budget(call) /\ Counts(b)'
    BY RoundCounts
  <2>2. Participants(call') = Participants(call) /\ Budget(call') = Budget(call)
    BY <1>1
  <2>3. QED
    BY <1>1, <1>4, <2>1, <2>2 DEF Running
<1>11. QED
  BY <1>1, <1>5, <1>6, <1>8, <1>9, <1>10, CallTypes DEF AttemptInv

LEMMA StartInv ==
  ASSUME AttemptInv, NEW c \in Calls, Start(c)
  PROVE  AttemptInv'
<1>1. /\ phase' = "running" /\ call' = c /\ pre' = Snapshot /\ prim' = prim
      /\ result' = result /\ result = NoResult /\ UNCHANGED worldVars
      /\ skill' = [a \in Agents |-> IF c.skill = "wait" /\ a = c.agent THEN Waited ELSE Fresh]
  BY DEF Start, AttemptInv
<1>2. prim = 0
  BY DEF Start, AttemptInv
<1>3. /\ c # NoCall /\ Budget(c) \in Nat
  BY CallTypes
<1>4. skill' \in [Agents -> Records]
  BY <1>1, FreshRecord
<1>5. WorldInv' /\ TypeOK'
  BY <1>1, WorldInvStep DEF AttemptInv, WorldInv
<1>6. AttemptTypeOK'
  BY <1>1, <1>4, <1>5, SnapshotType DEF AttemptInv, AttemptTypeOK
<1>7. WithinBudget'
  <2>1. NoResult.fault # "runaway"
    BY DEF NoResult
  <2>2. Budget(call') + 2 >= prim' /\ result' = NoResult
    BY <1>1, <1>2, <1>3
  <2>3. QED
    BY <2>1, <2>2 DEF WithinBudget
<1>8. Running'
  <2>1. \A a \in Agents : skill'[a] \in {Fresh, Waited}
    BY <1>1
  <2>2. Fresh.steps = 0 /\ ~Fresh.done /\ Waited.done
    BY DEF Fresh, Waited
  <2>3. c.skill = "wait" => skill'[c.agent] = Waited
    BY <1>1, CallTypes
  <2>4. Participants(c) \subseteq Agents /\ Budget(c) > 0
    BY CallTypes DEF Budget
  <2>5. \A a \in Participants(c) :
          ~skill'[a].done => skill'[a].steps < Budget(c) /\ Counts(a)'
    BY <1>1, <1>2, <1>3, <2>1, <2>2, <2>4 DEF Counts
  <2>6. /\ call' \in Calls
        /\ call'.skill = "wait" => skill'[call'.agent].done
        /\ prim' <= Budget(call') + 2
        /\ \A a \in Participants(call') :
             ~skill'[a].done => skill'[a].steps < Budget(call') /\ Counts(a)'
    BY <1>1, <1>2, <1>3, <2>2, <2>3, <2>5
  <2>7. QED
    BY <2>6 DEF Running
<1>9. QED
  BY <1>1, <1>2, <1>3, <1>5, <1>6, <1>7, <1>8 DEF AttemptInv

LEMMA CompleteInv ==
  ASSUME AttemptInv, Complete
  PROVE  AttemptInv'
<1>1. /\ phase' = "returned" /\ result' = Interpretation
      /\ UNCHANGED <<worldVars, call, skill, pre, prim>> /\ Running /\ call \in Calls
  BY DEF Complete, AttemptInv, Running
<1>2. skill[call.agent].label \in Labels
  BY <1>1, CallTypes DEF AttemptInv, AttemptTypeOK, Records
<1>3. Outcome \in Outcomes /\ FailureClass \in Classes
  BY DEF Outcome, Outcomes, FailureClass, Classes
<1>4. /\ Interpretation \in [label : Labels, outcome : Outcomes, class : Classes, fault : Faults]
      /\ Interpretation.fault # "runaway"
  BY <1>2, <1>3 DEF Interpretation, Faults
<1>5. WorldInv' /\ TypeOK'
  BY <1>1, WorldInvStep DEF Next, AttemptInv, WorldInv
<1>6. AttemptTypeOK'
  BY <1>1, <1>4, <1>5 DEF AttemptInv, AttemptTypeOK
<1>7. WithinBudget'
  BY <1>1, <1>4 DEF Running, WithinBudget, Budget
<1>8. QED
  BY <1>1, <1>5, <1>6, <1>7, CallTypes DEF AttemptInv

LEMMA ForgetInv ==
  ASSUME AttemptInv, NEW fault \in Faults, Forget([NoResult EXCEPT !.fault = fault]),
         phase' = "returned" \/ (phase' = "idle" /\ fault = "none")
  PROVE  AttemptInv'
<1> DEFINE answer == [NoResult EXCEPT !.fault = fault]
<1>1. /\ call' = NoCall /\ prim' = 0 /\ skill' = NoSkills /\ pre' = Snapshot
      /\ result' = answer /\ UNCHANGED worldVars
  BY DEF Forget
<1>2. answer \in [label : Labels, outcome : Outcomes, class : Classes, fault : Faults]
  BY DEF NoResult, Labels, Outcomes, Classes
<1>3. fault = "none" => answer = NoResult
  BY DEF NoResult
<1>4. NoSkills \in [Agents -> Records]
  BY FreshRecord DEF NoSkills
<1>5. WorldInv' /\ TypeOK'
  BY <1>1, WorldInvStep DEF AttemptInv, WorldInv
<1>6. AttemptTypeOK'
  BY <1>1, <1>2, <1>4, <1>5, SnapshotType DEF AttemptInv, AttemptTypeOK
<1>7. QED
  BY <1>1, <1>3, <1>5, <1>6 DEF AttemptInv, WithinBudget

LEMMA InitAttemptInv == AttemptInit => AttemptInv
<1> SUFFICES ASSUME AttemptInit PROVE AttemptInv
  OBVIOUS
<1>1. WorldInv /\ TypeOK
  BY InitWorldInv DEF AttemptInit, WorldInv
<1>2. skill \in [Agents -> Records]
  BY FreshRecord DEF AttemptInit, NoSkills
<1>3. NoResult \in [label : Labels, outcome : Outcomes, class : Classes, fault : Faults]
  BY DEF NoResult, Labels, Outcomes, Classes, Faults
<1>4. AttemptTypeOK
  BY <1>1, <1>2, <1>3, SnapshotType DEF AttemptInit, AttemptTypeOK
<1>5. QED
  BY <1>1, <1>4 DEF AttemptInit, AttemptInv, WithinBudget

LEMMA AttemptInvStep == AttemptInv /\ [AttemptNext]_vars => AttemptInv'
<1> SUFFICES ASSUME AttemptInv, [AttemptNext]_vars PROVE AttemptInv'
  OBVIOUS
<1>1. ASSUME NEW c \in Calls, Start(c) PROVE AttemptInv'
  BY <1>1, StartInv
<1>2. CASE Round
  BY <1>2, RoundInv
<1>3. CASE Complete
  BY <1>3, CompleteInv
<1>4. CASE Return
  <2>1. NoResult = [NoResult EXCEPT !.fault = "none"]
    BY DEF NoResult
  <2>2. QED
    BY <1>4, <2>1, ForgetInv DEF Return, Faults
<1>5. CASE Refuse
  BY <1>5, ForgetInv DEF Refuse, Faults
<1>6. CASE UNCHANGED vars
  <2>1. UNCHANGED worldVars /\ UNCHANGED attemptVars
    BY <1>6 DEF vars
  <2>2. WorldInv' /\ TypeOK'
    BY <2>1, WorldInvStep DEF AttemptInv, WorldInv
  <2>3. UNCHANGED <<at, facing, box, delivered>>
    BY <2>1 DEF worldVars
  <2>4. UNCHANGED <<phase, call, skill, pre, prim, result>>
    BY <2>1 DEF attemptVars
  <2>5. AttemptTypeOK' /\ WithinBudget'
    BY <2>2, <2>4 DEF AttemptInv, AttemptTypeOK, WithinBudget
  <2>6. \A a : Counts(a) => Counts(a)'
    BY <2>3, <2>4 DEF Counts, GroundedCell, AtTarget, ResolveBox, Targets
  <2>7. Running => Running'
    BY <2>4, <2>6 DEF Running
  <2>8. QED
    BY <2>2, <2>4, <2>5, <2>7 DEF AttemptInv
<1>7. QED
  BY <1>1, <1>2, <1>3, <1>4, <1>5, <1>6 DEF AttemptNext

LEMMA AttemptInvAlways == AttemptSpec => []AttemptInv
  BY InitAttemptInv, AttemptInvStep, PTL DEF AttemptSpec

\* Every record a skill keeps and every result the adapter returns is well formed.
THEOREM AttemptTypes == AttemptSpec => []AttemptTypeOK
<1>1. AttemptInv => AttemptTypeOK
  BY DEF AttemptInv
<1>2. QED
  BY <1>1, AttemptInvAlways, PTL

\* Whatever the arena, the call and the other agent do, an attempt ends within the budget
\* of its skill and two turns, and the runaway cap of execute_skill is never reached.
THEOREM AttemptBounded == AttemptSpec => []WithinBudget
<1>1. AttemptInv => WithinBudget
  BY DEF AttemptInv
<1>2. QED
  BY <1>1, AttemptInvAlways, PTL

\* The adapter touches the world through its step alone: every behaviour of the attempts
\* is one of the world, so what holds of the world holds under any skills.
THEOREM AttemptPhysics == AttemptSpec => Spec
<1>1. AttemptInit => Init
  BY DEF AttemptInit
<1>2. AttemptInv /\ [AttemptNext]_vars => [Next]_worldVars
  <2> SUFFICES ASSUME AttemptInv, [AttemptNext]_vars PROVE [Next]_worldVars
    OBVIOUS
  <2>1. CASE Round
    BY <2>1, RoundShape DEF Next
  <2>2. ASSUME NEW c \in Calls, Start(c) PROVE UNCHANGED worldVars
    BY <2>2 DEF Start
  <2>3. CASE Complete \/ Return \/ Refuse
    BY <2>3 DEF Complete, Return, Refuse, Forget
  <2>4. CASE UNCHANGED vars
    BY <2>4 DEF vars
  <2>5. QED
    BY <2>1, <2>2, <2>3, <2>4 DEF AttemptNext
<1>3. QED
  BY <1>1, <1>2, AttemptInvAlways, PTL DEF AttemptSpec, Spec

\* No skill drives the pieces into each other.
THEOREM AttemptNoOverlap == AttemptSpec => []NoOverlap
<1>1. TypeOK /\ NoOverlap => NoOverlap
  OBVIOUS
<1>2. QED
  BY <1>1, AttemptPhysics, WorldNoOverlap, PTL

-----------------------------------------------------------------------------
(* What an attempt leaves alone                                            *)

\* A movement of one agent leaves the other where it is.
LEMMA MoveOneSpares ==
  ASSUME NEW p \in Placements, NEW look, NEW a \in Agents, NEW o \in Agents \ {a}
  PROVE  MoveOne(p, look, a).at[o] = p.at[o]
<1> DEFINE cell == Ahead(p.at[a], look[a])
           b == CHOOSE b \in BoxesAt(p, cell) : TRUE
           slid == SlideBox(p, b, Ahead(cell, look[a]))
<1>1. \A q : q.at = p.at => Advance(q, a, cell).at = [p.at EXCEPT ![a] = cell]
  BY DEF Advance
<1>2. slid.at = p.at
  BY DEF SlideBox
<1>3. MoveOne(p, look, a) \in {p, Advance(p, a, cell), Advance(slid, a, cell)}
  BY DEF MoveOne
<1> HIDE DEF cell, slid
<1>4. MoveOne(p, look, a).at \in {p.at, [p.at EXCEPT ![a] = cell]}
  BY <1>1, <1>2, <1>3
<1>5. QED
  BY <1>4 DEF Placements

\* An agent that does not advance stays where it is, whatever the other one does, and
\* without its help no heavy box moves.
LEMMA StepSpares ==
  ASSUME WorldInv, GridTracksWorld, NEW joint \in [Agents -> Actions], Step(joint),
         NEW a \in Agents, joint[a] # "move_forward"
  PROVE  /\ at'[a] = at[a] /\ facing'[a] = Turned(facing[a], joint[a])
         /\ \A b \in Boxes : Required[b] >= 2 => box'[b] = box[b]
<1> DEFINE movers == {o \in Agents : joint[o] = "move_forward"}
<1>1. facing' \in [Agents -> Directions] /\ facing'[a] = Turned(facing[a], joint[a])
  BY TurnedDirections DEF Step, WorldInv, TypeOK
<1>2. Here \in Placements /\ Apart(Here) /\ Here.at = at
  BY DEF WorldInv, TypeOK, NoOverlap, Here, Placements, Apart
<1>3. at' = ResolvePushes(Here, facing', movers).at
  BY DEF Step, Here
<1>4. a \notin movers /\ movers \subseteq Agents
  OBVIOUS
<1> HIDE DEF movers
<1>5. Tandems(Here, facing', movers) = {}
  BY <1>4 DEF Tandems, Tandem, Agents
<1> DEFINE Moved0 == MoveIf(Here, facing', movers, Agent0)
<1>6. Moved0 \in Placements /\ Moved0.at[a] = at[a]
  <2>1. Agent0 \in Agents
    BY DEF Agents
  <2>2. CASE Agent0 \in movers
    <3>1. Moved0 = MoveOne(Here, facing', Agent0) /\ a \in Agents \ {Agent0}
      BY <1>4, <2>2 DEF MoveIf
    <3>2. Keeps(Here, Moved0)
      BY <1>1, <1>2, <2>1, <3>1, MoveOneKeeps
    <3>3. QED
      BY <1>2, <2>1, <3>1, <3>2, MoveOneSpares DEF Keeps
  <2>3. CASE Agent0 \notin movers
    BY <1>2, <2>3 DEF MoveIf
  <2>4. QED
    BY <2>2, <2>3
<1> HIDE DEF Moved0
<1>7. MoveIf(Moved0, facing', movers, Agent1).at[a] = at[a]
  <2>1. Agent1 \in Agents
    BY DEF Agents
  <2>2. CASE Agent1 \in movers
    <3>1. a \in Agents \ {Agent1}
      BY <1>4, <2>2
    <3>2. QED
      BY <1>6, <2>1, <2>2, <3>1, MoveOneSpares DEF MoveIf
  <2>3. CASE Agent1 \notin movers
    BY <1>6, <2>3 DEF MoveIf
  <2>4. QED
    BY <2>2, <2>3
<1>8. at'[a] = at[a]
  BY <1>3, <1>5, <1>7 DEF ResolvePushes, Moved0
<1>9. ASSUME NEW b \in Boxes, Required[b] >= 2, box'[b] # box[b] PROVE FALSE
  <2>1. at'[a] = Ahead(at[a], facing'[Agent0])
    BY <1>9, StepDraws
  <2>2. at[a] \in Int \X Int /\ facing'[Agent0] \in Directions
    BY <1>1, FloorCells DEF WorldInv, TypeOK, Agents
  <2>3. QED
    BY <1>8, <2>1, <2>2, TowardCells
<1>10. QED
  BY <1>1, <1>8, <1>9

\* A skill that only scans never advances.
LEMMA ExploreStands ==
  ASSUME NEW s, NEW a
  PROVE  Explore(s, a).action # "move_forward"
  BY DEF Explore, Finish, UnlessStuck, Answer

\* What the domain takes an attempt to leave alone: an agent that takes no part, a heavy
\* box unless the pair pushes it, the whole world's pieces under a skill that only looks,
\* and what was delivered before.
AttemptIsLocal ==
  call # NoCall =>
    /\ \A a \in Agents \ Participants(call) : at[a] = pre.at[a] /\ facing[a] = pre.facing[a]
    /\ call.skill # "coop" => \A b \in Boxes : Required[b] >= 2 => box[b] = pre.box[b]
    /\ call.skill \in {"explore", "wait"} =>
         at = pre.at /\ box = pre.box /\ delivered = pre.delivered
    /\ call.skill = "wait" => Snapshot = pre
    /\ \A b \in pre.delivered : b \in delivered /\ box[b] = pre.box[b]

LEMMA RoundIsLocal ==
  ASSUME AttemptInv, GridTracksWorld, AttemptIsLocal, Round
  PROVE  AttemptIsLocal'
<1>0. /\ Running /\ ~AllDone /\ call' = call /\ pre' = pre /\ call \in Calls
      /\ call.skill # "wait"
  BY DEF Round, AttemptInv, Running, AllDone, Participants
<1>1. call # NoCall /\ WorldInv /\ TypeOK
  BY <1>0, CallTypes DEF AttemptInv, WorldInv
<1>2. PICK joint \in [Agents -> Actions] :
            /\ Step(joint)
            /\ \A b \in Agents : joint[b] = Answers[b].action
  BY RoundShape
<1>3. \A a \in Agents \ Participants(call) : joint[a] = "stay"
  BY <1>0, <1>2, AnswersShape DEF Asked
<1>4. ASSUME NEW a \in Agents \ Participants(call)
      PROVE  at'[a] = pre.at[a] /\ facing'[a] = pre.facing[a]
  <2>1. at'[a] = at[a] /\ facing'[a] = Turned(facing[a], "stay")
    BY <1>1, <1>2, <1>3, StepSpares
  <2>2. QED
    BY <1>1, <2>1 DEF AttemptIsLocal, Turned
<1>5. ASSUME call.skill # "coop", NEW b \in Boxes, Required[b] >= 2
      PROVE  box'[b] = pre.box[b]
  <2>1. PICK a \in Agents : a \notin Participants(call)
    BY <1>5, AgentsAssumption DEF Participants, Agents
  <2>2. box'[b] = box[b]
    BY <1>1, <1>2, <1>3, <1>5, <2>1, StepSpares
  <2>3. QED
    BY <1>1, <1>5, <2>2 DEF AttemptIsLocal
<1>6. ASSUME call.skill = "explore"
      PROVE  at' = pre.at /\ box' = pre.box /\ delivered' = pre.delivered
  <2>1. \A a \in Agents : SkillStep(a).action # "move_forward"
    BY <1>6, ExploreStands DEF SkillStep
  <2>2. \A a \in Agents : joint[a] # "move_forward"
    BY <1>0, <1>2, <2>1, AnswersShape
  <2>3. at' = at /\ box' = box /\ delivered' = delivered
    BY <1>1, <1>2, <2>2, StillStep
  <2>4. QED
    BY <1>1, <1>6, <2>3 DEF AttemptIsLocal
<1>7. \A b \in pre.delivered : b \in delivered' /\ box'[b] = pre.box[b]
  BY <1>0, <1>1, <1>2, StepRests DEF AttemptIsLocal
<1>8. QED
  BY <1>0, <1>1, <1>4, <1>5, <1>6, <1>7 DEF AttemptIsLocal

LEMMA LocalStep ==
  AttemptInv /\ GridTracksWorld /\ AttemptIsLocal /\ [AttemptNext]_vars => AttemptIsLocal'
<1> SUFFICES ASSUME AttemptInv, GridTracksWorld, AttemptIsLocal, [AttemptNext]_vars
             PROVE  AttemptIsLocal'
  OBVIOUS
<1>1. CASE Round
  BY <1>1, RoundIsLocal
<1>2. ASSUME NEW c \in Calls, Start(c) PROVE AttemptIsLocal'
  <2>1. /\ pre' = Snapshot /\ at' = at /\ facing' = facing /\ box' = box
        /\ delivered' = delivered
    BY <1>2 DEF Start, worldVars
  <2>2. Snapshot' = pre'
    BY <2>1 DEF Snapshot
  <2>3. pre'.at = at' /\ pre'.facing = facing' /\ pre'.box = box' /\ pre'.delivered = delivered'
    BY <2>1 DEF Snapshot
  <2>4. QED
    BY <2>2, <2>3 DEF AttemptIsLocal
<1>3. CASE Return \/ Refuse
  BY <1>3 DEF Return, Refuse, Forget, AttemptIsLocal
<1>4. CASE Complete \/ UNCHANGED vars
  <2>1. UNCHANGED <<at, facing, box, delivered, call, pre>>
    BY <1>4 DEF Complete, vars, worldVars, attemptVars
  <2>2. Snapshot' = Snapshot
    BY <2>1 DEF Snapshot
  <2>3. QED
    BY <2>1, <2>2 DEF AttemptIsLocal
<1>5. QED
  BY <1>1, <1>2, <1>3, <1>4 DEF AttemptNext

\* The drawn grid agrees with the world before and after every round of every skill.
THEOREM AttemptGridTracks == AttemptSpec => []GridTracksWorld
  BY AttemptPhysics, GridTracks, PTL

\* Whatever the arena and the call: an attempt touches nobody but its participants, no
\* single agent's skill displaces a heavy box, a scan or a wait moves and delivers nothing,
\* and what was delivered before the attempt stays so.  What execute_skill reports as the
\* changes of an attempt is thereby the work of the call's own agents.
THEOREM AttemptLocal == AttemptSpec => []AttemptIsLocal
<1>1. AttemptInit => AttemptIsLocal
  BY DEF AttemptInit, AttemptIsLocal
<1>2. QED
  BY <1>1, LocalStep, AttemptInvAlways, AttemptGridTracks, PTL DEF AttemptSpec

-----------------------------------------------------------------------------
(* What a walk may claim                                                   *)

\* Only in the pose of the box it sees, and facing it, does a walk claim the pose.
LEMMA GotoClaim ==
  ASSUME NEW s \in Records, NEW a \in Agents, NEW cell, s.label # "in_position",
         GotoPushPose(s, a, cell).record.label = "in_position"
  PROVE  LET target == ResolveBox(a, cell)
         IN  /\ target # NoCell /\ at[a] = Behind(target, 1) /\ facing[a] = PushDir(target)
             /\ GotoPushPose(s, a, cell) = Finish(s, "in_position")
<1> DEFINE target == ResolveBox(a, cell)
           dir == PushDir(target)
           pose == Behind(target, 1)
           t == [s EXCEPT !.seen = @ \cup {at[a]}, !.stale = Stale(s, a)]
           u == [t EXCEPT !.steps = @ + 1]
           answer == GotoPushPose(s, a, cell)
<1>1. answer =
        CASE target = NoCell -> Finish(s, "none_known")
          [] target # NoCell /\ at[a] = pose ->
               IF facing[a] = dir THEN Finish(s, "in_position")
               ELSE Answer(Face(facing[a], dir), s)
          [] OTHER ->
               IF t.stale >= NoProgress THEN Finish(t, "blocked")
               ELSE IF u.steps >= GotoBudget THEN Finish(u, "blocked")
               ELSE UnlessStuck(u, a, Navigate(a, pose))
  BY DEF GotoPushPose
<1>2. "label" \in DOMAIN s /\ t.label = s.label /\ u.label = s.label
      /\ "label" \in DOMAIN t /\ "label" \in DOMAIN u
  BY DEF Records
<1> HIDE DEF t, u, target, dir, pose
<1>3. \A r, label : "label" \in DOMAIN r => Finish(r, label).record.label = label
  BY DEF Finish, Answer
<1>4. \A r, action : Answer(action, r).record = r
  BY DEF Answer
<1>5. \A action : UnlessStuck(u, a, action).record.label = s.label
  BY <1>2 DEF UnlessStuck, Answer
<1> HIDE DEF answer
<1>6. answer.record.label = "in_position"
  BY DEF answer
<1>7. /\ Finish(s, "none_known").record.label = "none_known"
      /\ Finish(t, "blocked").record.label = "blocked"
      /\ Finish(u, "blocked").record.label = "blocked"
      /\ Answer(Face(facing[a], dir), s).record.label = s.label
      /\ UnlessStuck(u, a, Navigate(a, pose)).record.label = s.label
  BY <1>2, <1>3, <1>4, <1>5
<1>8. target # NoCell /\ at[a] = pose /\ facing[a] = dir /\ answer = Finish(s, "in_position")
  BY <1>1, <1>6, <1>7
<1>9. QED
  BY <1>8 DEF target, dir, pose, answer

\* The box a skill finds is one that is still to be delivered.
LEMMA ResolvedIsTarget ==
  ASSUME TypeOK, NEW a \in Agents, NEW cell, ResolveBox(a, cell) # NoCell
  PROVE  \E b \in Boxes \ delivered : box[b] = ResolveBox(a, cell)
<1>1. Targets \in SUBSET Floor /\ at[a] \in Floor
  BY DEF Targets, TypeOK
<1>2. ResolveBox(a, cell) \in Targets
  BY <1>1, NearestIn DEF ResolveBox
<1>3. QED
  BY <1>2 DEF Targets

\* A claim ends the walk, and stays true until the adapter has interpreted it.
InPose(a, b) == at[a] = Behind(box[b], 1) /\ facing[a] = PushDir(box[b])

ClaimsHold ==
  call.skill = "goto" /\ skill[call.agent].label = "in_position" =>
    skill[call.agent].done /\ \E b \in Boxes \ delivered : InPose(call.agent, b)

ClaimsInv == ClaimsHold /\ SubstitutedWalkIsFault

LEMMA RoundClaims ==
  ASSUME AttemptInv, ClaimsHold, Round
  PROVE  ClaimsHold'
<1> SUFFICES ASSUME call'.skill = "goto", skill'[call'.agent].label = "in_position"
             PROVE  /\ skill'[call'.agent].done
                    /\ \E b \in Boxes \ delivered' :
                         /\ at'[call'.agent] = Behind(box'[b], 1)
                         /\ facing'[call'.agent] = PushDir(box'[b])
  BY DEF ClaimsHold, InPose
<1>0. /\ Running /\ ~AllDone /\ call' = call /\ pre' = pre /\ call \in Calls
      /\ TypeOK /\ WorldInv
  BY DEF Round, AttemptInv, Running, WorldInv
<1> DEFINE a == call.agent
           s == skill[a]
<1>1. a \in Agents /\ Participants(call) = {a} /\ ~s.done /\ s \in Records /\ Asked(a)
  BY <1>0, CallTypes DEF Participants, AllDone, Asked, AttemptInv, AttemptTypeOK
<1>2. s.label # "in_position"
  BY <1>0, <1>1 DEF ClaimsHold
<1>3. PICK joint \in [Agents -> Actions] :
            /\ Step(joint)
            /\ \A o \in Agents : joint[o] = Answers[o].action
            /\ \A o \in Agents : skill'[o] = Answers[o].record
  BY RoundShape
<1> HIDE DEF a, s
<1> DEFINE answer == GotoPushPose(s, a, GroundedCell)
<1>4. SkillStep(a) = answer
  BY <1>0 DEF SkillStep, s
<1>5. answer \in Answering
  BY <1>0, <1>1, GotoAnswer
<1>6. /\ skill'[a].label = answer.record.label /\ skill'[a].done = answer.record.done
      /\ joint[a] = answer.action
  <2>1. Answers[a] = [answer EXCEPT !.record.calls = @ + 1]
    BY <1>1, <1>4 DEF Answers
  <2> HIDE DEF answer
  <2>2. /\ Answers[a].record.label = answer.record.label
        /\ Answers[a].record.done = answer.record.done
        /\ Answers[a].action = answer.action
    BY <1>5, <2>1 DEF Answering, Records
  <2>3. QED
    BY <1>1, <1>3, <2>2
<1>7. answer.record.label = "in_position"
  BY <1>0, <1>6 DEF a
<1> DEFINE target == ResolveBox(a, GroundedCell)
<1>8. /\ target # NoCell /\ at[a] = Behind(target, 1) /\ facing[a] = PushDir(target)
      /\ answer = Finish(s, "in_position")
  BY <1>1, <1>2, <1>7, GotoClaim
<1>9. PICK b \in Boxes \ delivered : box[b] = target
  BY <1>0, <1>1, <1>8, ResolvedIsTarget
<1>10. answer.record.done /\ answer.action = "stay"
  <2>1. Finish(s, "in_position").record.done /\ Finish(s, "in_position").action = "stay"
    BY <1>1 DEF Finish, Answer, Records
  <2>2. QED
    BY <1>8, <2>1
<1> HIDE DEF answer, target
<1>11. \A o \in Agents : joint[o] = "stay"
  <2>1. \A o \in Agents \ {a} : ~Asked(o)
    BY <1>1 DEF Asked
  <2>2. \A o \in Agents \ {a} : joint[o] = "stay"
    BY <1>0, <1>3, <2>1, AnswersShape
  <2>3. QED
    BY <1>6, <1>10, <2>2
<1>12. at' = at /\ box' = box /\ delivered' = delivered /\ facing'[a] = Turned(facing[a], "stay")
  BY <1>0, <1>1, <1>3, <1>11, StillStep
<1>13. at'[a] = Behind(box'[b], 1) /\ facing'[a] = PushDir(box'[b])
  <2>1. Turned(facing[a], "stay") = facing[a]
    BY DEF Turned
  <2>2. QED
    BY <1>8, <1>9, <1>12, <2>1
<1>14. skill'[a].done /\ call'.agent = a
  BY <1>0, <1>6, <1>10 DEF a
<1>15. b \in Boxes \ delivered'
  BY <1>9, <1>12
<1>16. QED
  BY <1>13, <1>14, <1>15

\* What is interpreted is the world the walk claimed its pose in.
LEMMA CompleteClaims ==
  ASSUME AttemptInv, ClaimsHold, Complete
  PROVE  SubstitutedWalkIsFault'
<1> SUFFICES ASSUME call.skill = "goto", result'.label = "in_position", result'.fault = "none"
             PROVE  result'.outcome = "success"
  BY DEF Complete, SubstitutedWalkIsFault
<1>1. result' = Interpretation
  BY DEF Complete
<1>2. /\ skill[call.agent].label = "in_position" /\ ~Substituted
      /\ result'.outcome = Outcome
  BY <1>1 DEF Interpretation
<1>3. PICK b \in Boxes \ delivered : InPose(call.agent, b)
  BY <1>2 DEF ClaimsHold
<1>4. AtPose(call.agent, call.box)
  BY <1>2, <1>3 DEF Substituted, AtPose, InPose
<1>5. QED
  BY <1>2, <1>4 DEF Outcome, Intended

LEMMA ClaimsStep == AttemptInv /\ ClaimsInv /\ [AttemptNext]_vars => ClaimsInv'
<1> SUFFICES ASSUME AttemptInv, ClaimsInv, [AttemptNext]_vars PROVE ClaimsInv'
  OBVIOUS
<1>1. CASE Round
  <2>1. ClaimsHold'
    BY <1>1, RoundClaims DEF ClaimsInv
  <2>2. SubstitutedWalkIsFault'
    <3>1. phase' = "running" \/ result' = [NoResult EXCEPT !.fault = "runaway"]
      BY <1>1 DEF Round
    <3>2. QED
      BY <3>1 DEF SubstitutedWalkIsFault, NoResult
  <2>3. QED
    BY <2>1, <2>2 DEF ClaimsInv
<1>2. ASSUME NEW c \in Calls, Start(c) PROVE ClaimsInv'
  <2>1. /\ phase' = "running" /\ call' = c
        /\ skill' = [a \in Agents |-> IF c.skill = "wait" /\ a = c.agent THEN Waited ELSE Fresh]
    BY <1>2 DEF Start
  <2>2. c.skill = "goto" => skill'[c.agent] = Fresh
    BY <2>1, CallTypes
  <2>3. Fresh.label # "in_position"
    BY DEF Fresh
  <2>4. QED
    BY <2>1, <2>2, <2>3 DEF ClaimsInv, ClaimsHold, SubstitutedWalkIsFault
<1>3. CASE Complete
  <2>1. UNCHANGED <<at, facing, box, delivered, call, skill>>
    BY <1>3 DEF Complete, worldVars
  <2>2. ClaimsHold'
    BY <2>1 DEF ClaimsInv, ClaimsHold, InPose
  <2>3. QED
    BY <1>3, <2>2, CompleteClaims DEF ClaimsInv
<1>4. CASE Return \/ Refuse
  BY <1>4 DEF Return, Refuse, Forget, NoCall, ClaimsInv, ClaimsHold, SubstitutedWalkIsFault
<1>5. CASE UNCHANGED vars
  <2>1. UNCHANGED <<at, facing, box, delivered, phase, call, skill, result>>
    BY <1>5 DEF vars, worldVars, attemptVars
  <2>2. QED
    BY <2>1 DEF ClaimsInv, ClaimsHold, InPose, SubstitutedWalkIsFault
<1>6. QED
  BY <1>1, <1>2, <1>3, <1>4, <1>5 DEF AttemptNext

\* A walk never reports the pose of its own box from that of another: in any arena it
\* stands where it says, or execute_skill raises the substitution (_post_flight).
THEOREM WalksHonest == AttemptSpec => []SubstitutedWalkIsFault
<1>1. AttemptInit => ClaimsInv
  BY DEF AttemptInit, NoCall, ClaimsInv, ClaimsHold, SubstitutedWalkIsFault
<1>2. ClaimsInv => SubstitutedWalkIsFault
  BY DEF ClaimsInv
<1>3. QED
  BY <1>1, <1>2, ClaimsStep, AttemptInvAlways, PTL DEF AttemptSpec

=============================================================================
