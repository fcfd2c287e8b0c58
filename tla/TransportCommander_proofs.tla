---------------------- MODULE TransportCommander_proofs ----------------------
(***************************************************************************)
(* Theorems about the belief and the commander of Cooperative Search and   *)
(* Transport, for every arena, every start and any number of decoys, and   *)
(* whatever the language model answers.                                    *)
(***************************************************************************)
EXTENDS TransportCommander, TransportWorld_proofs

USE CastAssumption, ArenaAssumption

-----------------------------------------------------------------------------
(* What a step does to the hands of an agent                               *)

\* A package is taken from the cell in front.
Takes(p, q, front, a) ==
  /\ p.carrying[a] = Nothing
  /\ q.carrying[a] \in Light \ p.delivered
  /\ p.carriedBy[q.carrying[a]] = Nobody /\ p.pos[q.carrying[a]] = front

\* One agent's turn of picking or dropping.
Handles(p, q, front, action, a) ==
  /\ \A o \in Packages : q.pos[o] = p.pos[o] \/ (o \in Light /\ q.pos[o] = p.at[a])
  /\ \A o \in Packages : q.pos[o] # p.pos[o] \/ q.carriedBy[o] # p.carriedBy[o] =>
       action = "pick" \/ (action = "drop" /\ q.pos[o] = p.at[a])
  /\ action \notin {"pick", "drop"} => q = p
  /\ action = "pick" =>
       /\ q.pos = p.pos /\ q.delivered = p.delivered /\ p.holders \subseteq q.holders
       /\ q.carrying[a] # p.carrying[a] => Takes(p, q, front, a)
       /\ a \in q.holders \ p.holders => p.pos[Heavy] = front /\ p.carrying[a] = Nothing
  /\ action = "drop" /\ p.carrying[a] # Nothing =>
       /\ q.holders = p.holders /\ q.carrying[a] = Nothing
       /\ p.carrying[a] \in Targets /\ p.at[a] \in Zone => p.carrying[a] \in q.delivered
  /\ \A b \in Agents \ {a} :
       q.carrying[b] = p.carrying[b] /\ (b \in q.holders <=> b \in p.holders)

LEMMA PickHandles ==
  ASSUME NEW p, Sound(p), NEW look \in [Agents -> Directions], NEW a \in Agents
  PROVE  Handles(p, Picked(p, look, a), Ahead(p.at[a], look[a]), "pick", a)
<1> DEFINE front == Ahead(p.at[a], look[a])
           inReach == {o \in Packages \ p.delivered : p.carriedBy[o] = Nobody /\ p.pos[o] = front}
           o == Min(inReach)
           q == Picked(p, look, a)
<1>1. p \in Situations
  BY DEF Sound
<1>2. CASE q = p
  BY <1>2 DEF Handles
<1>3. inReach # {} => o \in inReach
  BY LeastInReach, PackagesAreFinite
<1>4. CASE p.carrying[a] = Nothing /\ inReach # {} /\ o \in Light
  <2>1. q = Pay([p EXCEPT !.carriedBy[o] = a, !.carrying[a] = o], a, 10)
    BY <1>4 DEF Picked
  <2>2. /\ o \in Light \ p.delivered /\ o \in Packages
        /\ p.carriedBy[o] = Nobody /\ p.pos[o] = front
    BY <1>3, <1>4
  <2> HIDE DEF o
  <2>3. /\ q.carrying = [p.carrying EXCEPT ![a] = o]
        /\ q.holders = p.holders /\ q.delivered = p.delivered /\ q.pos = p.pos
    BY <1>1, <2>1 DEF Pay, Situations
  <2>4. q.carrying[a] = o /\ \A b \in Agents \ {a} : q.carrying[b] = p.carrying[b]
    BY <1>1, <2>3 DEF Situations
  <2> HIDE DEF q, front
  <2>5. Takes(p, q, front, a)
    BY <1>4, <2>2, <2>4 DEF Takes
  <2>6. QED
    BY <2>3, <2>4, <2>5 DEF Handles, q, front
<1>5. CASE p.carrying[a] = Nothing /\ inReach # {} /\ o \notin Light /\ a \notin p.holders
  <2>1. q = Pay([p EXCEPT !.holders = @ \cup {a}], a, 5)
    BY <1>5 DEF Picked
  <2>2. o = Heavy /\ p.pos[Heavy] = front
    BY <1>3, <1>5 DEF Packages
  <2>3. /\ q.carrying = p.carrying /\ q.carriedBy = p.carriedBy /\ q.pos = p.pos
        /\ q.holders = p.holders \cup {a} /\ q.delivered = p.delivered
    BY <1>1, <2>1 DEF Pay, Situations
  <2> HIDE DEF q, o, front
  <2>4. QED
    BY <1>5, <2>2, <2>3 DEF Handles, q, front
<1>6. QED
  BY <1>2, <1>4, <1>5 DEF Picked

LEMMA DropHandles ==
  ASSUME NEW p, Sound(p), NEW front, NEW a \in Agents
  PROVE  Handles(p, Dropped(p, a), front, "drop", a)
<1> DEFINE o == p.carrying[a]
           laid == [p EXCEPT !.pos[o] = p.at[a], !.carriedBy[o] = Nobody, !.carrying[a] = Nothing]
           q == Dropped(p, a)
<1>1. p \in Situations
  BY DEF Sound
<1>2. CASE o = Nothing
  <2>1. q = [p EXCEPT !.holders = @ \ {a}]
    BY <1>2 DEF Dropped
  <2>2. /\ q.carrying = p.carrying /\ q.pos = p.pos /\ q.carriedBy = p.carriedBy
        /\ q.holders = p.holders \ {a}
    BY <1>1, <2>1 DEF Situations
  <2> HIDE DEF q
  <2>3. QED
    BY <1>2, <2>2 DEF Handles, q
<1>3. CASE o # Nothing
  <2>1. o \in Light /\ o \in Packages \ p.delivered
    BY <1>1, <1>3 DEF Situations, Sound
  <2>2. q = IF o \in Targets \ p.delivered /\ p.at[a] \in Zone
            THEN Pay([laid EXCEPT !.delivered = @ \cup {o}, !.count = @ + 1], a, 2000)
            ELSE laid
    BY <1>3 DEF Dropped
  <2>3. /\ laid.carrying = [p.carrying EXCEPT ![a] = Nothing] /\ laid.holders = p.holders
        /\ laid.pos = [p.pos EXCEPT ![o] = p.at[a]] /\ laid.delivered = p.delivered
        /\ laid.carriedBy = [p.carriedBy EXCEPT ![o] = Nobody]
    BY <1>1 DEF Situations
  <2>4. q.carrying = laid.carrying /\ q.holders = laid.holders /\ q.pos = laid.pos
        /\ q.carriedBy = laid.carriedBy
        /\ (o \in Targets /\ p.at[a] \in Zone => o \in q.delivered)
    <3> HIDE DEF o
    <3>1. CASE o \in Targets \ p.delivered /\ p.at[a] \in Zone
      BY <1>1, <2>1, <2>2, <3>1 DEF Pay, Situations
    <3>2. CASE ~(o \in Targets \ p.delivered /\ p.at[a] \in Zone)
      BY <2>1, <2>2, <3>2
    <3>3. QED
      BY <3>1, <3>2
  <2> HIDE DEF laid, q
  <2>5. q.carrying[a] = Nothing /\ \A b \in Agents \ {a} : q.carrying[b] = p.carrying[b]
    BY <1>1, <2>3, <2>4 DEF Situations
  <2>6. \A r \in Packages : IF r = o THEN q.pos[r] = p.at[a] /\ r \in Light
                            ELSE q.pos[r] = p.pos[r] /\ q.carriedBy[r] = p.carriedBy[r]
    BY <1>1, <2>1, <2>3, <2>4 DEF Situations
  <2> HIDE DEF o
  <2>7. QED
    BY <2>3, <2>4, <2>5, <2>6 DEF Handles, q, o
<1>4. QED
  BY <1>2, <1>3

\* What an agent's turn comes to when both have taken theirs.
Hands(p, q, action, front, a) ==
  /\ q.carrying[a] # p.carrying[a] =>
       \/ action = "drop"
       \/ /\ action = "pick" /\ p.carrying[a] = Nothing
          /\ q.carrying[a] \in Light \ p.delivered
          /\ \/ p.carriedBy[q.carrying[a]] = Nobody /\ p.pos[q.carrying[a]] = front
             \/ a = Agent1 /\ front = q.at[Agent0]
  /\ action = "drop" =>
       /\ q.carrying[a] = Nothing
       /\ p.carrying[a] \in Targets /\ p.at[a] \in Zone => p.carrying[a] \in q.delivered
  /\ a \in q.holders \ p.holders =>
       action = "pick" /\ p.pos[Heavy] = front /\ p.carrying[a] = Nothing

LEMMA BothHandle ==
  ASSUME NEW p, Sound(p), NEW look \in [Agents -> Directions],
         NEW joint \in [Agents -> Actions],
         \A a \in Agents : joint[a] = "drop" => p.carrying[a] # Nothing
  PROVE  LET q == Handled(Handled(p, look, joint, Agent0), look, joint, Agent1)
         IN  /\ p.holders \subseteq q.holders
             /\ \A o \in Packages : q.pos[o] = p.pos[o] \/
                                    (o \in Light /\ \E a \in Agents : q.pos[o] = p.at[a])
             /\ \A a \in Agents : Hands(p, q, joint[a], Ahead(p.at[a], look[a]), a)
<1>1. ASSUME NEW r, Sound(r), NEW a \in Agents
      PROVE  LET q == Handled(r, look, joint, a)
             IN  Handles(r, q, Ahead(r.at[a], look[a]), joint[a], a) /\ Keeps(r, q)
                 /\ q.at = r.at
  <2>1. CASE joint[a] = "pick"
    BY <1>1, <2>1, PickHandles, PickedKeeps DEF Handled
  <2>2. CASE joint[a] = "drop"
    BY <1>1, <2>2, DropHandles, DroppedKeeps DEF Handled
  <2>3. CASE joint[a] \notin {"pick", "drop"}
    BY <1>1, <2>3 DEF Handled, Handles, Keeps, Rests
  <2>4. QED
    BY <2>1, <2>2, <2>3
<1> DEFINE r == Handled(p, look, joint, Agent0)
           q == Handled(r, look, joint, Agent1)
           front0 == Ahead(p.at[Agent0], look[Agent0])
           front1 == Ahead(p.at[Agent1], look[Agent1])
<1>2. Handles(p, r, front0, joint[Agent0], Agent0) /\ Keeps(p, r) /\ r.at = p.at
  BY <1>1 DEF Agents
<1>3. Handles(r, q, front1, joint[Agent1], Agent1) /\ Keeps(r, q) /\ q.at = r.at
  BY <1>1, <1>2 DEF Agents, Keeps
<1>4. Agent0 \in Agents /\ Agent1 \in Agents \ {Agent0} /\ Agent0 \in Agents \ {Agent1}
  BY DEF Agents
<1> HIDE DEF r, q, front0, front1
<1>5. /\ p \in Situations /\ r \in Situations /\ q \in Situations
      /\ Sound(p) /\ Sound(r) /\ p.delivered \subseteq r.delivered
      /\ r.delivered \subseteq q.delivered
  BY <1>2, <1>3 DEF Keeps, Sound, Rests
<1>6. /\ r.carrying[Agent1] = p.carrying[Agent1]
      /\ q.carrying[Agent0] = r.carrying[Agent0]
      /\ Agent1 \in r.holders <=> Agent1 \in p.holders
      /\ Agent0 \in q.holders <=> Agent0 \in r.holders
  BY <1>2, <1>3, <1>4 DEF Handles
<1>7. p.holders \subseteq q.holders
  <2>1. Agent0 \in p.holders => Agent0 \in r.holders
    BY <1>2, <1>4, <1>5 DEF Handles, Actions
  <2>2. Agent1 \in r.holders => Agent1 \in q.holders
    BY <1>3, <1>4, <1>5, <1>6 DEF Handles, Actions
  <2>3. p.holders \subseteq {Agent0, Agent1}
    BY <1>5 DEF Situations, Agents
  <2>4. QED
    BY <1>6, <2>1, <2>2, <2>3
<1>8. ASSUME NEW o \in Packages
      PROVE  q.pos[o] = p.pos[o] \/ (o \in Light /\ \E a \in Agents : q.pos[o] = p.at[a])
  <2>1. r.pos[o] = p.pos[o] \/ (o \in Light /\ r.pos[o] = p.at[Agent0])
    BY <1>2 DEF Handles
  <2>2. q.pos[o] = r.pos[o] \/ (o \in Light /\ q.pos[o] = p.at[Agent1])
    BY <1>2, <1>3 DEF Handles
  <2>3. QED
    BY <1>4, <2>1, <2>2
<1>9. Hands(p, q, joint[Agent0], front0, Agent0)
  <2>1. r.carrying[Agent0] # p.carrying[Agent0] =>
          joint[Agent0] = "drop" \/
          (joint[Agent0] = "pick" /\ Takes(p, r, front0, Agent0))
    BY <1>2 DEF Handles
  <2>2. joint[Agent0] = "drop" =>
          /\ r.carrying[Agent0] = Nothing
          /\ p.carrying[Agent0] \in Targets /\ p.at[Agent0] \in Zone =>
               p.carrying[Agent0] \in r.delivered
    BY <1>2, <1>4 DEF Handles
  <2>3. Agent0 \in r.holders \ p.holders =>
          joint[Agent0] = "pick" /\ p.pos[Heavy] = front0 /\ p.carrying[Agent0] = Nothing
    BY <1>2, <1>4 DEF Handles
  <2>4. QED
    BY <1>5, <1>6, <2>1, <2>2, <2>3 DEF Hands, Takes
<1>10. Hands(p, q, joint[Agent1], front1, Agent1)
  <2>1. ASSUME joint[Agent1] = "pick", Takes(r, q, front1, Agent1)
        PROVE  LET o == q.carrying[Agent1]
               IN  \/ p.carriedBy[o] = Nobody /\ p.pos[o] = front1
                   \/ front1 = p.at[Agent0]
    <3> DEFINE o == q.carrying[Agent1]
    <3>1. o \in Packages /\ r.carriedBy[o] = Nobody /\ r.pos[o] = front1
      BY <2>1 DEF Takes, Packages
    <3> HIDE DEF o
    <3>2. CASE joint[Agent0] = "pick"
      <4>1. r.pos = p.pos
        BY <1>2, <3>2 DEF Handles
      <4>2. r.carrying[Agent0] # p.carrying[Agent0] => p.carrying[Agent0] = Nothing
        BY <1>2, <3>2 DEF Handles, Takes
      <4>3. \A a \in Agents : r.carrying[a] # o
        BY <1>5, <3>1, CastAssumption DEF Sound
      <4>4. p.carrying[Agent0] # o /\ p.carrying[Agent1] # o
        BY <1>4, <1>6, <3>1, <4>2, <4>3, CastAssumption
      <4>5. p.carriedBy[o] \notin Agents
        BY <1>5, <3>1, <4>4 DEF Sound, Agents
      <4>6. p.carriedBy[o] \in Agents \cup {Nobody}
        BY <1>5, <3>1 DEF Situations
      <4>7. QED
        BY <3>1, <4>1, <4>5, <4>6 DEF o
    <3>3. CASE joint[Agent0] # "pick"
      <4>1. \/ r.pos[o] = p.pos[o] /\ r.carriedBy[o] = p.carriedBy[o]
            \/ r.pos[o] = p.at[Agent0]
        BY <1>2, <3>1, <3>3 DEF Handles
      <4>2. QED
        BY <3>1, <4>1 DEF o
    <3>4. QED
      BY <3>2, <3>3
  <2>2. q.carrying[Agent1] # r.carrying[Agent1] =>
          joint[Agent1] = "drop" \/
          (joint[Agent1] = "pick" /\ Takes(r, q, front1, Agent1))
    BY <1>3 DEF Handles
  <2>3. joint[Agent1] = "drop" =>
          /\ q.carrying[Agent1] = Nothing
          /\ r.carrying[Agent1] \in Targets /\ r.at[Agent1] \in Zone =>
               r.carrying[Agent1] \in q.delivered
    BY <1>3, <1>4, <1>6 DEF Handles
  <2>4. Agent1 \in q.holders \ r.holders =>
          joint[Agent1] = "pick" /\ r.pos[Heavy] = front1 /\ r.carrying[Agent1] = Nothing
    BY <1>3, <1>4, <1>6 DEF Handles
  <2>5. r.pos[Heavy] = p.pos[Heavy]
    BY <1>2, CastAssumption DEF Handles, Packages
  <2>6. q.carrying[Agent1] # p.carrying[Agent1] =>
          \/ joint[Agent1] = "drop"
          \/ /\ joint[Agent1] = "pick" /\ p.carrying[Agent1] = Nothing
             /\ q.carrying[Agent1] \in Light \ p.delivered
             /\ \/ p.carriedBy[q.carrying[Agent1]] = Nobody /\ p.pos[q.carrying[Agent1]] = front1
                \/ front1 = p.at[Agent0]
    BY <1>5, <1>6, <2>1, <2>2 DEF Takes
  <2>7. QED
    BY <1>2, <1>3, <1>6, <2>3, <2>4, <2>5, <2>6 DEF Hands
<1>11. \A a \in Agents : Hands(p, q, joint[a], Ahead(p.at[a], look[a]), a)
  BY <1>9, <1>10 DEF Agents, front0, front1
<1>12. QED
  BY <1>7, <1>8, <1>11 DEF q, r

-----------------------------------------------------------------------------
(* The whole step of the world                                             *)

LEMMA WalksAvoid ==
  ASSUME NEW p, Sound(p), ~FullHold(p), Heavy \notin p.delivered,
         NEW look \in [Agents -> Directions], NEW joint \in [Agents -> Actions]
  PROVE  LET q == Travelled(Travelled(p, look, joint, Agent0), look, joint, Agent1)
         IN  \A a \in Agents : q.at[a] = p.at[a] \/ q.at[a] # p.pos[Heavy]
<1>1. ASSUME NEW r, Sound(r), ~FullHold(r), Heavy \notin r.delivered, NEW a \in Agents
      PROVE  LET q == Travelled(r, look, joint, a)
             IN  /\ \A b \in Agents : q.at[b] = r.at[b] \/ q.at[b] # r.pos[Heavy]
                 /\ SameBut(r, q) /\ Sound(q)
  <2> DEFINE cell == Ahead(r.at[a], look[a])
             q == Travelled(r, look, joint, a)
  <2>1. CASE joint[a] # "move_forward"
    BY <1>1, <2>1 DEF Travelled, SameBut
  <2>2. CASE joint[a] = "move_forward"
    <3>1. q = Moved(r, look, a)
      BY <2>2 DEF Travelled
    <3>2. SameBut(r, q) /\ Sound(q)
          /\ \A b \in Agents : q.at[b] = r.at[b] \/ (b = a /\ q.at[b] = cell)
      <4> DEFINE m == Moved(r, look, a)
      <4>1. /\ Keeps(r, m) /\ SameBut(r, m)
            /\ \A b \in Agents : m.at[b] = r.at[b] \/ (b = a /\ m.at[b] = Ahead(r.at[b], look[b]))
        BY <1>1, MovedKeeps
      <4> HIDE DEF m
      <4>2. QED
        BY <3>1, <4>1 DEF Keeps, m
    <3>3. CASE FreeForAgent(r, a, cell)
      <4>1. Heavy \in OnFloor(r)
        BY <1>1, CastAssumption DEF OnFloor, Sound, Packages
      <4>2. cell # r.pos[Heavy]
        BY <3>3, <4>1 DEF FreeForAgent
      <4> HIDE DEF q, cell
      <4>3. QED
        BY <3>2, <4>2 DEF q
    <3>4. CASE ~FreeForAgent(r, a, cell)
      <4>1. q = Pay(r, a, -10)
        BY <1>1, <3>1, <3>4 DEF Moved
      <4>2. q.at = r.at
        BY <1>1, <4>1, PayKeeps
      <4> HIDE DEF q
      <4>3. QED
        BY <3>2, <4>2 DEF q
    <3>5. QED
      BY <3>3, <3>4
  <2>3. QED
    BY <2>1, <2>2
<1> DEFINE r == Travelled(p, look, joint, Agent0)
           q == Travelled(r, look, joint, Agent1)
<1>2. /\ \A b \in Agents : r.at[b] = p.at[b] \/ r.at[b] # p.pos[Heavy]
      /\ SameBut(p, r) /\ Sound(r)
  BY <1>1 DEF Agents
<1>3. ~FullHold(r) /\ Heavy \notin r.delivered
  BY <1>2 DEF SameBut, FullHold
<1>4. \A b \in Agents : q.at[b] = r.at[b] \/ q.at[b] # r.pos[Heavy]
  BY <1>1, <1>2, <1>3 DEF Agents
<1> HIDE DEF r, q
<1>5. QED
  BY <1>2, <1>4 DEF SameBut, q, r

\* Where a package is at the end of a step.
LEMMA CloseRests ==
  ASSUME NEW p, Sound(p)
  PROVE  LET q == Rewarded(AutoDelivered(Synced(p)))
         IN  \A o \in Packages : q.pos[o] = p.pos[o] \/ \E a \in Agents : q.pos[o] = q.at[a]
<1> DEFINE s == Synced(p)
           d == AutoDelivered(s)
           q == Rewarded(d)
<1>1. p \in Situations
  BY DEF Sound
<1>2. Keeps(p, s) /\ s.at = p.at
  BY SyncedKeeps
<1>3. ASSUME NEW o \in Packages PROVE s.pos[o] = p.pos[o] \/ \E a \in Agents : s.pos[o] = p.at[a]
  <2> DEFINE where == [x \in Packages |-> IF Carrier(p, x) = {} THEN p.pos[x]
                                          ELSE p.at[CHOOSE a \in Carrier(p, x) : TRUE]]
  <2>1. s.pos = where
    BY <1>1 DEF Synced, Situations
  <2>2. Carrier(p, o) # {} => (CHOOSE a \in Carrier(p, o) : TRUE) \in Agents
    BY DEF Carrier
  <2>3. where[o] = IF Carrier(p, o) = {} THEN p.pos[o]
                   ELSE p.at[CHOOSE a \in Carrier(p, o) : TRUE]
    OBVIOUS
  <2> HIDE DEF s, where
  <2>4. QED
    BY <2>1, <2>2, <2>3
<1>4. Keeps(s, d) /\ d.pos = s.pos /\ d.at = s.at
  BY <1>2, AutoDeliveredKeeps DEF Keeps
<1>5. SameBut(d, q) /\ q.at = d.at
  BY <1>4, RewardedKeeps DEF Keeps
<1> HIDE DEF s, d, q
<1>6. QED
  BY <1>2, <1>3, <1>4, <1>5 DEF SameBut, q, d, s

\* What one joint step does, to an agent that drops only what it carries.
LEMMA StepHands ==
  ASSUME TransportInv, NEW joint \in [Agents -> Actions],
         \A a \in Agents : joint[a] = "drop" => carrying[a] # Nothing
  PROVE  LET p == Situation
             q == Resolved(joint)
         IN  /\ holders \subseteq q.holders
             /\ \A o \in Light : q.pos[o] = pos[o] \/ \E a \in Agents : q.pos[o] = q.at[a]
             /\ \A a \in Agents : Hands(p, q, joint[a], Ahead(at[a], Looks(joint)[a]), a)
             /\ holders # Agents /\ Heavy \notin delivered => \A a \in Agents :
                  \/ q.at[a] = at[a]
                  \/ /\ joint[a] = "move_forward" /\ q.at[a] # pos[Heavy]
                     /\ q.at[a] = Ahead(at[a], Looks(joint)[a])
<1> DEFINE look == Looks(joint)
           p == Situation
           p1 == Travelled(Travelled(p, look, joint, Agent0), look, joint, Agent1)
           p2 == Handled(Handled(p1, look, joint, Agent0), look, joint, Agent1)
           p3 == CarriedJointly(p2, look, joint)
           q == Rewarded(AutoDelivered(Synced(p3)))
<1>1. /\ Sound(p) /\ look \in [Agents -> Directions]
      /\ p.at = at /\ p.pos = pos /\ p.carrying = carrying /\ p.holders = holders
      /\ p.delivered = delivered /\ p.carriedBy = carriedBy
  BY InvIsSound, LooksTyped DEF Situation, TransportInv, TypeOK
<1>2. q = Resolved(joint)
  BY DEF Resolved
<1> HIDE DEF look
<1>3. /\ Keeps(p, p1) /\ SameBut(p, p1) /\ (FullHold(p) => p1.at = p.at)
      /\ \A b \in Agents : p1.at[b] = p.at[b] \/ p1.at[b] = Ahead(p.at[b], look[b])
  BY <1>1, WalksKeep
<1>4. \A a \in Agents : joint[a] # "move_forward" => p1.at[a] = p.at[a]
  BY <1>1, WalksPay
<1>5. ~FullHold(p) /\ Heavy \notin p.delivered =>
        \A a \in Agents : p1.at[a] = p.at[a] \/ p1.at[a] # p.pos[Heavy]
  BY <1>1, WalksAvoid
<1>6. \A a \in Agents : joint[a] = "drop" => p1.carrying[a] # Nothing
  BY <1>1, <1>3 DEF SameBut
<1>7. /\ p1.holders \subseteq p2.holders
      /\ \A o \in Packages : p2.pos[o] = p1.pos[o] \/
                             (o \in Light /\ \E a \in Agents : p2.pos[o] = p1.at[a])
      /\ \A a \in Agents : Hands(p1, p2, joint[a], Ahead(p1.at[a], look[a]), a)
  BY <1>1, <1>3, <1>6, BothHandle DEF Keeps
<1>8. /\ Keeps(p1, p2) /\ p2.at = p1.at
      /\ (\A a \in Agents : joint[a] = "move_forward") => p2 = p1
  BY <1>1, <1>3, HandsKeep DEF Keeps
<1>9. ASSUME Sound(p3)
      PROVE  /\ Keeps(p3, q) /\ Together(q) /\ q.at = p3.at /\ q.holders = p3.holders
             /\ q.carrying = p3.carrying
             /\ \A o \in Packages : q.pos[o] = p3.pos[o] \/ \E a \in Agents : q.pos[o] = q.at[a]
  BY <1>9, CloseKeeps, ClosePays, CloseRests
<1> HIDE DEF p, p1, p2, p3, q
<1>10. CASE JointMoves(p2, look, joint)
  <2>1. p2 = p1 /\ FullHold(p) /\ \A a \in Agents : joint[a] = "move_forward"
    BY <1>3, <1>8, <1>10 DEF JointMoves, FullHold, SameBut
  <2>2. Keeps(p2, p3) /\ p3.holders = p2.holders
    BY <1>1, <1>8, <1>10, CarriedJointlyKeeps DEF Keeps, p3
  <2>3. p3.carrying = p2.carrying /\ \A o \in Light : p3.pos[o] = p2.pos[o]
    <3>1. p2 \in Situations
      BY <1>8 DEF Keeps, Sound
    <3>2. p3.carrying = p2.carrying
          /\ p3.pos = [p2.pos EXCEPT ![Heavy] = Ahead(p2.pos[Heavy], look[Agent0])]
      BY <1>10, <3>1 DEF CarriedJointly, Situations, p3
    <3>3. QED
      BY <3>1, <3>2, CastAssumption DEF Situations, Packages
  <2>4. /\ Keeps(p3, q) /\ q.holders = p3.holders /\ q.carrying = p3.carrying
        /\ \A o \in Packages : q.pos[o] = p3.pos[o] \/ \E a \in Agents : q.pos[o] = q.at[a]
    BY <1>9, <2>2 DEF Keeps
  <2>5. q.carrying = p.carrying /\ q.holders = p.holders /\ p1.pos = p.pos
    BY <1>3, <2>1, <2>2, <2>3, <2>4 DEF SameBut
  <2>6. \A a \in Agents : Hands(p, q, joint[a], Ahead(at[a], look[a]), a)
    BY <2>1, <2>5 DEF Hands
  <2>7. \A o \in Light : q.pos[o] = p.pos[o] \/ \E a \in Agents : q.pos[o] = q.at[a]
    BY <2>1, <2>3, <2>4, <2>5 DEF Packages
  <2>8. holders = Agents
    BY <1>1, <2>1 DEF FullHold
  <2>9. QED
    BY <1>1, <1>2, <2>5, <2>6, <2>7, <2>8 DEF look, p
<1>11. CASE ~JointMoves(p2, look, joint)
  <2>1. p3 = p2
    BY <1>11 DEF CarriedJointly, p3
  <2>2. /\ Keeps(p2, q) /\ q.at = p2.at /\ q.holders = p2.holders /\ q.carrying = p2.carrying
        /\ \A o \in Packages : q.pos[o] = p2.pos[o] \/ \E a \in Agents : q.pos[o] = q.at[a]
    BY <1>8, <1>9, <2>1 DEF Keeps
  <2>3. ASSUME NEW a \in Agents PROVE Hands(p, q, joint[a], Ahead(at[a], look[a]), a)
    <3>1. Hands(p1, p2, joint[a], Ahead(p1.at[a], look[a]), a)
      BY <1>7
    <3>2. joint[a] \in {"pick", "drop"} => p1.at[a] = at[a]
      BY <1>1, <1>4
    <3>3. p2.delivered \subseteq q.delivered
      BY <2>2 DEF Keeps, Rests
    <3>4. QED
      BY <1>1, <1>3, <1>8, <2>2, <3>1, <3>2, <3>3 DEF Hands, SameBut
  <2>4. holders \subseteq q.holders
    BY <1>1, <1>3, <1>7, <2>2 DEF SameBut
  <2>5. ASSUME NEW o \in Light PROVE q.pos[o] = pos[o] \/ \E a \in Agents : q.pos[o] = q.at[a]
    BY <1>1, <1>3, <1>7, <1>8, <2>2 DEF SameBut, Packages
  <2>6. holders # Agents /\ Heavy \notin delivered => \A a \in Agents :
          \/ q.at[a] = at[a]
          \/ /\ joint[a] = "move_forward" /\ q.at[a] # pos[Heavy]
             /\ q.at[a] = Ahead(at[a], look[a])
    BY <1>1, <1>3, <1>4, <1>5, <1>8, <2>2 DEF FullHold
  <2>7. QED
    BY <1>2, <2>3, <2>4, <2>5, <2>6 DEF look, p
<1>12. QED
  BY <1>10, <1>11

-----------------------------------------------------------------------------
(* Geometry of the map                                                     *)

USE GridAssumption

LEMMA LeastOfTwo ==
  ASSUME NEW x \in Int, NEW y \in Int
  PROVE  Min({x, y}) = IF x <= y THEN x ELSE y
<1>1. Min({x, y}) \in {x, y} /\ \A z \in {x, y} : Min({x, y}) <= z
  <2>1. \E u \in {x, y} : \A z \in {x, y} : u <= z
    OBVIOUS
  <2>2. QED
    BY <2>1 DEF Min
<1>2. QED
  BY <1>1

LEMMA NoneBelowZero == \A z \in Int : Max({0, z}) = IF 0 <= z THEN z ELSE 0
<1> SUFFICES ASSUME NEW z \in Int PROVE Max({0, z}) = IF 0 <= z THEN z ELSE 0
  OBVIOUS
<1>1. Max({0, z}) \in {0, z} /\ \A y \in {0, z} : Max({0, z}) >= y
  <2>1. \E u \in {0, z} : \A y \in {0, z} : u >= y
    OBVIOUS
  <2>2. QED
    BY <2>1 DEF Max
<1>2. QED
  BY <1>1


\* A belief is never off the map, and what is on it is not changed.
LEMMA ClampedCells ==
  ASSUME NEW c \in Int \X Int
  PROVE  Clamped(c) \in Cells /\ (c \in Cells => Clamped(c) = c)
<1>1. PICK x \in Int, y \in Int : c = <<x, y>>
  OBVIOUS
<1> DEFINE u == Min({Width - 1, x})
           v == Min({Height - 1, y})
<1>2. /\ u = IF Width - 1 <= x THEN Width - 1 ELSE x
      /\ v = IF Height - 1 <= y THEN Height - 1 ELSE y
  BY LeastOfTwo
<1>3. Clamped(c) = <<Max({0, u}), Max({0, v})>>
  BY <1>1 DEF Clamped
<1> HIDE DEF u, v
<1>4. u \in Int /\ v \in Int
  BY <1>2
<1>5. \A z \in Int : Max({0, z}) = IF 0 <= z THEN z ELSE 0
  BY NoneBelowZero
<1>6. QED
  BY <1>1, <1>2, <1>3, <1>4, <1>5 DEF Cells

LEMMA CellsAreInts == Cells \subseteq Int \X Int
  BY DEF Cells

LEMMA FrontSpot ==
  ASSUME NEW c \in Int \X Int, NEW d \in Directions
  PROVE  Spot(c, d, 1, 0) = Ahead(c, d) /\ Ahead(c, d) \in Int \X Int
<1>1. PICK x \in Int, y \in Int : c = <<x, y>>
  OBVIOUS
<1>2. Ahead(c, d) \in Int \X Int
  BY AheadCells
<1>3. Spot(c, d, 1, 0) = Ahead(c, d)
  BY <1>1 DEF Spot, Vector, Ahead, Directions, RIGHT, DOWN, LEFT, UP
<1>4. QED
  BY <1>2, <1>3

\* The seat of a spot is where it was seen from.
LEMMA SeatOfSpot ==
  ASSUME NEW c \in Int \X Int, NEW d \in Directions, NEW k \in Int, NEW s \in Int
  PROVE  Seat(Spot(c, d, k, s), c, d) = <<k, s>> /\ Spot(c, d, k, s) \in Int \X Int
<1>1. PICK x \in Int, y \in Int : c = <<x, y>>
  OBVIOUS
<1>2. /\ Vector[0] = <<1, 0>> /\ Vector[1] = <<0, 1>> /\ Vector[2] = <<-1, 0>>
      /\ Vector[3] = <<0, -1>>
  BY DEF Vector, Ahead, Directions, RIGHT, DOWN, LEFT, UP
<1>3. CASE d = 0
  <2>1. Spot(c, d, k, s) = <<x + k, y + s>>
    BY <1>1, <1>2, <1>3 DEF Spot
  <2>2. QED
    BY <1>1, <1>2, <1>3, <2>1 DEF Seat
<1>4. CASE d = 1
  <2>1. Spot(c, d, k, s) = <<x - s, y + k>>
    BY <1>1, <1>2, <1>4 DEF Spot
  <2>2. QED
    BY <1>1, <1>2, <1>4, <2>1 DEF Seat
<1>5. CASE d = 2
  <2>1. Spot(c, d, k, s) = <<x - k, y - s>>
    BY <1>1, <1>2, <1>5 DEF Spot
  <2>2. QED
    BY <1>1, <1>2, <1>5, <2>1 DEF Seat
<1>6. CASE d = 3
  <2>1. Spot(c, d, k, s) = <<x + s, y - k>>
    BY <1>1, <1>2, <1>6 DEF Spot
  <2>2. QED
    BY <1>1, <1>2, <1>6, <2>1 DEF Seat
<1>7. QED
  BY <1>3, <1>4, <1>5, <1>6 DEF Directions, RIGHT, DOWN, LEFT, UP

-----------------------------------------------------------------------------
(* What is seen                                                            *)

Seen == Labels \cup {"unknown"}

Beliefs ==
  [at : Cells, carry : Targets \cup {Nothing}, engaged : SUBSET Targets,
   claimed : SUBSET Targets, map : [Cells -> Seen]]

\* A view changes the map alone, shows what it shows of the picture, and always the cell in
\* front.
Shows(b, s, d, pic, from) ==
  /\ s \in Beliefs
  /\ s.at = b.at /\ s.carry = b.carry /\ s.engaged = b.engaged /\ s.claimed = b.claimed
  /\ \A c \in Cells : s.map[c] = b.map[c] \/ s.map[c] \in Labels
  /\ from = b.at => \A c \in Cells : s.map[c] = b.map[c] \/ s.map[c] = pic[c]
  /\ from = b.at /\ Ahead(from, d) \in Cells => s.map[Ahead(from, d)] = pic[Ahead(from, d)]

LEMMA SweepShows ==
  ASSUME NEW b \in Beliefs, NEW d \in Directions, NEW pic \in [Cells -> Labels],
         NEW from \in Int \X Int
  PROVE  Shows(b, Sweep(b, d, Image(pic, from, d)), d, pic, from)
<1> DEFINE image == Image(pic, from, d)
           lit == {v \in View : image[v] # "dark"}
           seen == {Spot(b.at, d, v[1], v[2]) : v \in lit} \cap Cells
           new == [c \in Cells |-> IF c \in seen THEN image[Seat(c, b.at, d)] ELSE b.map[c]]
           s == Sweep(b, d, image)
<1>1. s = [b EXCEPT !.map = new]
  BY DEF Sweep
<1>2. b.at \in Int \X Int /\ b.map \in [Cells -> Seen]
  BY CellsAreInts DEF Beliefs
<1>3. \A v \in View : v[1] \in Int /\ v[2] \in Int /\ v = <<v[1], v[2]>>
  BY DEF View
<1>4. ASSUME NEW v \in View, image[v] # "dark"
      PROVE  image[v] = Look(pic, Spot(from, d, v[1], v[2])) /\ image[v] \in Labels
  <2>1. image[v] = Look(pic, Spot(from, d, v[1], v[2]))
    BY <1>4 DEF Image
  <2>2. Look(pic, Spot(from, d, v[1], v[2])) \in Labels
    BY DEF Look, Labels
  <2>3. QED
    BY <2>1, <2>2
<1>5. <<1, 0>> \in lit
  <2>1. <<1, 0>> \in View
    BY DEF View
  <2>2. image[<<1, 0>>] = Look(pic, Spot(from, d, 1, 0))
    BY <2>1 DEF Image
  <2>3. Look(pic, Spot(from, d, 1, 0)) # "dark"
    BY DEF Look, Labels
  <2>4. QED
    BY <2>1, <2>2, <2>3
<1> HIDE DEF image
<1>6. ASSUME NEW c \in seen
      PROVE  \E v \in lit : /\ c = Spot(b.at, d, v[1], v[2])
                            /\ new[c] = Look(pic, Spot(from, d, v[1], v[2]))
                            /\ new[c] \in Labels
  <2>1. PICK v \in lit : c = Spot(b.at, d, v[1], v[2])
    OBVIOUS
  <2>2. Seat(c, b.at, d) = <<v[1], v[2]>>
    BY <1>2, <1>3, <2>1, SeatOfSpot
  <2>3. new[c] = image[v]
    BY <1>3, <2>2
  <2>4. QED
    BY <1>4, <2>1, <2>3
<1>7. \A c \in Cells : c \notin seen => new[c] = b.map[c]
  OBVIOUS
<1>8. new \in [Cells -> Seen]
  <2>1. \A c \in Cells : new[c] \in Seen
    BY <1>2, <1>6, <1>7 DEF Seen
  <2>2. QED
    BY <2>1
<1>9. ASSUME from = b.at, NEW c \in seen PROVE new[c] = pic[c]
  BY <1>6, <1>9 DEF Look
<1>10. ASSUME from = b.at, Ahead(from, d) \in Cells
       PROVE  Ahead(from, d) \in seen
  <2>1. Spot(b.at, d, 1, 0) = Ahead(from, d)
    BY <1>2, <1>10, FrontSpot
  <2> DEFINE v == <<1, 0>>
  <2>2. v \in lit /\ v[1] = 1 /\ v[2] = 0
    BY <1>5
  <2> HIDE DEF v
  <2>3. QED
    BY <1>10, <2>1, <2>2
<1> HIDE DEF new, s, seen
<1>11. /\ s \in Beliefs /\ s.at = b.at /\ s.carry = b.carry /\ s.engaged = b.engaged
       /\ s.claimed = b.claimed /\ s.map = new
  BY <1>1, <1>8 DEF Beliefs
<1>12. \A c \in Cells : s.map[c] = b.map[c] \/ s.map[c] \in Labels
  BY <1>6, <1>7, <1>11
<1>13. from = b.at => \A c \in Cells : s.map[c] = b.map[c] \/ s.map[c] = pic[c]
  BY <1>7, <1>9, <1>11
<1>14. from = b.at /\ Ahead(from, d) \in Cells => s.map[Ahead(from, d)] = pic[Ahead(from, d)]
  BY <1>9, <1>10, <1>11
<1>15. QED
  BY <1>11, <1>12, <1>13, <1>14 DEF s, image, Shows

-----------------------------------------------------------------------------
(* What is reckoned                                                        *)

LEMMA ResolveTyped ==
  ASSUME NEW b \in Beliefs, NEW needed
  PROVE  Resolve(b, needed) \in Targets \cup {Nothing}
<1> DEFINE available == Targets \ ({b.carry} \cup b.engaged \cup b.claimed)
           matching == IF needed = 1 THEN available \cap Light ELSE available \cap {Heavy}
<1>1. available \subseteq Targets /\ matching \subseteq Targets /\ Targets \subseteq Nat
  BY PackagesAreFinite
<1>2. matching # {} => Min(matching) \in Targets
  BY <1>1, LeastInReach
<1>3. available # {} => Min(available) \in Targets
  BY <1>1, LeastInReach
<1>4. QED
  BY <1>2, <1>3 DEF Resolve

\* With free hands the name that is guessed is the only one it can be.
LEMMA ResolveFinds ==
  ASSUME PriorAssumption, NEW b \in Beliefs, b.carry = Nothing, b.engaged = {}
  PROVE  /\ \A o \in Light \cap Targets : o \notin b.claimed => Resolve(b, 1) = o
         /\ Heavy \notin b.claimed => Resolve(b, 2) = Heavy
<1> DEFINE available == Targets \ ({b.carry} \cup b.engaged \cup b.claimed)
<1>1. PICK t \in Light : Targets = {Heavy, t}
  BY DEF PriorAssumption
<1>2. available = {Heavy, t} \ b.claimed /\ t # Heavy
  BY <1>1, CastAssumption DEF Packages
<1>3. \A x \in Nat : Min({x}) = x
  BY LeastInReach
<1>a. available \cap Light # {} => Resolve(b, 1) = Min(available \cap Light)
  BY DEF Resolve
<1>b. available \cap {Heavy} # {} => Resolve(b, 2) = Min(available \cap {Heavy})
  BY DEF Resolve
<1> HIDE DEF available
<1>4. ASSUME NEW o \in Light \cap Targets, o \notin b.claimed PROVE Resolve(b, 1) = o
  <2>1. available \cap Light = {o}
    BY <1>1, <1>2, <1>4, CastAssumption
  <2>2. Min({o}) = o
    BY <1>3, CastAssumption
  <2>3. QED
    BY <1>a, <2>1, <2>2
<1>5. ASSUME Heavy \notin b.claimed PROVE Resolve(b, 2) = Heavy
  <2>1. available \cap {Heavy} = {Heavy}
    BY <1>1, <1>2, <1>5
  <2>2. Min({Heavy}) = Heavy
    BY <1>3, CastAssumption
  <2>3. QED
    BY <1>b, <2>1, <2>2
<1>6. QED
  BY <1>4, <1>5

\* A pick that is believed.
Grasps(b, d, action, pay) ==
  action = "pick" /\ pay > 0 /\ Ahead(b.at, d) \in Cells /\ IsBox(b.map[Ahead(b.at, d)])

\* Where the map is written.
Writes(b, r, d, action, pay, c) ==
  \/ r.map[c] = b.map[c]
  \/ action = "move_forward" /\ ReadsMoved(pay) /\ c = r.at /\ r.map[c] = "empty"
  \/ /\ Grasps(b, d, action, pay) /\ c = Ahead(b.at, d)
     /\ r.map[c] = IF ReadsCarried(pay) THEN "empty" ELSE "target"
  \/ action = "drop" /\ b.carry # Nothing /\ c = b.at /\ r.map[c] = "target"

\* What an agent thinks of its hands and its deliveries.
Thinks(b, r, d, action, pay) ==
  /\ ~Grasps(b, d, action, pay) /\ action # "drop" =>
       r.carry = b.carry /\ r.engaged = b.engaged /\ r.claimed = b.claimed
  /\ Grasps(b, d, action, pay) =>
       /\ r.claimed = b.claimed
       /\ ReadsCarried(pay) =>
            /\ r.carry = IF Resolve(b, 1) = Nothing THEN b.carry ELSE Resolve(b, 1)
            /\ r.engaged = b.engaged
       /\ ~ReadsCarried(pay) =>
            /\ r.carry = b.carry
            /\ r.engaged = b.engaged \cup ({Resolve(b, 2)} \ {Nothing})
  /\ action = "drop" =>
       /\ r.carry = Nothing /\ r.engaged = {}
       /\ \/ r.claimed = b.claimed
          \/ /\ b.carry # Nothing /\ b.map[b.at] = "zone"
             /\ r.claimed = b.claimed \cup {b.carry}

Reckons(b, r, d, action, pay) ==
  /\ r \in Beliefs
  /\ r.at = IF action = "move_forward" /\ ReadsMoved(pay) THEN Clamped(Ahead(b.at, d)) ELSE b.at
  /\ \A c \in Cells : Writes(b, r, d, action, pay, c)
  /\ Thinks(b, r, d, action, pay)

LEMMA WalkedReckons ==
  ASSUME NEW b \in Beliefs, NEW d \in Directions, NEW pay \in Int, ReadsMoved(pay)
  PROVE  Reckons(b, Walked(b, d), d, "move_forward", pay)
<1> DEFINE cell == Clamped(Ahead(b.at, d))
           new == [b.map EXCEPT ![cell] = IF IsBox(@) THEN "empty" ELSE @]
           r == Walked(b, d)
<1>1. cell \in Cells
  BY AheadCells, ClampedCells, CellsAreInts DEF Beliefs
<1>2. new \in [Cells -> Seen] /\ \A c \in Cells : new[c] = b.map[c] \/ (c = cell /\ new[c] = "empty")
  BY <1>1 DEF Beliefs, Seen, Labels
<1>3. r = [b EXCEPT !.at = cell, !.map = new]
  BY DEF Walked, Beliefs
<1> HIDE DEF cell, new, r
<1>4. /\ r \in Beliefs /\ r.at = cell /\ r.map = new /\ r.carry = b.carry
      /\ r.engaged = b.engaged /\ r.claimed = b.claimed
  BY <1>1, <1>2, <1>3 DEF Beliefs
<1>5. QED
  BY <1>2, <1>4 DEF Reckons, Writes, Thinks, Grasps, r, cell

LEMMA GraspedReckons ==
  ASSUME NEW b \in Beliefs, NEW d \in Directions, NEW pay \in Int, pay > 0
  PROVE  Reckons(b, Grasped(b, d, pay), d, "pick", pay)
<1> DEFINE front == Ahead(b.at, d)
           r == Grasped(b, d, pay)
<1>1. CASE r = b /\ ~Grasps(b, d, "pick", pay)
  BY <1>1 DEF Reckons, Writes, Thinks
<1>2. CASE Grasps(b, d, "pick", pay) /\ ReadsCarried(pay)
  <2> DEFINE o == Resolve(b, 1)
             hand == IF o = Nothing THEN b.carry ELSE o
             new == [b.map EXCEPT ![front] = "empty"]
  <2>1. r = [b EXCEPT !.map = new, !.carry = hand]
    BY <1>2 DEF Grasped, Grasps, Beliefs
  <2>2. hand \in Targets \cup {Nothing}
    BY ResolveTyped DEF Beliefs
  <2>3. new \in [Cells -> Seen] /\ \A c \in Cells : new[c] = b.map[c] \/ (c = front /\ new[c] = "empty")
    BY <1>2 DEF Grasps, Beliefs, Seen, Labels
  <2> HIDE DEF hand, new, r
  <2>4. /\ r \in Beliefs /\ r.at = b.at /\ r.map = new /\ r.carry = hand
        /\ r.engaged = b.engaged /\ r.claimed = b.claimed
    BY <2>1, <2>2, <2>3 DEF Beliefs
  <2>5. QED
    BY <1>2, <2>3, <2>4 DEF Reckons, Writes, Thinks, r, hand
<1>3. CASE Grasps(b, d, "pick", pay) /\ ~ReadsCarried(pay) /\ Resolve(b, 2) = Nothing
  <2>1. r = b
    BY <1>3 DEF Grasped, Grasps
  <2>2. b.engaged = b.engaged \cup ({Resolve(b, 2)} \ {Nothing})
    BY <1>3
  <2> HIDE DEF r
  <2>3. QED
    BY <1>3, <2>1, <2>2 DEF Reckons, Writes, Thinks, r
<1>4. CASE Grasps(b, d, "pick", pay) /\ ~ReadsCarried(pay) /\ Resolve(b, 2) # Nothing
  <2> DEFINE more == b.engaged \cup {Resolve(b, 2)}
             new == [b.map EXCEPT ![front] = "target"]
  <2>1. r = [b EXCEPT !.engaged = more, !.map = new]
    BY <1>4 DEF Grasped, Grasps, Beliefs
  <2>2. more \in SUBSET Targets /\ more = b.engaged \cup ({Resolve(b, 2)} \ {Nothing})
    BY <1>4, ResolveTyped DEF Beliefs
  <2>3. new \in [Cells -> Seen] /\ \A c \in Cells : new[c] = b.map[c] \/ (c = front /\ new[c] = "target")
    BY <1>4 DEF Grasps, Beliefs, Seen, Labels
  <2> HIDE DEF more, new, r
  <2>4. /\ r \in Beliefs /\ r.at = b.at /\ r.map = new /\ r.carry = b.carry
        /\ r.engaged = more /\ r.claimed = b.claimed
    BY <2>1, <2>2, <2>3 DEF Beliefs
  <2>5. QED
    BY <1>4, <2>2, <2>3, <2>4 DEF Reckons, Writes, Thinks, r
<1>5. ~Grasps(b, d, "pick", pay) => r = b
  BY DEF Grasps, Grasped
<1>6. QED
  BY <1>1, <1>2, <1>3, <1>4, <1>5

LEMMA LetGoReckons ==
  ASSUME NEW b \in Beliefs, NEW d \in Directions, NEW pay \in Int
  PROVE  Reckons(b, LetGo(b), d, "drop", pay)
<1> DEFINE r == LetGo(b)
<1>1. CASE b.carry = Nothing
  <2>1. r = [b EXCEPT !.engaged = {}]
    BY <1>1 DEF LetGo
  <2> HIDE DEF r
  <2>2. /\ r \in Beliefs /\ r.at = b.at /\ r.map = b.map /\ r.carry = b.carry
        /\ r.engaged = {} /\ r.claimed = b.claimed
    BY <2>1 DEF Beliefs
  <2>3. QED
    BY <1>1, <2>2 DEF Reckons, Writes, Thinks, Grasps, r
<1>2. CASE b.carry # Nothing /\ b.map[b.at] = "zone"
  <2> DEFINE more == b.claimed \cup {b.carry}
  <2>1. r = [b EXCEPT !.claimed = more, !.carry = Nothing, !.engaged = {}]
    BY <1>2 DEF LetGo, Beliefs
  <2>2. more \in SUBSET Targets
    BY <1>2 DEF Beliefs
  <2> HIDE DEF more, r
  <2>3. /\ r \in Beliefs /\ r.at = b.at /\ r.map = b.map /\ r.carry = Nothing
        /\ r.engaged = {} /\ r.claimed = more
    BY <2>1, <2>2 DEF Beliefs
  <2>4. QED
    BY <1>2, <2>3 DEF Reckons, Writes, Thinks, Grasps, r, more
<1>3. CASE b.carry # Nothing /\ b.map[b.at] # "zone"
  <2> DEFINE new == [b.map EXCEPT ![b.at] = "target"]
  <2>1. r = [b EXCEPT !.map = new, !.carry = Nothing, !.engaged = {}]
    BY <1>3 DEF LetGo, Beliefs
  <2>2. new \in [Cells -> Seen] /\ \A c \in Cells : new[c] = b.map[c] \/ (c = b.at /\ new[c] = "target")
    BY DEF Beliefs, Seen, Labels
  <2> HIDE DEF new, r
  <2>3. /\ r \in Beliefs /\ r.at = b.at /\ r.map = new /\ r.carry = Nothing
        /\ r.engaged = {} /\ r.claimed = b.claimed
    BY <2>1, <2>2 DEF Beliefs
  <2>4. QED
    BY <1>3, <2>2, <2>3 DEF Reckons, Writes, Thinks, Grasps, r
<1>4. QED
  BY <1>1, <1>2, <1>3

LEMMA ReckonReckons ==
  ASSUME NEW b \in Beliefs, NEW d \in Directions, NEW action \in Actions, NEW pay \in Int
  PROVE  Reckons(b, Reckon(b, d, action, pay), d, action, pay)
<1>1. CASE action = "move_forward" /\ ReadsMoved(pay)
  BY <1>1, WalkedReckons DEF Reckon
<1>2. CASE action = "pick" /\ pay > 0
  BY <1>2, GraspedReckons DEF Reckon
<1>3. CASE action = "drop"
  BY <1>3, LetGoReckons DEF Reckon
<1>4. CASE ~(action = "move_forward" /\ ReadsMoved(pay)) /\ ~(action = "pick" /\ pay > 0)
           /\ action # "drop"
  <2>1. Reckon(b, d, action, pay) = b
    BY <1>4 DEF Reckon
  <2>2. Reckons(b, b, d, action, pay)
    BY <1>4 DEF Reckons, Writes, Thinks, Grasps
  <2>3. QED
    BY <2>1, <2>2
<1>5. QED
  BY <1>1, <1>2, <1>3, <1>4

-----------------------------------------------------------------------------
(* What the skills answer                                                  *)

USE BudgetAssumption

Legs == {"stay", "move_forward", "turn_left", "turn_right"}

\* An answer is an action and a record; nobody drops what it does not believe to carry, or
\* picks with hands it does not believe to be free.
Sane(x, a) ==
  /\ x.action \in Actions /\ x.record \in Records
  /\ x.action = "drop" => carry[a] # Nothing
  /\ x.action = "pick" => carry[a] = Nothing /\ engaged[a] = {}

LEMMA FinishIsSane ==
  ASSUME NEW a, NEW label \in Outcomes
  PROVE  Sane(Finish(label), a) /\ Finish(label).record.done
<1>1. Fresh \in Records
  BY DEF Fresh, Records, Outcomes
<1>2. [Fresh EXCEPT !.done = TRUE, !.label = label] \in Records
      /\ [Fresh EXCEPT !.done = TRUE, !.label = label].done
  BY <1>1 DEF Records
<1>3. QED
  BY <1>2 DEF Finish, Answer, Sane, Actions

LEMMA LegsAreSane ==
  ASSUME NEW a, NEW s \in Records, NEW action \in Legs
  PROVE  Sane(Answer(action, s), a)
  BY DEF Answer, Sane, Legs, Actions

LEMMA FaceIsLeg == ASSUME NEW d, NEW e PROVE Face(d, e) \in Legs
  BY DEF Face, Legs

LEMMA TowardIsLeg == ASSUME NEW a, NEW goal PROVE Toward(a, goal) \in Legs
<1>1. "stay" \in Legs
  BY DEF Legs
<1>2. QED
  BY <1>1, FaceIsLeg DEF Toward

LEMMA FrontierIsLeg == ASSUME NEW a PROVE Frontier(a) \in Legs
<1>1. "turn_right" \in Legs
  BY DEF Legs
<1>2. QED
  BY <1>1, FaceIsLeg DEF Frontier

LEMMA UnlessStuckIsSane ==
  ASSUME NEW s \in Records, NEW a, believed[a] \in Cells, NEW action \in Legs
  PROVE  Sane(UnlessStuck(s, a, action), a)
<1> DEFINE stuck == IF s.prev = believed[a] THEN s.stuck + 1 ELSE 0
           turned == [s EXCEPT !.prev = believed[a], !.stuck = 0]
           counted == [s EXCEPT !.prev = believed[a], !.stuck = stuck]
<1>1. stuck \in Nat
  BY DEF Records
<1>2. turned \in Records /\ counted \in Records
  BY <1>1 DEF Records
<1>3. "turn_left" \in Legs
  BY DEF Legs
<1> HIDE DEF turned, counted
<1>4. Sane(Answer("turn_left", turned), a) /\ Sane(Answer(action, counted), a)
  BY <1>2, <1>3, LegsAreSane
<1>5. QED
  BY <1>4 DEF UnlessStuck, turned, counted

LEMMA WalkIsSane ==
  ASSUME NEW s \in Records, NEW a, believed[a] \in Cells, NEW goal
  PROVE  Sane(Walk(s, a, goal), a)
<1> DEFINE t == [s EXCEPT !.steps = @ + 1]
<1>1. t \in Records
  BY DEF Records
<1>2. Sane(Finish("blocked"), a)
  BY FinishIsSane DEF Outcomes
<1> HIDE DEF t
<1>3. Sane(UnlessStuck(t, a, Toward(a, goal)), a)
  BY <1>1, TowardIsLeg, UnlessStuckIsSane
<1>4. QED
  BY <1>2, <1>3 DEF Walk, t

\* Every answer of every skill.
LEMMA AnswersAreSane ==
  ASSUME NEW a, believed[a] \in Cells, record[a] \in Records, skill[a] \in Skills,
         skill[a] = "wait" => record[a].done,
         NEW x \in Answers(a)
  PROVE  Sane(x, a) /\ (record[a].done => x.record = record[a])
<1> DEFINE s == record[a]
<1>1. \A label \in Outcomes : Sane(Finish(label), a)
  BY FinishIsSane
<1>2. CASE record[a].done
  <2>1. x = Answer("stay", s)
    BY <1>2 DEF Answers
  <2>2. x.record = s
    BY <2>1 DEF Answer
  <2>3. QED
    BY <2>1, <2>2, LegsAreSane DEF Legs
<1>3. CASE ~record[a].done /\ skill[a] = "explore"
  <2> DEFINE t == [s EXCEPT !.begun = TRUE,
                     !.targets = IF s.begun THEN @ ELSE TargetCells,
                     !.decoys = IF s.begun THEN @ ELSE DecoyCells]
             u == [t EXCEPT !.steps = @ + 1]
  <2>1. t \in Records
    BY DEF Records, TargetCells, DecoyCells
  <2> HIDE DEF t
  <2>2. u \in Records
    BY <2>1 DEF Records
  <2>3. x \in Explore(s, a)
    BY <1>3 DEF Answers
  <2> HIDE DEF u, s
  <2>4. x \in {Finish("found_target"), Finish("found_decoy"), Finish("explored"),
               UnlessStuck(u, a, Frontier(a))}
    BY <2>3 DEF Explore, u, t
  <2>5. Sane(UnlessStuck(u, a, Frontier(a)), a)
    BY <2>2, FrontierIsLeg, UnlessStuckIsSane
  <2>6. QED
    BY <1>1, <1>3, <2>4, <2>5 DEF Outcomes
<1>4. CASE ~record[a].done /\ skill[a] = "goto_target"
  <2>1. x \in GotoTarget(s, a)
    BY <1>4 DEF Answers
  <2>2. \/ x \in {Finish("at_target"), Finish("none_known")}
        \/ \E goal \in NearestTargets(believed[a]) : x = Walk(s, a, goal)
    BY <2>1 DEF GotoTarget
  <2>3. QED
    BY <1>1, <1>4, <2>2, WalkIsSane DEF Outcomes
<1>5. CASE ~record[a].done /\ skill[a] = "goto_delivery"
  <2>1. x \in GotoDelivery(s, a)
    BY <1>5 DEF Answers
  <2>2. x = Finish("at_delivery") \/ x = Walk(s, a, NearestZone(believed[a]))
    BY <2>1 DEF GotoDelivery
  <2>3. QED
    BY <1>1, <1>5, <2>2, WalkIsSane DEF Outcomes
<1>6. CASE ~record[a].done /\ skill[a] = "pick"
  <2> DEFINE t == [s EXCEPT !.begun = TRUE]
  <2>1. t \in Records
    BY DEF Records
  <2>2. x \in Pick(s, a)
    BY <1>6 DEF Answers
  <2> HIDE DEF t, s
  <2>3. \/ x \in {Finish("picked_solo"), Finish("latched_coop"), Finish("failed")}
        \/ carry[a] = Nothing /\ engaged[a] = {} /\ x = Answer("pick", t)
    BY <2>2 DEF Pick, t
  <2>4. carry[a] = Nothing /\ engaged[a] = {} => Sane(Answer("pick", t), a)
    BY <2>1 DEF Sane, Answer, Actions
  <2>5. QED
    BY <1>1, <1>6, <2>3, <2>4 DEF Outcomes
<1>7. CASE ~record[a].done /\ skill[a] = "drop"
  <2> DEFINE t == [s EXCEPT !.begun = TRUE]
  <2>1. t \in Records
    BY DEF Records
  <2>2. x \in Drop(s, a)
    BY <1>7 DEF Answers
  <2>a. s.begun \in BOOLEAN
    BY DEF Records
  <2> HIDE DEF t, s
  <2>3. \/ x \in {Finish("delivered"), Finish("dropped"), Finish("nothing")}
        \/ carry[a] # Nothing /\ x = Answer("drop", t)
    BY <2>2, <2>a DEF Drop, t
  <2>4. carry[a] # Nothing => Sane(Answer("drop", t), a)
    BY <2>1 DEF Sane, Answer, Actions
  <2>5. QED
    BY <1>1, <1>7, <2>3, <2>4 DEF Outcomes
<1>8. CASE ~record[a].done /\ skill[a] = "cooperate_move"
  <2> DEFINE t == [s EXCEPT !.steps = @ + 1]
             go == Toward(a, NearestZone(believed[a]))
  <2>1. t \in Records
    BY DEF Records
  <2>2. x \in CooperativeMove(s, a)
    BY <1>8 DEF Answers
  <2> HIDE DEF t, s
  <2>3. x \in {Finish("arrived"), Finish("waiting_partner"), Finish("moved"),
               UnlessStuck(t, a, go)}
    BY <2>2 DEF CooperativeMove, t
  <2>4. Sane(UnlessStuck(t, a, go), a)
    BY <2>1, TowardIsLeg, UnlessStuckIsSane
  <2>5. QED
    BY <1>1, <1>8, <2>3, <2>4 DEF Outcomes
<1>9. QED
  BY <1>2, <1>3, <1>4, <1>5, <1>6, <1>7, <1>8 DEF Skills

-----------------------------------------------------------------------------
(* The step of the team                                                    *)

Typed ==
  /\ TransportInv
  /\ CommanderTypeOK
  /\ \A a \in Agents : carry[a] \in Targets \cup {Nothing}
  /\ \A a \in Agents : skill[a] = "wait" => record[a].done

LEMMA BothAre ==
  ASSUME NEW x, NEW y
  PROVE  /\ Both(x, y)[Agent0] = x /\ Both(x, y)[Agent1] = y
         /\ \A S : x \in S /\ y \in S => Both(x, y) \in [Agents -> S]
<1>1. Agent0 \in Agents /\ Agent1 \in Agents /\ Agent1 # Agent0
  BY DEF Agents
<1>2. QED
  BY <1>1 DEF Both

LEMMA RedrawnTyped ==
  ASSUME NEW p, grid \in [Cells -> Labels]
  PROVE  Redrawn(p) \in [Cells -> Labels]
<1>1. Box(Heavy) \in Labels
  BY DEF Box, Labels
<1>2. "empty" \in Labels
  BY DEF Labels
<1> HIDE DEF Box, Labels
<1>3. QED
  BY <1>1, <1>2 DEF Redrawn

\* How an agent's update takes it, and the map m it finds, to the belief b.
Updates(a, m, b, joint) ==
  LET p == Resolved(joint)
      d == Looks(joint)[a]
  IN  \E r : /\ Reckons(Belief(a, m), r, d, joint[a], p.pay[a])
             /\ Shows(r, b, d, Redrawn(p), p.at[a])

LEMMA UpdatedUpdates ==
  ASSUME Typed, NEW joint \in [Agents -> Actions], NEW a \in Agents, NEW m \in [Cells -> Seen]
  PROVE  LET p == Resolved(joint)
             b == Updated(a, m, Looks(joint), joint[a], p, Redrawn(p))
         IN  Updates(a, m, b, joint) /\ b \in Beliefs
<1> DEFINE p == Resolved(joint)
           d == Looks(joint)[a]
           b == Updated(a, m, Looks(joint), joint[a], p, Redrawn(p))
           r == Reckon(Belief(a, m), d, joint[a], p.pay[a])
<1>1. p \in Situations
  BY InvIsSound, StepKeeps DEF Typed, TransportInv, TypeOK, Keeps, Sound
<1>2. Looks(joint) \in [Agents -> Directions]
  BY LooksTyped DEF Typed, TransportInv, TypeOK
<1>3. Belief(a, m) \in Beliefs
  BY DEF Typed, CommanderTypeOK, BeliefTypeOK, Belief, Beliefs
<1>4. Redrawn(p) \in [Cells -> Labels]
  BY RedrawnTyped DEF Typed, CommanderTypeOK, BeliefTypeOK
<1>5. b = Sweep(r, d, Image(Redrawn(p), p.at[a], d))
  BY DEF Updated
<1> HIDE DEF p, r, b
<1>6. p.pay[a] \in Int /\ p.at[a] \in Int \X Int /\ d \in Directions /\ joint[a] \in Actions
  BY <1>1, <1>2 DEF Situations
<1> HIDE DEF d
<1>7. Reckons(Belief(a, m), r, d, joint[a], p.pay[a])
  BY <1>3, <1>6, ReckonReckons DEF r
<1>8. r \in Beliefs
  BY <1>7 DEF Reckons
<1>9. Shows(r, b, d, Redrawn(p), p.at[a])
  BY <1>4, <1>5, <1>6, <1>8, SweepShows
<1>10. b \in Beliefs
  BY <1>9 DEF Shows
<1>11. QED
  BY <1>7, <1>9, <1>10 DEF Updates, b, p, d

\* The beliefs of both agents after a step, and the map m the second one finds.
Learns(joint, m) ==
  \E b0 \in Beliefs, b1 \in Beliefs :
    /\ Updates(Agent0, map, b0, joint) /\ m = b0.map /\ Updates(Agent1, m, b1, joint)
    /\ believed' = Both(b0.at, b1.at) /\ carry' = Both(b0.carry, b1.carry)
    /\ engaged' = Both(b0.engaged, b1.engaged) /\ claimed' = Both(b0.claimed, b1.claimed)
    /\ map' = b1.map

LEMMA StepLearns ==
  ASSUME Typed, NEW joint \in [Agents -> Actions], BeliefStep(joint)
  PROVE  grid' = Redrawn(Resolved(joint)) /\ \E m \in [Cells -> Seen] : Learns(joint, m)
<1> DEFINE p == Resolved(joint)
           b0 == Updated(Agent0, map, Looks(joint), joint[Agent0], p, Redrawn(p))
           b1 == Updated(Agent1, b0.map, Looks(joint), joint[Agent1], p, Redrawn(p))
<1>1. map \in [Cells -> Seen] /\ Agent0 \in Agents /\ Agent1 \in Agents
  BY DEF Typed, CommanderTypeOK, BeliefTypeOK, Seen, Agents
<1>2. /\ grid' = Redrawn(p)
      /\ believed' = Both(b0.at, b1.at) /\ carry' = Both(b0.carry, b1.carry)
      /\ engaged' = Both(b0.engaged, b1.engaged) /\ claimed' = Both(b0.claimed, b1.claimed)
      /\ map' = b1.map
  BY DEF BeliefStep
<1>3. Updates(Agent0, map, b0, joint) /\ b0 \in Beliefs
  BY <1>1, UpdatedUpdates
<1> HIDE DEF b0
<1>4. b0.map \in [Cells -> Seen]
  BY <1>3 DEF Beliefs
<1>5. Updates(Agent1, b0.map, b1, joint) /\ b1 \in Beliefs
  BY <1>1, <1>4, UpdatedUpdates
<1> HIDE DEF b1, p
<1>6. Learns(joint, b0.map)
  BY <1>2, <1>3, <1>5 DEF Learns
<1>7. QED
  BY <1>2, <1>4, <1>6 DEF p

\* A round of the skills is one joint step in which each agent acts on its own belief.
Sensible(joint) ==
  \A a \in Agents :
    /\ joint[a] = "drop" => carry[a] # Nothing
    /\ joint[a] = "pick" => carry[a] = Nothing /\ engaged[a] = {}

LEMMA RoundIsStep ==
  ASSUME Typed, Round
  PROVE  /\ \E joint \in [Agents -> Actions] : BeliefStep(joint) /\ Sensible(joint)
         /\ record' \in [Agents -> Records] /\ UNCHANGED <<phase, skill>>
         /\ \A a \in Agents : skill'[a] = "wait" => record'[a].done
<1>1. PICK x \in Answers(Agent0), y \in Answers(Agent1) :
        BeliefStep(Both(x.action, y.action)) /\ record' = Both(x.record, y.record)
  BY DEF Round
<1>2. ASSUME NEW a \in Agents, NEW z \in Answers(a)
      PROVE  Sane(z, a) /\ (record[a].done => z.record = record[a])
  <2>1. believed[a] \in Cells /\ record[a] \in Records /\ skill[a] \in Skills
    BY DEF Typed, CommanderTypeOK, BeliefTypeOK
  <2>2. skill[a] = "wait" => record[a].done
    BY DEF Typed
  <2>3. QED
    BY <2>1, <2>2, AnswersAreSane
<1>3. /\ Sane(x, Agent0) /\ (record[Agent0].done => x.record = record[Agent0])
      /\ Sane(y, Agent1) /\ (record[Agent1].done => y.record = record[Agent1])
  BY <1>2 DEF Agents
<1> DEFINE joint == Both(x.action, y.action)
<1>4. joint \in [Agents -> Actions] /\ joint[Agent0] = x.action /\ joint[Agent1] = y.action
  BY <1>3, BothAre DEF Sane
<1>5. /\ record' \in [Agents -> Records]
      /\ record'[Agent0] = x.record /\ record'[Agent1] = y.record
  BY <1>1, <1>3, BothAre DEF Sane
<1> HIDE DEF joint
<1>6. Sensible(joint)
  BY <1>3, <1>4 DEF Sensible, Sane, Agents
<1>7. UNCHANGED <<phase, skill>>
  BY DEF Round
<1>8. ASSUME NEW a \in Agents, skill'[a] = "wait" PROVE record'[a].done
  <2>1. record[a].done
    BY <1>7, <1>8 DEF Typed
  <2>2. QED
    BY <1>3, <1>5, <2>1 DEF Agents
<1>9. QED
  BY <1>1, <1>4, <1>5, <1>6, <1>7, <1>8 DEF joint

LEMMA InitTyped == CommanderInit => Typed
<1> SUFFICES ASSUME CommanderInit PROVE Typed
  OBVIOUS
<1>1. TransportInv
  BY InitTransportInv DEF CommanderInit, BeliefInit
<1>2. TypeOK
  BY <1>1 DEF TransportInv
<1>3. Painted \in [Cells -> Labels]
  <2>1. \A o : Box(o) \in Labels
    BY DEF Box, Labels
  <2>2. "wall" \in Labels /\ "zone" \in Labels /\ "empty" \in Labels
    BY DEF Labels
  <2> HIDE DEF Labels
  <2>3. QED
    BY <2>1, <2>2 DEF Painted
<1>4. believed \in [Agents -> Cells]
  BY PlacementAssumption DEF CommanderInit, BeliefInit, Init
<1>5. map \in [Cells -> Labels \cup {"unknown"}]
  BY DEF CommanderInit, BeliefInit, Labels
<1>6. Opening("wait") \in Records /\ Opening("wait").done
  BY FinishIsSane DEF Opening, Sane, Outcomes
<1>7. CommanderTypeOK
  BY <1>2, <1>3, <1>4, <1>5, <1>6 DEF CommanderInit, BeliefInit, CommanderTypeOK, BeliefTypeOK, Skills
<1>8. QED
  BY <1>1, <1>6, <1>7 DEF Typed, CommanderInit, BeliefInit

\* The other actions.
LEMMA OpeningTyped ==
  ASSUME NEW name \in Skills
  PROVE  Opening(name) \in Records /\ (name = "wait" => Opening(name).done)
<1>1. Fresh \in Records
  BY DEF Fresh, Records, Outcomes
<1>2. Finish("done").record \in Records /\ Finish("done").record.done
  BY FinishIsSane DEF Sane, Outcomes
<1>3. QED
  BY <1>1, <1>2 DEF Opening

LEMMA OtherwiseStill ==
  ASSUME Typed, [CommanderNext]_vars, ~Round
  PROVE  UNCHANGED beliefVars /\ Typed'
<1>1. UNCHANGED beliefVars
  BY DEF CommanderNext, Plan, Return, Close, vars
<1>2. UNCHANGED worldVars /\ UNCHANGED <<grid, believed, carry, engaged, claimed, map>>
  BY <1>1 DEF beliefVars
<1>3. TransportInv'
  BY <1>2, TransportInvStep DEF Typed
<1>4. BeliefTypeOK'
  BY <1>2, <1>3 DEF Typed, CommanderTypeOK, BeliefTypeOK, TransportInv
<1>5. /\ phase' \in {"planning", "running"} /\ skill' \in [Agents -> Skills]
      /\ record' \in [Agents -> Records]
      /\ \A a \in Agents : skill'[a] = "wait" => record'[a].done
  <2>1. CASE Plan
    BY <2>1, OpeningTyped DEF Plan
  <2>2. CASE Return
    BY <2>2, OpeningTyped DEF Return, Skills
  <2>3. CASE UNCHANGED vars
    BY <2>3 DEF vars, Typed, CommanderTypeOK
  <2>4. QED
    BY <2>1, <2>2, <2>3 DEF CommanderNext, Close
<1>6. QED
  BY <1>1, <1>2, <1>3, <1>4, <1>5 DEF Typed, CommanderTypeOK

\* A round is a step of the world.
LEMMA RoundOfWorld ==
  ASSUME NEW joint \in [Agents -> Actions], BeliefStep(joint)
  PROVE  Step(joint) /\ [Next]_worldVars
  BY DEF BeliefStep, Next

LEMMA TypedStep == Typed /\ [CommanderNext]_vars => Typed'
<1> SUFFICES ASSUME Typed, Round PROVE Typed'
  BY OtherwiseStill
<1>1. /\ record' \in [Agents -> Records] /\ UNCHANGED <<phase, skill>>
      /\ \A a \in Agents : skill'[a] = "wait" => record'[a].done
  BY RoundIsStep
<1>2. PICK joint \in [Agents -> Actions] : BeliefStep(joint)
  BY RoundIsStep
<1>3. TransportInv'
  BY <1>2, RoundOfWorld, TransportInvStep DEF Typed
<1>4. grid' \in [Cells -> Labels]
  BY <1>2, StepLearns, RedrawnTyped DEF Typed, CommanderTypeOK, BeliefTypeOK
<1>5. PICK m \in [Cells -> Seen] : Learns(joint, m)
  BY <1>2, StepLearns
<1>6. /\ believed' \in [Agents -> Cells] /\ carry' \in [Agents -> Targets \cup {Nothing}]
      /\ engaged' \in [Agents -> SUBSET Targets] /\ claimed' \in [Agents -> SUBSET Targets]
      /\ map' \in [Cells -> Seen]
  <2>1. PICK b0 \in Beliefs, b1 \in Beliefs :
          /\ believed' = Both(b0.at, b1.at) /\ carry' = Both(b0.carry, b1.carry)
          /\ engaged' = Both(b0.engaged, b1.engaged) /\ claimed' = Both(b0.claimed, b1.claimed)
          /\ map' = b1.map
    BY <1>5 DEF Learns
  <2>2. \A b \in {b0, b1} :
          /\ b.at \in Cells /\ b.carry \in Targets \cup {Nothing}
          /\ b.engaged \in SUBSET Targets /\ b.claimed \in SUBSET Targets
          /\ b.map \in [Cells -> Seen]
    BY DEF Beliefs
  <2>3. /\ Both(b0.at, b1.at) \in [Agents -> Cells]
        /\ Both(b0.carry, b1.carry) \in [Agents -> Targets \cup {Nothing}]
        /\ Both(b0.engaged, b1.engaged) \in [Agents -> SUBSET Targets]
        /\ Both(b0.claimed, b1.claimed) \in [Agents -> SUBSET Targets]
    BY <2>2, BothAre
  <2>4. QED
    BY <2>1, <2>2, <2>3
<1>7. CommanderTypeOK'
  BY <1>1, <1>3, <1>4, <1>6 DEF Typed, CommanderTypeOK, BeliefTypeOK, TransportInv, Seen
<1>8. QED
  BY <1>1, <1>3, <1>6, <1>7 DEF Typed

-----------------------------------------------------------------------------
(* The invariant                                                           *)

\* Walls are drawn where walls are, and the zone nowhere else.
PictureTells ==
  /\ \A c \in Cells : grid[c] = "wall" <=> c \notin Floor
  /\ \A c \in Cells : grid[c] = "zone" => c \in Zone

\* The heavy package lies where reset() put it, alone and drawn, until both hold it.
HeavyRests ==
  /\ Heavy \in delivered => holders = Agents
  /\ pos[Heavy] \in Zone => Heavy \in delivered
  /\ holders # Agents =>
       /\ pos[Heavy] = PackageStart[Heavy] /\ grid[pos[Heavy]] = "target"
       /\ \A a \in Agents : at[a] # pos[Heavy]
       /\ \A o \in Light : pos[o] # pos[Heavy]

\* Who believes to carry something has full hands.
HandsAgree ==
  /\ \A a \in Agents : engaged[a] # {} => carry[a] = Nothing
  /\ ~terminated => \A a \in Agents : carry[a] # Nothing => carrying[a] # Nothing

\* What a map m tells of a picture.
MapFits(m, pic) ==
  /\ \A c \in Cells \ Floor : m[c] \in {"unknown", "wall"}
  /\ \A c \in Floor : m[c] # "wall" /\ (IsBox(pic[c]) => m[c] \in {"unknown", pic[c]})
  /\ \A c \in Cells : m[c] = "zone" => c \in Zone

\* Until both hold the heavy package the map fits, and knows the box in front of an agent.
MapAgrees ==
  holders # Agents =>
    /\ believed = at /\ MapFits(map, grid)
    /\ \A a \in Agents : LET front == Ahead(at[a], facing[a])
                         IN  front \in Cells /\ IsBox(grid[front]) => map[front] = grid[front]

\* Until a decoy is picked up, the agent that is updated first knows of its latch.
FirstKnows == NoDecoyTaken /\ Agent0 \in holders => engaged[Agent0] # {}

CommanderInv ==
  /\ Typed /\ PictureTells /\ HeavyRests /\ HandsAgree /\ MapAgrees /\ BeliefIsReal /\ FirstKnows

-----------------------------------------------------------------------------
(* What a round does to the world                                          *)

LEMMA HeavyIsTarget ==
  ASSUME PriorAssumption
  PROVE  Heavy \in Targets /\ Heavy \in Packages /\ Packages \ Targets \subseteq Light
  BY CastAssumption DEF PriorAssumption, Packages

\* The situation after the step, by name.
Arrives(q) ==
  /\ at' = q.at /\ carrying' = q.carrying /\ carriedBy' = q.carriedBy /\ pos' = q.pos
  /\ holders' = q.holders /\ delivered' = q.delivered /\ terminated' = AllDelivered(q)

Facts(joint) ==
  LET q == Resolved(joint)
  IN  /\ Arrives(q) /\ q \in Situations /\ facing' = Looks(joint)
      /\ facing' \in [Agents -> Directions]
      /\ holders \subseteq holders' /\ delivered \subseteq delivered'
      /\ \A o \in Light : pos'[o] = pos[o] \/ \E a \in Agents : pos'[o] = at'[a]
      /\ \A a \in Agents : Hands(Situation, q, joint[a], Ahead(at[a], facing'[a]), a)
      /\ holders # Agents => \A a \in Agents :
           \/ at'[a] = at[a]
           \/ /\ joint[a] = "move_forward" /\ at'[a] # pos[Heavy]
              /\ at'[a] = Ahead(at[a], facing'[a])
      /\ ~terminated' => \A a \in Agents : Tells(Situation, q, joint, a)
      /\ holders # Agents =>
           ~terminated' /\ Heavy \notin delivered' /\ pos'[Heavy] = pos[Heavy]
      /\ Heavy \in delivered' => holders' = Agents
      /\ pos'[Heavy] \in Zone => Heavy \in delivered'

LEMMA RoundFacts ==
  ASSUME PriorAssumption, Typed, HeavyRests, HandsAgree, ~Over,
         NEW joint \in [Agents -> Actions], Step(joint), Sensible(joint)
  PROVE  Facts(joint)
<1> DEFINE p == Situation
           q == Resolved(joint)
<1>1. /\ Sound(p) /\ p.at = at /\ p.pos = pos /\ p.holders = holders /\ p.delivered = delivered
      /\ p.carrying = carrying
  BY InvIsSound DEF Typed, Situation
<1>2. Arrives(q) /\ facing' = Looks(joint)
  BY DEF Step, Arrives
<1>3. /\ facing \in [Agents -> Directions] /\ at \in [Agents -> Floor] /\ holders \subseteq Agents
      /\ TransportInv
  BY DEF Typed, TransportInv, TypeOK
<1>4. facing' \in [Agents -> Directions]
  BY <1>2, <1>3, LooksTyped
<1>5. Keeps(p, q) /\ Rigid(p, q)
  BY <1>1, <1>3, StepKeeps
<1>6. \A a \in Agents : joint[a] = "drop" => carrying[a] # Nothing
  BY DEF Sensible, HandsAgree, Over
<1>7. /\ holders \subseteq q.holders
      /\ \A o \in Light : q.pos[o] = pos[o] \/ \E a \in Agents : q.pos[o] = q.at[a]
      /\ \A a \in Agents : Hands(p, q, joint[a], Ahead(at[a], Looks(joint)[a]), a)
      /\ holders # Agents /\ Heavy \notin delivered => \A a \in Agents :
           \/ q.at[a] = at[a]
           \/ /\ joint[a] = "move_forward" /\ q.at[a] # pos[Heavy]
              /\ q.at[a] = Ahead(at[a], Looks(joint)[a])
  BY <1>3, <1>6, StepHands
<1>8. HeavyDelivered(p)
  BY <1>1 DEF HeavyDelivered, HeavyRests
<1>9. /\ HeavyDelivered(q)
      /\ ~AllDelivered(q) => \A a \in Agents : Tells(p, q, joint, a)
  BY <1>1, <1>3, <1>8, StepPays
<1> HIDE DEF p, q
<1>10. q \in Situations /\ delivered \subseteq q.delivered
       /\ \A o \in q.delivered : q.pos[o] \in Zone
  BY <1>1, <1>5 DEF Keeps, Sound, Rests
<1>11. pos'[Heavy] \in Zone => Heavy \in delivered'
  BY <1>2, <1>9, HeavyIsTarget DEF HeavyDelivered, Arrives
<1>12. pos'[Heavy] # pos[Heavy] => holders = Agents /\ holders' = Agents
  BY <1>1, <1>2, <1>5 DEF Rigid, Arrives
<1>13. Heavy \in delivered' => Heavy \in delivered \/ holders = Agents
  <2>1. SUFFICES ASSUME Heavy \in delivered', holders # Agents PROVE Heavy \in delivered
    OBVIOUS
  <2>2. pos'[Heavy] = pos[Heavy] /\ pos'[Heavy] \in Zone
    BY <1>2, <1>10, <1>12, <2>1 DEF Arrives
  <2>3. QED
    BY <2>2 DEF HeavyRests
<1>14. holders # Agents => Heavy \notin delivered' /\ Heavy \notin delivered
  BY <1>13 DEF HeavyRests
<1>15. holders # Agents => ~terminated'
  BY <1>2, <1>14, HeavyIsTarget DEF Arrives, AllDelivered
<1>16. Heavy \in delivered' => holders' = Agents
  <2>1. q.holders \subseteq Agents
    BY <1>10 DEF Situations
  <2>2. QED
    BY <1>2, <1>7, <1>14, <2>1 DEF Arrives
<1>17. QED
  BY <1>2, <1>4, <1>7, <1>9, <1>10, <1>11, <1>12, <1>14, <1>15, <1>16 DEF Facts, Arrives, p, q

\* A step only wipes out, as long as no hold breaks.
LEMMA RedrawnIs ==
  ASSUME NEW p, holders \subseteq p.holders, p.holders \subseteq Agents
  PROVE  LET pic == Redrawn(p)
         IN  /\ \A c \in Cells : pic[c] \in {grid[c], "empty"}
             /\ \A a \in Agents : p.at[a] \in Cells => pic[p.at[a]] = "empty"
             /\ \A o \in Light : carriedBy[o] = Nobody /\ p.carriedBy[o] # Nobody
                                 /\ pos[o] \in Cells => pic[pos[o]] = "empty"
             /\ \A c \in Cells : pic[c] # grid[c] =>
                  \/ \E a \in Agents : c = p.at[a]
                  \/ \E o \in Light : c = pos[o]
                  \/ c = pos[Heavy] /\ p.holders = Agents
<1> DEFINE taken  == {o \in Light : carriedBy[o] = Nobody /\ p.carriedBy[o] # Nobody}
           joined == holders # Agents /\ p.holders = Agents
           broken == holders = Agents /\ p.holders # Agents
           wiped  == {p.at[a] : a \in Agents} \cup {pos[o] : o \in taken}
                     \cup (IF joined THEN {pos[Heavy]} ELSE {})
<1>1. ~broken
  OBVIOUS
<1>2. \A c \in Cells : Redrawn(p)[c] = IF c \in wiped THEN "empty" ELSE grid[c]
  BY <1>1 DEF Redrawn
<1>3. QED
  BY <1>2

\* The picture after a round.
Redraws(joint) ==
  /\ grid' = Redrawn(Resolved(joint))
  /\ \A c \in Cells : grid'[c] \in {grid[c], "empty"}
  /\ \A a \in Agents : at'[a] \in Floor /\ at'[a] \in Cells /\ grid'[at'[a]] = "empty"
  /\ \A o \in Packages : pos[o] \in Floor /\ pos[o] \in Cells
  /\ \A o \in Light : carriedBy[o] = Nobody /\ carriedBy'[o] # Nobody => grid'[pos[o]] = "empty"
  /\ \A c \in Cells : grid'[c] # grid[c] =>
       \/ \E a \in Agents : c = at'[a]
       \/ \E o \in Light : c = pos[o]
       \/ c = pos[Heavy] /\ holders' = Agents

LEMMA RoundRedraws ==
  ASSUME Typed, NEW joint \in [Agents -> Actions], Facts(joint), BeliefStep(joint)
  PROVE  Redraws(joint)
<1> DEFINE q == Resolved(joint)
<1>1. grid' = Redrawn(q)
  BY StepLearns
<1>2. Arrives(q) /\ holders \subseteq holders' /\ q \in Situations
  BY DEF Facts
<1> HIDE DEF q
<1>3. holders \subseteq q.holders /\ q.holders \subseteq Agents /\ q.at \in [Agents -> Floor]
  BY <1>2 DEF Arrives, Situations
<1>4. \A o \in Packages : pos[o] \in Floor /\ pos[o] \in Cells
  BY DEF Typed, TransportInv, TypeOK
<1>5. \A a \in Agents : q.at[a] \in Floor /\ q.at[a] \in Cells
  BY <1>3
<1>6. \A o \in Light : o \in Packages
  BY DEF Packages
<1>7. QED
  BY <1>1, <1>2, <1>3, <1>4, <1>5, <1>6, RedrawnIs DEF Redraws, Arrives, q

LEMMA PictureStep ==
  ASSUME PictureTells, NEW joint, Redraws(joint)
  PROVE  PictureTells'
<1>1. ASSUME NEW c \in Cells PROVE grid'[c] = "wall" <=> c \notin Floor
  <2>1. grid'[c] = "wall" => grid[c] = "wall"
    BY DEF Redraws
  <2>2. ASSUME c \notin Floor PROVE grid'[c] = grid[c]
    BY <2>2, CastAssumption DEF Redraws, Packages
  <2>3. QED
    BY <2>1, <2>2 DEF PictureTells
<1>2. ASSUME NEW c \in Cells, grid'[c] = "zone" PROVE c \in Zone
  BY <1>2 DEF Redraws, PictureTells
<1>3. QED
  BY <1>1, <1>2 DEF PictureTells

LEMMA HeavyStep ==
  ASSUME HeavyRests, Typed, NEW joint, Facts(joint), Redraws(joint)
  PROVE  HeavyRests'
<1>1. (Heavy \in delivered' => holders' = Agents) /\ (pos'[Heavy] \in Zone => Heavy \in delivered')
  BY DEF Facts
<1>2. ASSUME holders' # Agents
      PROVE  /\ pos'[Heavy] = PackageStart[Heavy] /\ grid'[pos'[Heavy]] = "target"
             /\ \A a \in Agents : at'[a] # pos'[Heavy]
             /\ \A o \in Light : pos'[o] # pos'[Heavy]
  <2>1. holders # Agents
    BY <1>2 DEF Facts, Arrives, Situations
  <2>2. pos'[Heavy] = pos[Heavy]
    BY <2>1 DEF Facts
  <2>3. /\ pos[Heavy] = PackageStart[Heavy] /\ grid[pos[Heavy]] = "target"
        /\ \A a \in Agents : at[a] # pos[Heavy]
        /\ \A o \in Light : pos[o] # pos[Heavy]
    BY <2>1 DEF HeavyRests
  <2>4. \A a \in Agents : at'[a] # pos[Heavy]
    BY <2>1, <2>3 DEF Facts
  <2>5. \A o \in Light : pos'[o] = pos[o] \/ \E a \in Agents : pos'[o] = at'[a]
    BY DEF Facts
  <2>6. grid'[pos[Heavy]] = grid[pos[Heavy]]
    BY <1>2, <2>3, <2>4, CastAssumption DEF Redraws, Packages
  <2>7. QED
    BY <2>2, <2>3, <2>4, <2>5, <2>6
<1>3. QED
  BY <1>1, <1>2 DEF HeavyRests

-----------------------------------------------------------------------------
(* What a round does to the beliefs                                        *)

\* What agent a concludes from its reward, with the map m.
Concludes(joint, a, m) ==
  LET b == Belief(a, m)
      r == Resolved(joint).pay[a]
      front == Ahead(believed[a], facing'[a])
      grasps == joint[a] = "pick" /\ r > 0 /\ front \in Cells /\ IsBox(m[front])
  IN  /\ believed'[a] = IF joint[a] = "move_forward" /\ ReadsMoved(r) THEN Clamped(front)
                        ELSE believed[a]
      /\ ~grasps /\ joint[a] # "drop" =>
           carry'[a] = carry[a] /\ engaged'[a] = engaged[a] /\ claimed'[a] = claimed[a]
      /\ grasps =>
           /\ claimed'[a] = claimed[a]
           /\ ReadsCarried(r) =>
                /\ carry'[a] = IF Resolve(b, 1) = Nothing THEN carry[a] ELSE Resolve(b, 1)
                /\ engaged'[a] = engaged[a]
           /\ ~ReadsCarried(r) =>
                /\ carry'[a] = carry[a]
                /\ engaged'[a] = engaged[a] \cup ({Resolve(b, 2)} \ {Nothing})
      /\ joint[a] = "drop" =>
           /\ carry'[a] = Nothing /\ engaged'[a] = {}
           /\ \/ claimed'[a] = claimed[a]
              \/ /\ carry[a] # Nothing /\ m[believed[a]] = "zone"
                 /\ claimed'[a] = claimed[a] \cup {carry[a]}

LEMMA UpdateConcludes ==
  ASSUME NEW joint, NEW a \in Agents, NEW m, NEW b, Updates(a, m, b, joint),
         facing' = Looks(joint), believed'[a] = b.at, carry'[a] = b.carry,
         engaged'[a] = b.engaged, claimed'[a] = b.claimed
  PROVE  Concludes(joint, a, m)
<1> DEFINE p == Resolved(joint)
           d == Looks(joint)[a]
           old == Belief(a, m)
<1>1. PICK r : /\ Reckons(old, r, d, joint[a], p.pay[a])
               /\ Shows(r, b, d, Redrawn(p), p.at[a])
  BY DEF Updates
<1>2. b.at = r.at /\ b.carry = r.carry /\ b.engaged = r.engaged /\ b.claimed = r.claimed
  BY <1>1 DEF Shows
<1>3. /\ old.at = believed[a] /\ old.carry = carry[a] /\ old.engaged = engaged[a]
      /\ old.claimed = claimed[a] /\ old.map = m
  BY DEF Belief
<1>4. d = facing'[a]
  OBVIOUS
<1> HIDE DEF p, d, old
<1>5. /\ r.at = IF joint[a] = "move_forward" /\ ReadsMoved(p.pay[a])
                THEN Clamped(Ahead(old.at, d)) ELSE old.at
      /\ Thinks(old, r, d, joint[a], p.pay[a])
  BY <1>1 DEF Reckons
<1>6. QED
  BY <1>2, <1>3, <1>4, <1>5 DEF Concludes, Thinks, Grasps, p, old

\* Of both agents: the second one finds the map m that the first one leaves.
LEMMA RoundConcludes ==
  ASSUME Typed, NEW joint \in [Agents -> Actions], Facts(joint), NEW m, Learns(joint, m)
  PROVE  Concludes(joint, Agent0, map) /\ Concludes(joint, Agent1, m)
<1>1. PICK b0 \in Beliefs, b1 \in Beliefs :
        /\ Updates(Agent0, map, b0, joint) /\ Updates(Agent1, m, b1, joint)
        /\ believed' = Both(b0.at, b1.at) /\ carry' = Both(b0.carry, b1.carry)
        /\ engaged' = Both(b0.engaged, b1.engaged) /\ claimed' = Both(b0.claimed, b1.claimed)
  BY DEF Learns
<1>2. /\ believed'[Agent0] = b0.at /\ carry'[Agent0] = b0.carry
      /\ engaged'[Agent0] = b0.engaged /\ claimed'[Agent0] = b0.claimed
      /\ believed'[Agent1] = b1.at /\ carry'[Agent1] = b1.carry
      /\ engaged'[Agent1] = b1.engaged /\ claimed'[Agent1] = b1.claimed
  BY <1>1, BothAre
<1>3. facing' = Looks(joint) /\ Agent0 \in Agents /\ Agent1 \in Agents
  BY DEF Facts, Agents
<1>4. QED
  BY <1>1, <1>2, <1>3, UpdateConcludes

LEMMA HandsStep ==
  ASSUME HandsAgree, Typed, NEW joint \in [Agents -> Actions], Sensible(joint), Facts(joint), ~Over,
         NEW a \in Agents, NEW m, Concludes(joint, a, m)
  PROVE  /\ engaged'[a] # {} => carry'[a] = Nothing
         /\ ~terminated' /\ carry'[a] # Nothing => carrying'[a] # Nothing
<1> DEFINE q == Resolved(joint)
           r == q.pay[a]
           front == Ahead(believed[a], facing'[a])
           grasps == joint[a] = "pick" /\ r > 0 /\ front \in Cells /\ IsBox(m[front])
<1>1. /\ joint[a] = "pick" => carry[a] = Nothing /\ engaged[a] = {}
      /\ engaged[a] # {} => carry[a] = Nothing
      /\ carry[a] # Nothing => carrying[a] # Nothing
  BY DEF Sensible, HandsAgree, Over
<1>2. /\ ~grasps /\ joint[a] # "drop" => carry'[a] = carry[a] /\ engaged'[a] = engaged[a]
      /\ grasps /\ ReadsCarried(r) => engaged'[a] = engaged[a]
      /\ grasps /\ ~ReadsCarried(r) => carry'[a] = carry[a]
      /\ joint[a] = "drop" => carry'[a] = Nothing /\ engaged'[a] = {}
  BY DEF Concludes
<1>3. /\ Hands(Situation, q, joint[a], Ahead(at[a], facing'[a]), a)
      /\ ~terminated' => Tells(Situation, q, joint, a)
      /\ carrying' = q.carrying /\ Situation.carrying = carrying
  BY DEF Facts, Arrives, Situation
<1> HIDE DEF q
<1>4. /\ carrying'[a] # carrying[a] => joint[a] = "drop" \/ (carrying[a] = Nothing /\ carrying'[a] \in Light)
      /\ ~terminated' /\ joint[a] = "pick" /\ ReadsCarried(r) => carrying'[a] # carrying[a]
  BY <1>3 DEF Hands, Tells
<1> HIDE DEF r, front
<1>5. engaged'[a] # {} => carry'[a] = Nothing
  BY <1>1, <1>2
<1>6. ASSUME ~terminated', carry'[a] # Nothing PROVE carrying'[a] # Nothing
  BY <1>1, <1>2, <1>4, <1>6, CastAssumption DEF Packages
<1>7. QED
  BY <1>5, <1>6

-----------------------------------------------------------------------------
(* The map                                                                 *)

LEMMA OldFits ==
  ASSUME NEW m, MapFits(m, grid), NEW joint, Redraws(joint)
  PROVE  MapFits(m, grid')
<1>1. \A c \in Floor : IsBox(grid'[c]) => grid'[c] = grid[c]
  BY DEF Redraws, IsBox
<1>2. QED
  BY <1>1 DEF MapFits

\* A walk is believed when and as far as it happened.
LEMMA WalkKnown ==
  ASSUME Typed, NEW joint \in [Agents -> Actions], Facts(joint), holders # Agents, NEW a \in Agents
  PROVE  at'[a] = IF joint[a] = "move_forward" /\ ReadsMoved(Resolved(joint).pay[a])
                  THEN Clamped(Ahead(at[a], facing'[a])) ELSE at[a]
<1> DEFINE q == Resolved(joint)
<1>1. /\ Tells(Situation, q, joint, a) /\ q.at = at' /\ at'[a] \in Floor
      /\ Situation.at = at /\ Situation.holders = holders
  BY DEF Facts, Arrives, Situations, Situation
<1>2. joint[a] = "move_forward" => (ReadsMoved(q.pay[a]) <=> at'[a] # at[a])
  BY <1>1 DEF Tells
<1>3. \/ at'[a] = at[a]
      \/ joint[a] = "move_forward" /\ at'[a] = Ahead(at[a], facing'[a])
  BY DEF Facts
<1>4. Clamped(at'[a]) = at'[a]
  BY <1>1, ClampedCells, CellsAreInts
<1>5. QED
  BY <1>2, <1>3, <1>4

\* One agent's update keeps the map fitting.
Drawn(joint, a, m, b) ==
  /\ b.at = at'[a] /\ MapFits(b.map, grid') /\ b.map \in [Cells -> Seen]
  /\ \A c \in Cells : m[c] # "unknown" => b.map[c] # "unknown"
  /\ LET front == Ahead(at'[a], facing'[a])
     IN  front \in Cells => b.map[front] = grid'[front]

LEMMA UpdateDraws ==
  ASSUME Typed, NEW joint \in [Agents -> Actions], Facts(joint), Redraws(joint),
         TransportInv', PictureTells', HeavyRests', holders' # Agents, believed = at,
         NEW a \in Agents, NEW m \in [Cells -> Seen], MapFits(m, grid'), NEW b,
         Updates(a, m, b, joint)
  PROVE  Drawn(joint, a, m, b)
<1> DEFINE q == Resolved(joint)
           d == Looks(joint)[a]
           r0 == q.pay[a]
           old == Belief(a, m)
           front == Ahead(at[a], facing'[a])
<1>1. PICK r : Reckons(old, r, d, joint[a], r0) /\ Shows(r, b, d, Redrawn(q), q.at[a])
  BY DEF Updates
<1>2. old.at = at[a] /\ old.map = m /\ old.carry = carry[a]
  BY DEF Belief
<1>3. d = facing'[a] /\ q.at = at' /\ q.carrying = carrying' /\ q.carriedBy = carriedBy'
      /\ q.holders = holders' /\ Redrawn(q) = grid'
  BY DEF Facts, Arrives, Redraws
<1>4. holders # Agents
  BY DEF Facts, Arrives, Situations
<1>5. r.at = at'[a]
  BY <1>1, <1>2, <1>3, <1>4, WalkKnown DEF Reckons
<1>6. b.at = at'[a] /\ b \in Beliefs /\ r \in Beliefs
  BY <1>1, <1>5 DEF Shows, Reckons
<1>7. ASSUME NEW c \in Cells
      PROVE  \/ r.map[c] = m[c]
             \/ /\ c \in Floor /\ r.map[c] \in {"empty", "target"}
                /\ IsBox(grid'[c]) => r.map[c] = grid'[c]
  <2>1. Writes(old, r, d, joint[a], r0, c)
    BY <1>1 DEF Reckons
  <2>2. ASSUME joint[a] = "move_forward", c = r.at, r.map[c] = "empty"
        PROVE  c \in Floor /\ ~IsBox(grid'[c])
    BY <1>5, <2>2 DEF Redraws, IsBox
  <2>3. ASSUME joint[a] = "drop", c = at[a], r.map[c] = "target"
        PROVE  c \in Floor /\ ~IsBox(grid'[c])
    <3>1. at'[a] = at[a]
      BY <1>4, <2>3 DEF Facts
    <3>2. QED
      BY <2>3, <3>1 DEF Redraws, IsBox
  <2>4. ASSUME Grasps(old, d, joint[a], r0), c = front,
               r.map[c] = IF ReadsCarried(r0) THEN "empty" ELSE "target"
        PROVE  c \in Floor /\ (IsBox(grid'[c]) => r.map[c] = grid'[c])
    <3>1. joint[a] = "pick" /\ r0 > 0 /\ IsBox(m[c])
      BY <1>2, <1>3, <2>4 DEF Grasps
    <3>2. c \in Floor
      BY <3>1 DEF MapFits, IsBox
    <3>3. /\ Tells(Situation, q, joint, a)
          /\ Hands(Situation, q, joint[a], front, a)
          /\ Situation.carrying = carrying /\ Situation.holders = holders /\ Situation.pos = pos
          /\ Situation.carriedBy = carriedBy
      BY <1>4 DEF Facts, Situation
    <3>a. r0 \in Int
      BY DEF Facts, Situations
    <3> HIDE DEF q, front, old, d, r0
    <3>4. CASE ReadsCarried(r0)
      <4>1. carrying'[a] # carrying[a]
        BY <1>3, <3>1, <3>3, <3>4 DEF Tells, r0, q
      <4>2. /\ carrying'[a] \in Light
            /\ \/ carriedBy[carrying'[a]] = Nobody /\ pos[carrying'[a]] = front
               \/ front = at'[Agent0]
        BY <1>3, <3>1, <3>3, <4>1 DEF Hands
      <4>3. carriedBy'[carrying'[a]] # Nobody
        BY <4>2, CastAssumption DEF TransportInv, RecordsAgree, CarryingAgrees, Packages
      <4>4. grid'[c] = "empty"
        BY <2>4, <4>2, <4>3 DEF Redraws, Agents
      <4>5. QED
        BY <3>2, <4>4 DEF IsBox
    <3>5. CASE ~ReadsCarried(r0)
      <4>1. ReadsLatched(r0)
        BY <3>1, <3>5, <3>a DEF ReadsLatched, ReadsCarried
      <4>2. a \in holders' \ holders
        BY <1>3, <3>1, <3>3, <4>1 DEF Tells, r0, q
      <4>3. pos[Heavy] = front
        BY <1>3, <3>3, <4>2 DEF Hands
      <4>4. pos'[Heavy] = pos[Heavy]
        BY <1>4 DEF Facts
      <4>5. grid'[c] = "target"
        BY <2>4, <4>3, <4>4 DEF HeavyRests
      <4>6. QED
        BY <2>4, <3>2, <3>5, <4>5
    <3>6. QED
      BY <3>4, <3>5
  <2>5. QED
    BY <1>2, <1>3, <2>1, <2>2, <2>3, <2>4 DEF Writes
<1> HIDE DEF old, q, d, r0, front
<1>8. /\ \A c \in Cells : b.map[c] = r.map[c] \/ b.map[c] = grid'[c]
      /\ Ahead(at'[a], facing'[a]) \in Cells =>
           b.map[Ahead(at'[a], facing'[a])] = grid'[Ahead(at'[a], facing'[a])]
  BY <1>1, <1>3, <1>5 DEF Shows
<1>9. \A c \in Cells : grid'[c] \in Labels /\ (grid'[c] = "wall" <=> c \notin Floor)
                       /\ (grid'[c] = "zone" => c \in Zone)
  <2>1. grid \in [Cells -> Labels]
    BY DEF Typed, CommanderTypeOK, BeliefTypeOK
  <2>2. \A c \in Cells : grid'[c] \in Labels
    BY <2>1 DEF Redraws, Labels
  <2>3. QED
    BY <2>2 DEF PictureTells
<1>10. Floor \subseteq Cells
  OBVIOUS
<1>11. MapFits(b.map, grid')
  <2>1. ASSUME NEW c \in Cells \ Floor PROVE b.map[c] \in {"unknown", "wall"}
    BY <1>7, <1>8, <1>9 DEF MapFits
  <2>2. ASSUME NEW c \in Floor
        PROVE  b.map[c] # "wall" /\ (IsBox(grid'[c]) => b.map[c] \in {"unknown", grid'[c]})
    <3>1. c \in Cells
      BY <1>10
    <3>2. m[c] # "wall" /\ (IsBox(grid'[c]) => m[c] \in {"unknown", grid'[c]})
      BY DEF MapFits
    <3>3. r.map[c] # "wall" /\ (IsBox(grid'[c]) => r.map[c] \in {"unknown", grid'[c]})
      BY <1>7, <3>1, <3>2
    <3>4. QED
      BY <1>8, <1>9, <3>1, <3>3
  <2>3. ASSUME NEW c \in Cells, b.map[c] = "zone" PROVE c \in Zone
    <3>1. m[c] = "zone" => c \in Zone
      BY DEF MapFits
    <3>2. r.map[c] = "zone" => c \in Zone
      BY <1>7, <3>1
    <3>3. QED
      BY <1>8, <1>9, <2>3, <3>2
  <2>4. QED
    BY <2>1, <2>2, <2>3 DEF MapFits
<1>12. ASSUME NEW c \in Cells, m[c] # "unknown" PROVE b.map[c] # "unknown"
  BY <1>7, <1>8, <1>9, <1>12 DEF Labels
<1>13. QED
  BY <1>6, <1>8, <1>11, <1>12 DEF Drawn, Beliefs

LEMMA MapStep ==
  ASSUME MapAgrees, Typed, NEW joint \in [Agents -> Actions], Facts(joint), Redraws(joint),
         TransportInv', PictureTells', HeavyRests',
         NEW m \in [Cells -> Seen], Learns(joint, m)
  PROVE  MapAgrees' /\ (holders' # Agents => \A c \in Cells : m[c] = "zone" => c \in Zone)
<1> SUFFICES ASSUME holders' # Agents
             PROVE  MapAgrees' /\ \A c \in Cells : m[c] = "zone" => c \in Zone
  BY DEF MapAgrees
<1>1. PICK b0 \in Beliefs, b1 \in Beliefs :
        /\ Updates(Agent0, map, b0, joint) /\ m = b0.map /\ Updates(Agent1, m, b1, joint)
        /\ believed' = Both(b0.at, b1.at) /\ map' = b1.map
  BY DEF Learns
<1>2. holders # Agents
  BY DEF Facts, Arrives, Situations
<1>3. believed = at /\ MapFits(map, grid') /\ map \in [Cells -> Seen]
  BY <1>2, OldFits DEF MapAgrees, Typed, CommanderTypeOK, BeliefTypeOK, Seen
<1>4. Drawn(joint, Agent0, map, b0)
  BY <1>1, <1>3, UpdateDraws DEF Agents
<1>5. MapFits(m, grid')
  BY <1>1, <1>4 DEF Drawn
<1>6. Drawn(joint, Agent1, m, b1)
  BY <1>1, <1>3, <1>5, UpdateDraws DEF Agents
<1>7. MapFits(map', grid')
  BY <1>1, <1>6 DEF Drawn
<1>8. believed' = at'
  <2>1. \A a \in Agents : believed'[a] = at'[a]
    BY <1>1, <1>4, <1>6, BothAre DEF Drawn, Agents
  <2>2. believed' = [a \in Agents |-> believed'[a]]
    BY <1>1 DEF Both
  <2>3. at' = [a \in Agents |-> at'[a]]
    BY DEF TransportInv, TypeOK
  <2>4. QED
    BY <2>1, <2>2, <2>3
<1>9. ASSUME NEW a \in Agents, Ahead(at'[a], facing'[a]) \in Cells,
             IsBox(grid'[Ahead(at'[a], facing'[a])])
      PROVE  map'[Ahead(at'[a], facing'[a])] = grid'[Ahead(at'[a], facing'[a])]
  <2> DEFINE front == Ahead(at'[a], facing'[a])
  <2>1. a = Agent1 => map'[front] = grid'[front]
    BY <1>1, <1>6, <1>9 DEF Drawn
  <2>2. ASSUME a = Agent0 PROVE map'[front] = grid'[front]
    <3>1. m[front] = grid'[front]
      BY <1>1, <1>4, <1>9, <2>2 DEF Drawn
    <3>2. m[front] # "unknown"
      BY <1>9, <3>1 DEF IsBox
    <3>3. map'[front] # "unknown"
      BY <1>1, <1>6, <1>9, <3>2 DEF Drawn
    <3>4. front \in Floor
      <4>1. grid'[front] # "wall"
        BY <1>9 DEF IsBox
      <4>2. QED
        BY <1>9, <4>1 DEF PictureTells
    <3>5. QED
      BY <1>7, <1>9, <3>3, <3>4 DEF MapFits
  <2>3. QED
    BY <2>1, <2>2 DEF Agents
<1>10. \A c \in Cells : m[c] = "zone" => c \in Zone
  BY <1>5 DEF MapFits
<1>11. MapAgrees'
  BY <1>7, <1>8, <1>9 DEF MapAgrees
<1>12. QED
  BY <1>10, <1>11

-----------------------------------------------------------------------------
(* What is believed of the hands                                           *)

\* A decoy that is not taken now never was, and nobody carries one.
LEMMA NoDecoy ==
  ASSUME PriorAssumption, TransportInv', NEW joint, Facts(joint), Redraws(joint), NoDecoyTaken'
  PROVE  NoDecoyTaken /\ \A a \in Agents : carrying'[a] \in Targets \cup {Nothing}
<1>1. ASSUME NEW o \in Packages \ Targets
      PROVE  grid[pos[o]] = "decoy" /\ \A a \in Agents : carrying'[a] # o
  <2>1. grid'[pos'[o]] = "decoy" /\ o \in Light
    BY HeavyIsTarget DEF NoDecoyTaken
  <2>2. \A a \in Agents : pos'[o] # at'[a]
    BY <2>1 DEF Redraws
  <2>3. pos'[o] = pos[o] /\ pos[o] \in Cells
    BY <2>1, <2>2 DEF Facts, Redraws
  <2>4. grid[pos[o]] = "decoy"
    BY <2>1, <2>3 DEF Redraws
  <2>5. \A a \in Agents : carrying'[a] # o
    <3> SUFFICES ASSUME NEW a \in Agents, carrying'[a] = o PROVE FALSE
      OBVIOUS
    <3>1. carriedBy'[o] = a /\ o \in Packages
      BY DEF TransportInv, RecordsAgree, CarryingAgrees
    <3>2. pos'[o] = at'[a]
      BY <3>1, CastAssumption DEF TransportInv, RecordsAgree, CarryingAgrees
    <3>3. QED
      BY <2>2, <3>2
  <2>6. QED
    BY <2>4, <2>5
<1>2. \A a \in Agents : carrying'[a] \in Packages \cup {Nothing}
  BY DEF TransportInv, TypeOK
<1>3. QED
  BY <1>1, <1>2 DEF NoDecoyTaken

Real(a) ==
  /\ carry[a] # Nothing => carrying[a] = carry[a]
  /\ engaged[a] # {} => a \in holders /\ engaged[a] = {Heavy}
  /\ claimed[a] \subseteq delivered

\* What a pick that is believed is taken for: while the last target is missing, and until a
\* decoy is taken.
LEMMA GraspIsReal ==
  ASSUME PriorAssumption, Typed, NEW joint \in [Agents -> Actions], Sensible(joint), Facts(joint),
         ~terminated', NEW a \in Agents, claimed[a] \subseteq delivered,
         carrying'[a] \in Targets \cup {Nothing},
         Heavy \notin delivered, NEW m \in [Cells -> Seen], Concludes(joint, a, m),
         joint[a] = "pick", Resolved(joint).pay[a] > 0, Ahead(believed[a], facing'[a]) \in Cells,
         IsBox(m[Ahead(believed[a], facing'[a])])
  PROVE  /\ claimed'[a] = claimed[a]
         /\ carrying'[a] # carrying[a] =>
              carrying[a] = Nothing /\ carry'[a] = carrying'[a] /\ engaged'[a] = {}
         /\ carrying'[a] = carrying[a] =>
              carry'[a] = Nothing /\ a \in holders' \ holders /\ engaged'[a] = {Heavy}
<1> DEFINE q == Resolved(joint)
           r == q.pay[a]
           b == Belief(a, m)
<1>1. carry[a] = Nothing /\ engaged[a] = {}
  BY DEF Sensible
<1>2. b \in Beliefs /\ b.carry = Nothing /\ b.engaged = {} /\ b.claimed = claimed[a]
  BY <1>1 DEF Typed, CommanderTypeOK, BeliefTypeOK, Belief, Beliefs
<1>3. /\ Tells(Situation, q, joint, a) /\ Hands(Situation, q, joint[a], Ahead(at[a], facing'[a]), a)
      /\ q.carrying = carrying' /\ q.holders = holders' /\ r \in Int
      /\ Situation.carrying = carrying /\ Situation.holders = holders
      /\ Situation.delivered = delivered
  BY DEF Facts, Arrives, Situation, Situations
<1>4. /\ claimed'[a] = claimed[a]
      /\ ReadsCarried(r) =>
           /\ carry'[a] = IF Resolve(b, 1) = Nothing THEN carry[a] ELSE Resolve(b, 1)
           /\ engaged'[a] = engaged[a]
      /\ ~ReadsCarried(r) =>
           /\ carry'[a] = carry[a]
           /\ engaged'[a] = engaged[a] \cup ({Resolve(b, 2)} \ {Nothing})
  BY DEF Concludes
<1> HIDE DEF q, b
<1>5. ReadsCarried(r) <=> carrying'[a] # carrying[a]
  BY <1>3 DEF Tells
<1>6. ReadsLatched(r) <=> a \in holders' \ holders
  BY <1>3 DEF Tells
<1>a. r > 0
  BY DEF q
<1> HIDE DEF r
<1>7. CASE carrying'[a] # carrying[a]
  <2>1. carrying[a] = Nothing /\ carrying'[a] \in Light \ delivered
    BY <1>3, <1>7 DEF Hands
  <2>2. carrying'[a] \in Light \cap Targets
    BY <2>1, CastAssumption DEF Packages
  <2>3. Resolve(b, 1) = carrying'[a]
    BY <1>2, <2>1, <2>2, ResolveFinds
  <2>4. carrying'[a] # Nothing
    BY <2>1, CastAssumption DEF Packages
  <2>5. QED
    BY <1>1, <1>4, <1>5, <1>7, <2>1, <2>3, <2>4
<1>8. CASE carrying'[a] = carrying[a]
  <2>1. ~ReadsCarried(r) /\ ReadsLatched(r)
    BY <1>3, <1>5, <1>8, <1>a DEF ReadsLatched, ReadsCarried
  <2>2. Resolve(b, 2) = Heavy
    BY <1>2, ResolveFinds
  <2>3. Heavy # Nothing
    BY CastAssumption DEF Packages
  <2>4. QED
    BY <1>1, <1>4, <1>6, <1>8, <2>1, <2>2, <2>3
<1>9. QED
  BY <1>7, <1>8

LEMMA RealStep ==
  ASSUME PriorAssumption, Typed, NEW joint \in [Agents -> Actions], Sensible(joint), Facts(joint),
         NEW a \in Agents, Real(a), carrying'[a] \in Targets \cup {Nothing},
         holders # Agents, Heavy \notin delivered, at \in [Agents -> Cells], believed = at,
         NEW m \in [Cells -> Seen], Concludes(joint, a, m),
         \A c \in Cells : m[c] = "zone" => c \in Zone
  PROVE  Real(a)'
<1> DEFINE q == Resolved(joint)
           r == q.pay[a]
           front == Ahead(believed[a], facing'[a])
           grasps == joint[a] = "pick" /\ r > 0 /\ front \in Cells /\ IsBox(m[front])
<1>1. ~terminated' /\ holders \subseteq holders' /\ delivered \subseteq delivered'
  BY DEF Facts
<1>2. /\ Hands(Situation, q, joint[a], Ahead(at[a], facing'[a]), a)
      /\ q.carrying = carrying' /\ q.delivered = delivered' /\ Situation.carrying = carrying
      /\ Situation.at = at
  BY DEF Facts, Arrives, Situation
<1>3. /\ ~grasps /\ joint[a] # "drop" =>
           carry'[a] = carry[a] /\ engaged'[a] = engaged[a] /\ claimed'[a] = claimed[a]
      /\ joint[a] = "drop" =>
           /\ carry'[a] = Nothing /\ engaged'[a] = {}
           /\ \/ claimed'[a] = claimed[a]
              \/ /\ carry[a] # Nothing /\ m[believed[a]] = "zone"
                 /\ claimed'[a] = claimed[a] \cup {carry[a]}
  BY DEF Concludes
<1>4. CASE joint[a] = "drop"
  <2>1. carrying[a] \in Targets /\ at[a] \in Zone => carrying[a] \in delivered'
    BY <1>2, <1>4 DEF Hands
  <2>2. carry[a] \in Targets \cup {Nothing}
    BY DEF Typed
  <2> HIDE DEF q, r, front
  <2>3. claimed'[a] \subseteq delivered'
    BY <1>1, <1>3, <1>4, <2>1, <2>2 DEF Real
  <2>4. QED
    BY <1>3, <1>4, <2>3 DEF Real
<1>5. CASE grasps
  <2>1. claimed[a] \subseteq delivered
    BY DEF Real
  <2>2. /\ claimed'[a] = claimed[a]
        /\ carrying'[a] # carrying[a] => carry'[a] = carrying'[a] /\ engaged'[a] = {}
        /\ carrying'[a] = carrying[a] =>
             carry'[a] = Nothing /\ a \in holders' \ holders /\ engaged'[a] = {Heavy}
    BY <1>1, <1>5, <2>1, GraspIsReal
  <2> HIDE DEF q, r, front
  <2>3. QED
    BY <1>1, <2>1, <2>2 DEF Real
<1>6. CASE joint[a] # "drop" /\ ~grasps
  <2>1. carry'[a] = carry[a] /\ engaged'[a] = engaged[a] /\ claimed'[a] = claimed[a]
    BY <1>3, <1>6
  <2>2. carrying[a] # Nothing => carrying'[a] = carrying[a]
    BY <1>2, <1>6 DEF Hands
  <2> HIDE DEF q, r, front
  <2>3. QED
    BY <1>1, <2>1, <2>2 DEF Real
<1>7. QED
  BY <1>4, <1>5, <1>6

LEMMA FirstStep ==
  ASSUME PriorAssumption, CommanderInv, NEW joint \in [Agents -> Actions], Sensible(joint),
         Facts(joint), Redraws(joint), NoDecoyTaken, carrying'[Agent0] \in Targets \cup {Nothing},
         Concludes(joint, Agent0, map)
  PROVE  /\ Agent0 \in holders' => engaged'[Agent0] # {}
         /\ carrying[Agent0] = Nothing /\ carrying'[Agent0] # Nothing =>
              (IsBox(grid[pos[carrying'[Agent0]]]) => carry'[Agent0] = carrying'[Agent0])
         /\ Agent0 \in holders' \ holders => engaged'[Agent0] = {Heavy}
<1> DEFINE q == Resolved(joint)
           r == q.pay[Agent0]
           front == Ahead(at[Agent0], facing'[Agent0])
           took == carrying[Agent0] = Nothing /\ carrying'[Agent0] # Nothing
<1>1. /\ Hands(Situation, q, joint[Agent0], front, Agent0)
      /\ q.carrying = carrying' /\ q.holders = holders' /\ q.carriedBy = carriedBy'
      /\ Situation.carrying = carrying /\ Situation.holders = holders /\ Situation.pos = pos
      /\ r \in Int
  BY DEF Facts, Arrives, Situation, Situations, Agents
<1>a. Agent0 # Agent1 /\ Agent0 \in Agents
  BY CastAssumption DEF Agents
<1> HIDE DEF q, r, front
<1>2. /\ took => joint[Agent0] = "pick" /\ carrying'[Agent0] \in Light
                 /\ pos[carrying'[Agent0]] = front
      /\ Agent0 \in holders' \ holders => joint[Agent0] = "pick" /\ pos[Heavy] = front
  BY <1>1, <1>a DEF Hands
<1>3. CASE Agent0 \in holders
  <2>1. engaged[Agent0] # {}
    BY <1>3 DEF CommanderInv, FirstKnows
  <2>2. carry[Agent0] = Nothing
    BY <1>a, <2>1 DEF CommanderInv, HandsAgree
  <2>3. joint[Agent0] \notin {"pick", "drop"}
    BY <1>a, <2>1, <2>2 DEF Sensible
  <2>4. engaged'[Agent0] = engaged[Agent0]
    BY <2>3 DEF Concludes
  <2>5. QED
    BY <1>2, <1>3, <2>1, <2>3, <2>4
<1>4. CASE Agent0 \notin holders /\ (took \/ Agent0 \in holders')
  <2>1. holders # Agents /\ joint[Agent0] = "pick"
    BY <1>2, <1>4, <1>a
  <2>2. /\ ~terminated' /\ Heavy \notin delivered' /\ Heavy \notin delivered
        /\ Tells(Situation, q, joint, Agent0)
    BY <1>a, <2>1 DEF Facts, q
  <2>3. facing'[Agent0] = facing[Agent0] /\ believed = at /\ map \in [Cells -> Seen]
    BY <1>a, <2>1 DEF CommanderInv, MapAgrees, Typed, CommanderTypeOK, BeliefTypeOK, Seen, Facts,
                      Looks, Turned
  <2>4. front \in Cells /\ IsBox(grid[front]) => map[front] = grid[front]
    BY <1>a, <2>1, <2>3 DEF CommanderInv, MapAgrees, front
  <2>5. took \/ Agent0 \in holders' =>
          r > 0 /\ front \in Cells
    <3>1. /\ took => ReadsCarried(r)
          /\ Agent0 \in holders' => ReadsLatched(r)
      BY <1>1, <1>4, <1>a, <2>1, <2>2 DEF Tells, r
    <3>2. r > 0
      BY <1>1, <1>4, <3>1 DEF ReadsCarried, ReadsLatched
    <3>3. \A o \in Packages : pos[o] \in Cells
      BY DEF Redraws
    <3>4. front \in Cells
      BY <1>2, <1>4, <3>3, CastAssumption DEF Packages
    <3>5. QED
      BY <3>2, <3>4
  <2>6. Agent0 \in holders' => IsBox(grid[front])
    <3>1. grid[pos[Heavy]] = "target"
      BY <2>1 DEF CommanderInv, HeavyRests
    <3>2. QED
      BY <1>2, <1>4, <3>1 DEF IsBox
  <2>7. Real(Agent0)
    BY <1>a, <2>1 DEF CommanderInv, BeliefIsReal, Real
  <2>8. ASSUME IsBox(grid[front])
        PROVE  /\ carrying'[Agent0] # carrying[Agent0] => carry'[Agent0] = carrying'[Agent0]
               /\ carrying'[Agent0] = carrying[Agent0] => engaged'[Agent0] = {Heavy}
               /\ carrying'[Agent0] # carrying[Agent0] => engaged'[Agent0] = {}
    <3>1. IsBox(map[front])
      BY <1>4, <2>4, <2>5, <2>8
    <3>2. claimed[Agent0] \subseteq delivered /\ Typed
      BY <2>7 DEF Real, CommanderInv
    <3>3. front = Ahead(believed[Agent0], facing'[Agent0]) /\ r = Resolved(joint).pay[Agent0]
      BY <2>3 DEF front, r, q
    <3>4. QED
      BY <1>4, <1>a, <2>1, <2>2, <2>3, <2>5, <3>1, <3>2, <3>3, GraspIsReal
  <2>9. ~(took /\ Agent0 \in holders')
    BY <1>1, <1>4, <1>a, <2>1, <2>2 DEF Tells, ReadsCarried, ReadsLatched, r
  <2>10. Agent0 \in holders' => engaged'[Agent0] = {Heavy}
    BY <1>1, <1>4, <1>a, <2>1, <2>2, <2>6, <2>8 DEF Tells, ReadsCarried, ReadsLatched, r
  <2>11. took => (IsBox(grid[pos[carrying'[Agent0]]]) => carry'[Agent0] = carrying'[Agent0])
    BY <1>2, <2>8
  <2>12. QED
    BY <1>4, <2>10, <2>11
<1>5. QED
  BY <1>3, <1>4

-----------------------------------------------------------------------------
(* The invariant is kept                                                   *)

\* What one transition never does.
Notices ==
  NoDecoyTaken' =>
    /\ carrying[Agent0] = Nothing /\ carrying'[Agent0] # Nothing =>
         (IsBox(grid[pos[carrying'[Agent0]]]) => carry'[Agent0] = carrying'[Agent0])
    /\ Agent0 \in holders' \ holders => engaged'[Agent0] = {Heavy}

Misses ==
  \A a \in Agents : carry[a] = Nothing => carrying'[a] \in {carrying[a]} \cup
    IF carrying[a] = Nothing THEN Packages ELSE {}

LEMMA InitCommanderInv == ASSUME PriorAssumption, CommanderInit PROVE CommanderInv
<1>1. Typed
  BY InitTyped
<1>2. /\ at = AgentStart /\ facing = [a \in Agents |-> LEFT] /\ pos = PackageStart
      /\ holders = {} /\ delivered = {} /\ grid = Painted /\ believed = at
      /\ carry = [a \in Agents |-> Nothing] /\ engaged = [a \in Agents |-> {}]
      /\ claimed = [a \in Agents |-> {}]
      /\ map = [c \in Cells |-> IF c \in Zone THEN "zone" ELSE "unknown"]
  BY DEF CommanderInit, BeliefInit, Init
<1>3. /\ \A a \in Agents : AgentStart[a] \in Floor
      /\ \A o \in Packages : PackageStart[o] \in Floor \ Zone
      /\ \A o \in Packages, a \in Agents : PackageStart[o] # AgentStart[a]
      /\ \A o, p \in Packages : o # p => PackageStart[o] # PackageStart[p]
  BY PlacementAssumption
<1>4. ASSUME NEW c \in Cells
      PROVE  /\ grid[c] = "wall" <=> c \notin Floor
             /\ grid[c] = "zone" => c \in Zone
             /\ IsBox(grid[c]) => \E o \in Packages : PackageStart[o] = c
             /\ \A o \in Packages : PackageStart[o] = c => grid[c] = Box(o)
  <2> DEFINE boxes == {o \in Packages : PackageStart[o] = c}
  <2>1. grid[c] = CASE c \notin Floor -> "wall"
                    [] c \in Floor /\ boxes # {} -> Box(CHOOSE o \in boxes : TRUE)
                    [] OTHER -> IF c \in Zone /\ \A a \in Agents : AgentStart[a] # c
                                THEN "zone" ELSE "empty"
    BY <1>2 DEF Painted
  <2>2. \A o : Box(o) \in {"target", "decoy"}
    BY DEF Box
  <2>3. ASSUME NEW o \in boxes PROVE c \in Floor /\ boxes = {o} /\ (CHOOSE n \in boxes : TRUE) = o
    BY <1>3
  <2>4. CASE c \notin Floor
    <3>1. grid[c] = "wall"
      BY <2>1, <2>4
    <3>2. QED
      BY <1>3, <2>4, <3>1 DEF IsBox
  <2>5. CASE c \in Floor /\ boxes # {}
    <3>1. PICK o \in boxes : TRUE
      BY <2>5
    <3>2. grid[c] = Box(o)
      BY <2>1, <2>3, <2>5, <3>1
    <3>3. QED
      BY <2>2, <2>3, <2>5, <3>1, <3>2
  <2>6. CASE c \in Floor /\ boxes = {}
    <3>1. grid[c] = IF c \in Zone /\ \A a \in Agents : AgentStart[a] # c THEN "zone" ELSE "empty"
      BY <2>1, <2>6
    <3>2. QED
      BY <2>6, <3>1 DEF IsBox
  <2>7. QED
    BY <2>4, <2>5, <2>6
<1>5. PictureTells
  BY <1>4 DEF PictureTells
<1>6. HeavyRests
  <2>1. Heavy \in Packages /\ Light \subseteq Packages /\ Heavy \notin Light /\ Heavy \in Targets
    BY HeavyIsTarget, CastAssumption DEF Packages
  <2>2. PackageStart[Heavy] \in Cells
    BY <1>3, <2>1
  <2>3. grid[PackageStart[Heavy]] = "target"
    BY <1>4, <2>1, <2>2 DEF Box
  <2>4. QED
    BY <1>2, <1>3, <2>1, <2>3 DEF HeavyRests
<1>7. HandsAgree
  BY <1>2 DEF HandsAgree
<1>8. MapAgrees
  <2>1. MapFits(map, grid)
    <3>1. \A c \in Zone : ~IsBox(grid[c])
      BY <1>3, <1>4
    <3>2. QED
      BY <1>2, <3>1 DEF MapFits
  <2>2. ASSUME NEW a \in Agents, Ahead(at[a], facing[a]) \in Cells
        PROVE  ~IsBox(grid[Ahead(at[a], facing[a])])
    BY <1>2, <1>4, <2>2 DEF PriorAssumption
  <2>3. QED
    BY <1>2, <2>1, <2>2 DEF MapAgrees
<1>9. BeliefIsReal
  BY <1>2 DEF BeliefIsReal
<1>10. FirstKnows
  BY <1>2 DEF FirstKnows
<1>11. QED
  BY <1>1, <1>5, <1>6, <1>7, <1>8, <1>9, <1>10 DEF CommanderInv

LEMMA CommanderInvStep ==
  ASSUME PriorAssumption, CommanderInv, [CommanderNext]_vars
  PROVE  CommanderInv' /\ Notices /\ Misses
<1>1. CASE ~Round
  <2>1. UNCHANGED beliefVars /\ Typed'
    BY <1>1, OtherwiseStill DEF CommanderInv
  <2>2. /\ UNCHANGED <<facing, at, carrying, carriedBy, pos, holders, delivered, terminated>>
        /\ UNCHANGED <<grid, believed, carry, engaged, claimed, map>>
    BY <2>1 DEF beliefVars, worldVars
  <2>3. PictureTells' /\ HeavyRests' /\ HandsAgree' /\ MapAgrees' /\ BeliefIsReal' /\ FirstKnows'
    BY <2>2 DEF CommanderInv, PictureTells, HeavyRests, HandsAgree, MapAgrees, MapFits,
                BeliefIsReal, FirstKnows, NoDecoyTaken
  <2>4. Notices /\ Misses
    BY <2>2 DEF Notices, Misses
  <2>5. QED
    BY <2>1, <2>3, <2>4 DEF CommanderInv
<1>2. CASE Round
  <2>1. /\ Typed /\ PictureTells /\ HeavyRests /\ HandsAgree /\ MapAgrees /\ BeliefIsReal
        /\ FirstKnows /\ ~Over
    BY <1>2 DEF CommanderInv, Round
  <2>2. Typed'
    BY <2>1, TypedStep
  <2>3. PICK joint \in [Agents -> Actions] : BeliefStep(joint) /\ Sensible(joint)
    BY <1>2, <2>1, RoundIsStep
  <2>4. Facts(joint)
    BY <2>1, <2>3, RoundFacts, RoundOfWorld
  <2>5. Redraws(joint) /\ TransportInv'
    BY <2>1, <2>2, <2>3, <2>4, RoundRedraws DEF Typed
  <2>6. PictureTells' /\ HeavyRests'
    BY <2>1, <2>4, <2>5, PictureStep, HeavyStep
  <2>7. PICK m \in [Cells -> Seen] : Learns(joint, m)
    BY <2>1, <2>3, StepLearns
  <2>8. Concludes(joint, Agent0, map) /\ Concludes(joint, Agent1, m) /\ map \in [Cells -> Seen]
    BY <2>1, <2>4, <2>7, RoundConcludes DEF Typed, CommanderTypeOK, BeliefTypeOK, Seen
  <2>9. MapAgrees' /\ (holders' # Agents => \A c \in Cells : m[c] = "zone" => c \in Zone)
    BY <2>1, <2>4, <2>5, <2>6, <2>7, MapStep
  <2>10. HandsAgree'
    <3>1. \A a \in Agents : /\ engaged'[a] # {} => carry'[a] = Nothing
                            /\ ~terminated' /\ carry'[a] # Nothing => carrying'[a] # Nothing
      BY <2>1, <2>3, <2>4, <2>8, HandsStep DEF Agents
    <3>2. QED
      BY <3>1 DEF HandsAgree
  <2>11. NoDecoyTaken' => NoDecoyTaken /\ \A a \in Agents : carrying'[a] \in Targets \cup {Nothing}
    BY <2>4, <2>5, NoDecoy
  <2>12. BeliefIsReal'
    <3> SUFFICES ASSUME holders' # Agents, NoDecoyTaken' PROVE BeliefIsReal'
      BY DEF BeliefIsReal
    <3>1. holders # Agents /\ NoDecoyTaken /\ Heavy \notin delivered
      BY <2>4, <2>11 DEF Facts, Arrives, Situations
    <3>2. \A a \in Agents : Real(a) /\ carrying'[a] \in Targets \cup {Nothing}
      BY <2>1, <2>11, <3>1 DEF BeliefIsReal, Real
    <3>3. at \in [Agents -> Cells] /\ believed = at /\ \A c \in Cells : map[c] = "zone" => c \in Zone
      BY <2>1, <3>1 DEF MapAgrees, MapFits, Typed, CommanderTypeOK, BeliefTypeOK
    <3>4. Real(Agent0)' /\ Real(Agent1)'
      BY <2>1, <2>3, <2>4, <2>8, <2>9, <3>1, <3>2, <3>3, RealStep DEF Agents
    <3>5. QED
      BY <3>4 DEF Real, BeliefIsReal, Agents
  <2>13. NoDecoyTaken' =>
           /\ Agent0 \in holders' => engaged'[Agent0] # {}
           /\ carrying[Agent0] = Nothing /\ carrying'[Agent0] # Nothing =>
                (IsBox(grid[pos[carrying'[Agent0]]]) => carry'[Agent0] = carrying'[Agent0])
           /\ Agent0 \in holders' \ holders => engaged'[Agent0] = {Heavy}
    <3>1. Agent0 \in Agents
      BY DEF Agents
    <3>2. QED
      BY <2>3, <2>4, <2>5, <2>8, <2>11, <3>1, FirstStep
  <2>14. Misses
    <3>1. ASSUME NEW a \in Agents, carry[a] = Nothing, carrying'[a] # carrying[a]
          PROVE  carrying[a] = Nothing /\ carrying'[a] \in Light
      <4>1. joint[a] # "drop"
        BY <2>3, <3>1 DEF Sensible
      <4>2. /\ Hands(Situation, Resolved(joint), joint[a], Ahead(at[a], facing'[a]), a)
            /\ Resolved(joint).carrying = carrying' /\ Situation.carrying = carrying
        BY <2>4 DEF Facts, Arrives, Situation
      <4>3. QED
        BY <3>1, <4>1, <4>2 DEF Hands
    <3>2. QED
      BY <3>1 DEF Misses, Packages
  <2>15. QED
    BY <2>2, <2>6, <2>9, <2>10, <2>12, <2>13, <2>14 DEF CommanderInv, FirstKnows, Notices
<1>3. QED
  BY <1>1, <1>2

LEMMA CommanderCorrect == CommanderSpec => []CommanderInv
<1>1. CommanderInit => CommanderInv
  BY PriorAssumption, InitCommanderInv
<1>2. CommanderInv /\ [CommanderNext]_vars => CommanderInv'
  BY PriorAssumption, CommanderInvStep
<1>3. QED
  BY <1>1, <1>2, PTL DEF CommanderSpec

-----------------------------------------------------------------------------
(* Theorems                                                                *)

\* Whatever the skills do to the world is what the world allows: the commander's behaviours
\* are behaviours of the world, whose theorems therefore hold of them.
THEOREM CommanderImplementsWorld == CommanderSpec => Spec
<1>1. CommanderInit => Init
  BY DEF CommanderInit, BeliefInit
<1>2. Typed /\ [CommanderNext]_vars => [Next]_worldVars
  <2> SUFFICES ASSUME Typed, [CommanderNext]_vars PROVE [Next]_worldVars
    OBVIOUS
  <2>1. CASE Round
    BY <2>1, RoundIsStep, RoundOfWorld
  <2>2. CASE ~Round
    BY <2>2, OtherwiseStill DEF beliefVars
  <2>3. QED
    BY <2>1, <2>2
<1>3. CommanderInv => Typed
  BY DEF CommanderInv
<1>4. QED
  BY <1>1, <1>2, <1>3, CommanderCorrect, PTL DEF CommanderSpec, Spec

\* Beliefs, map, skills and records are well typed: no belief leaves the map, and only
\* targets are believed to be carried, held or delivered.
THEOREM CommanderTypes == CommanderSpec => []CommanderTypeOK
<1>1. CommanderInv => CommanderTypeOK
  BY DEF CommanderInv, Typed
<1>2. QED
  BY <1>1, CommanderCorrect, PTL

\* The shared map, as long as dead reckoning is sound: _update_grid_from_image lays a view
\* where the agent is, and neither agent's writes undo what the other one saw.
THEOREM MapIsTrue == CommanderSpec => []MapTells
<1>1. CommanderInv => MapTells
  BY DEF CommanderInv, MapAgrees, MapFits, MapTells
<1>2. QED
  BY <1>1, CommanderCorrect, PTL

\* _apply_action guesses from a reward what an agent holds, and guesses right until a decoy
\* is picked up or both hold the heavy package.
THEOREM BeliefsAreReal == CommanderSpec => []BeliefIsReal
<1>1. CommanderInv => BeliefIsReal
  BY DEF CommanderInv
<1>2. QED
  BY <1>1, CommanderCorrect, PTL

\* The agent that is updated first misses nothing it takes that is drawn.
THEOREM FirstAgentNotices == CommanderSpec => FirstNotices
<1>1. CommanderInv /\ [CommanderNext]_vars =>
        [NoDecoyTaken' =>
           /\ carrying[Agent0] = Nothing /\ carrying'[Agent0] # Nothing =>
                (IsBox(grid[pos[carrying'[Agent0]]]) => carry'[Agent0] = carrying'[Agent0])
           /\ Agent0 \in holders' \ holders => engaged'[Agent0] = {Heavy}]_vars
  BY PriorAssumption, CommanderInvStep DEF Notices
<1>2. QED
  BY <1>1, CommanderCorrect, PTL DEF CommanderSpec, FirstNotices

\* An agent never lets go of what it does not believe to carry.
THEOREM MissedStaysMissed == CommanderSpec => MissedIsKept
<1>1. CommanderInv /\ [CommanderNext]_vars =>
        [\A a \in Agents : carry[a] = Nothing => carrying'[a] \in {carrying[a]} \cup
           IF carrying[a] = Nothing THEN Packages ELSE {}]_vars
  BY PriorAssumption, CommanderInvStep DEF Misses
<1>2. QED
  BY <1>1, CommanderCorrect, PTL DEF CommanderSpec, MissedIsKept

=============================================================================
