------------------------ MODULE TransportWorld_proofs ------------------------
(***************************************************************************)
(* Theorems about TransportWorld for every arena, zone, start and set of   *)
(* packages.                                                               *)
(***************************************************************************)
EXTENDS TransportWorld, FiniteSetTheorems, WellFoundedInduction, TLAPS

USE CastAssumption, ArenaAssumption

-----------------------------------------------------------------------------
(* Data                                                                    *)

\* Packages in reach have a first one, and Picked takes it.
LEMMA LeastInReach ==
  ASSUME NEW S \in SUBSET Nat, S # {}
  PROVE  Min(S) \in S
<1> DEFINE Below == {ss \in Nat \X Nat : ss[1] < ss[2]}
<1>1. Below = OpToRel(<, Nat)
  BY DEF OpToRel
<1>2. IsWellFoundedOn(Below, Nat)
  BY <1>1, NatLessThanWellFounded
<1>3. \E x \in S : \A y \in S : ~(<<y, x>> \in Below)
  <2> HIDE DEF Below
  <2>1. QED
    BY <1>2, WFMin
<1>4. PICK x \in S : \A y \in S : ~(<<y, x>> \in Below)
  BY <1>3
<1>5. ASSUME NEW y \in S PROVE x <= y
  <2>1. x \in Nat /\ y \in Nat
    OBVIOUS
  <2>2. ~(y < x)
    BY <1>4, <2>1
  <2>3. QED
    BY <2>1, <2>2
<1>6. QED
  BY <1>5 DEF Min

LEMMA PackagesAreFinite == IsFiniteSet(Packages) /\ Packages \subseteq Nat
  BY FS_AddElement DEF Packages

LEMMA Counting ==
  ASSUME NEW D \in SUBSET Packages, NEW o \in Packages \ D
  PROVE  Cardinality(D \cup {o}) = Cardinality(D) + 1 /\ Cardinality(D) \in Nat
<1>1. IsFiniteSet(D)
  BY PackagesAreFinite, FS_Subset
<1>2. QED
  BY <1>1, FS_AddElement, FS_CardinalityType

LEMMA FloorCells == \A cell \in Floor : cell \in Int \X Int
  OBVIOUS

LEMMA LooksTyped ==
  ASSUME NEW joint \in [Agents -> Actions], facing \in [Agents -> Directions]
  PROVE  Looks(joint) \in [Agents -> Directions]
<1>1. \A d \in Directions : (d + 3) % 4 \in Directions /\ (d + 1) % 4 \in Directions
  BY DEF Directions, RIGHT, DOWN, LEFT, UP
<1>2. QED
  BY <1>1 DEF Looks, Turned

\* One step ahead: what the geometry of a joint move rests on.
LEMMA AheadShift ==
  ASSUME NEW d \in Directions
  PROVE  \E i, j \in Int : /\ i + j \in {1, -1} /\ (i = 0 \/ j = 0)
                           /\ \A x, y \in Int : Ahead(<<x, y>>, d) = <<x + i, y + j>>
<1> DEFINE i == CASE d = RIGHT -> 1 [] d = LEFT -> -1 [] OTHER -> 0
           j == CASE d = DOWN -> 1 [] d = UP -> -1 [] OTHER -> 0
<1>1. i \in Int /\ j \in Int /\ i + j \in {1, -1} /\ (i = 0 \/ j = 0)
  BY DEF Directions, RIGHT, LEFT, DOWN, UP
<1>2. \A x, y \in Int : Ahead(<<x, y>>, d) = <<x + i, y + j>>
  BY DEF Ahead
<1> HIDE DEF i, j
<1>3. QED
  BY <1>1, <1>2

LEMMA AheadCells ==
  ASSUME NEW c \in Int \X Int, NEW e \in Int \X Int, NEW d \in Directions
  PROVE  /\ Ahead(c, d) \in Int \X Int
         /\ c # e => Ahead(c, d) # Ahead(e, d)
         /\ Distance(c, Ahead(c, d)) = 1
         /\ Offset(Ahead(c, d), Ahead(e, d)) = Offset(c, e)
<1>1. PICK x \in Int, y \in Int : c = <<x, y>>
  OBVIOUS
<1>2. PICK u \in Int, v \in Int : e = <<u, v>>
  OBVIOUS
<1>3. PICK i \in Int, j \in Int :
        /\ i + j \in {1, -1} /\ (i = 0 \/ j = 0)
        /\ \A m, n \in Int : Ahead(<<m, n>>, d) = <<m + i, n + j>>
  BY AheadShift
<1>4. Ahead(c, d) = <<x + i, y + j>> /\ Ahead(e, d) = <<u + i, v + j>>
  BY <1>1, <1>2, <1>3
<1>5. Ahead(c, d) \in Int \X Int
  BY <1>4
<1>6. c # e => Ahead(c, d) # Ahead(e, d)
  BY <1>1, <1>2, <1>4
<1>7. Distance(c, Ahead(c, d)) = 1
  <2>1. x - (x + i) = -i /\ y - (y + j) = -j
    OBVIOUS
  <2>2. QED
    BY <1>1, <1>3, <1>4, <2>1 DEF Distance
<1>8. Offset(Ahead(c, d), Ahead(e, d)) = Offset(c, e)
  <2>1. (x + i) - (u + i) = x - u /\ (y + j) - (v + j) = y - v
    OBVIOUS
  <2>2. QED
    BY <1>1, <1>2, <1>4, <2>1 DEF Offset
<1>9. QED
  BY <1>5, <1>6, <1>7, <1>8

LEMMA NoDistance == \A c \in Int \X Int : Distance(c, c) = 0
  BY DEF Distance

-----------------------------------------------------------------------------
(* Situations between the phases                                           *)

Situations ==
  [at : [Agents -> Floor], carrying : [Agents -> Packages \cup {Nothing}],
   carriedBy : [Packages -> Agents \cup {Nobody}], pos : [Packages -> Floor],
   holders : SUBSET Agents, delivered : SUBSET Packages, count : Nat,
   pay : [Agents -> Int]]

\* The invariants of a situation in the middle of a step, when the packages have not yet
\* followed their carriers.
Sound(p) ==
  /\ p \in Situations
  /\ p.at[Agent0] # p.at[Agent1]
  /\ \A a \in Agents, o \in Packages : p.carrying[a] = o <=> p.carriedBy[o] = a
  /\ \A o \in Packages : p.carriedBy[o] # Nobody => o \in Light \ p.delivered
  /\ p.delivered \subseteq Targets /\ p.count = Cardinality(p.delivered)
  /\ \A o \in p.delivered : p.pos[o] \in Zone

Rests(p, q) == \A o \in p.delivered : o \in q.delivered /\ q.pos[o] = p.pos[o]

\* A phase that keeps the situation sound and the delivered packages at rest.
Keeps(p, q) == Sound(q) /\ Rests(p, q)

LEMMA KeepsTransitive ==
  ASSUME NEW p, NEW q, NEW r, Keeps(p, q), Keeps(q, r)
  PROVE  Keeps(p, r)
  BY DEF Keeps, Rests

\* What a move or a reward leaves alone.
SameBut(p, q) ==
  /\ q.carrying = p.carrying /\ q.carriedBy = p.carriedBy /\ q.pos = p.pos
  /\ q.holders = p.holders /\ q.delivered = p.delivered /\ q.count = p.count

\* Rewards are beside the point of all of this.
LEMMA PayKeeps ==
  ASSUME NEW p, Sound(p), NEW a \in Agents, NEW amount \in Int
  PROVE  LET q == Pay(p, a, amount)
         IN  Keeps(p, q) /\ SameBut(p, q) /\ q.at = p.at
<1> DEFINE q == Pay(p, a, amount)
           paid == [p.pay EXCEPT ![a] = @ + amount]
<1>1. paid \in [Agents -> Int]
  BY DEF Situations, Sound
<1>2. q = [p EXCEPT !.pay = paid]
  BY DEF Pay, Situations, Sound
<1> HIDE DEF paid, q
<1>3. SameBut(p, q) /\ q.at = p.at /\ q \in Situations
  BY <1>1, <1>2 DEF Situations, SameBut, Sound
<1>4. Keeps(p, q)
  BY <1>3 DEF Keeps, Sound, Rests, SameBut
<1>5. QED
  BY <1>3, <1>4 DEF q

-----------------------------------------------------------------------------
(* Moves                                                                   *)

LEMMA MovedKeeps ==
  ASSUME NEW p, Sound(p), NEW look \in [Agents -> Directions], NEW a \in Agents
  PROVE  LET q == Moved(p, look, a)
         IN  /\ Keeps(p, q) /\ SameBut(p, q)
             /\ FullHold(p) => q.at = p.at
             /\ \A b \in Agents : q.at[b] = p.at[b] \/ (b = a /\ q.at[b] = Ahead(p.at[b], look[b]))
<1> DEFINE cell == Ahead(p.at[a], look[a])
           q == Moved(p, look, a)
<1>1. p \in Situations
  BY DEF Sound
<1>2. CASE FullHold(p)
  BY <1>2 DEF Moved, Keeps, Rests, SameBut
<1>3. CASE ~FullHold(p) /\ FreeForAgent(p, a, cell)
  <2>1. q = [p EXCEPT !.at[a] = cell]
    BY <1>3 DEF Moved
  <2>2. cell \in Floor /\ \A other \in Agents \ {a} : p.at[other] # cell
    BY <1>3 DEF FreeForAgent
  <2>3. q \in Situations /\ SameBut(p, q) /\ q.at = [p.at EXCEPT ![a] = cell]
    <3> DEFINE gone == [p.at EXCEPT ![a] = cell]
    <3>1. gone \in [Agents -> Floor]
      BY <1>1, <2>2 DEF Situations
    <3>2. q = [p EXCEPT !.at = gone]
      BY <1>1, <2>1 DEF Situations
    <3> HIDE DEF gone, q
    <3>3. q \in Situations /\ SameBut(p, q) /\ q.at = gone
      BY <1>1, <3>1, <3>2 DEF Situations, SameBut
    <3>4. QED
      BY <3>3 DEF gone
  <2> HIDE DEF q
  <2>4. q.at[Agent0] # q.at[Agent1]
    BY <1>1, <2>2, <2>3 DEF Situations, Sound, Agents
  <2>5. Keeps(p, q)
    BY <2>3, <2>4 DEF Keeps, Sound, Rests, SameBut
  <2>6. \A b \in Agents : q.at[b] = p.at[b] \/ (b = a /\ q.at[b] = Ahead(p.at[b], look[b]))
    BY <1>1, <2>3 DEF Situations
  <2>7. QED
    BY <1>3, <2>3, <2>5, <2>6 DEF q
<1>4. CASE ~FullHold(p) /\ ~FreeForAgent(p, a, cell)
  <2>1. q = Pay(p, a, -10)
    BY <1>4 DEF Moved
  <2>2. QED
    BY <2>1, PayKeeps
<1>5. QED
  BY <1>2, <1>3, <1>4

-----------------------------------------------------------------------------
(* Picks and drops                                                         *)

LEMMA PickedKeeps ==
  ASSUME NEW p, Sound(p), NEW look \in [Agents -> Directions], NEW a \in Agents
  PROVE  LET q == Picked(p, look, a)
         IN  Keeps(p, q) /\ q.at = p.at /\ q.pos = p.pos
<1> DEFINE front == Ahead(p.at[a], look[a])
           inReach == {o \in Packages \ p.delivered : p.carriedBy[o] = Nobody /\ p.pos[o] = front}
           o == Min(inReach)
           q == Picked(p, look, a)
<1>1. p \in Situations
  BY DEF Sound
<1>2. CASE p.carrying[a] # Nothing \/ inReach = {}
  BY <1>2 DEF Picked, Keeps, Rests
<1>3. CASE p.carrying[a] = Nothing /\ inReach # {}
  <2>1. o \in Packages \ p.delivered /\ p.carriedBy[o] = Nobody
    BY <1>3, LeastInReach, PackagesAreFinite
  <2> HIDE DEF o
  <2>2. CASE o \in Light
    <3> DEFINE r == [p EXCEPT !.carriedBy[o] = a, !.carrying[a] = o]
    <3>1. q = Pay(r, a, 10)
      BY <1>3, <2>2 DEF Picked, o
    <3>2. /\ r \in Situations /\ r.at = p.at /\ r.pos = p.pos /\ r.delivered = p.delivered
          /\ r.count = p.count
          /\ r.carriedBy = [p.carriedBy EXCEPT ![o] = a]
          /\ r.carrying = [p.carrying EXCEPT ![a] = o]
      BY <1>1, <2>1 DEF Situations
    <3> HIDE DEF r
    <3>3. \A b \in Agents, x \in Packages : r.carrying[b] = x <=> r.carriedBy[x] = b
      BY <1>1, <1>3, <2>1, <3>2 DEF Situations, Sound
    <3>4. \A x \in Packages : r.carriedBy[x] # Nobody => x \in Light \ r.delivered
      BY <1>1, <2>1, <2>2, <3>2 DEF Situations, Sound
    <3>5. Keeps(p, r)
      BY <3>2, <3>3, <3>4 DEF Keeps, Rests, Sound
    <3>6. Keeps(r, q) /\ q.at = r.at /\ q.pos = r.pos
      BY <3>1, <3>5, PayKeeps DEF Keeps, SameBut
    <3>7. QED
      BY <3>2, <3>5, <3>6, KeepsTransitive
  <2>3. CASE o \notin Light /\ a \in p.holders
    BY <1>3, <2>3 DEF Picked, Keeps, Rests, o
  <2>4. CASE o \notin Light /\ a \notin p.holders
    <3> DEFINE r == [p EXCEPT !.holders = @ \cup {a}]
    <3>1. q = Pay(r, a, 5)
      BY <1>3, <2>4 DEF Picked, o
    <3>2. /\ r \in Situations /\ r.at = p.at /\ r.pos = p.pos /\ r.delivered = p.delivered
          /\ r.count = p.count /\ r.carriedBy = p.carriedBy /\ r.carrying = p.carrying
      BY <1>1 DEF Situations
    <3> HIDE DEF r
    <3>3. Keeps(p, r)
      BY <3>2 DEF Keeps, Rests, Sound
    <3>4. Keeps(r, q) /\ q.at = r.at /\ q.pos = r.pos
      BY <3>1, <3>3, PayKeeps DEF Keeps, SameBut
    <3>5. QED
      BY <3>2, <3>3, <3>4, KeepsTransitive
  <2>5. QED
    BY <2>2, <2>3, <2>4
<1>4. QED
  BY <1>1, <1>2, <1>3 DEF Situations

LEMMA DroppedKeeps ==
  ASSUME NEW p, Sound(p), NEW a \in Agents
  PROVE  LET q == Dropped(p, a)
         IN  Keeps(p, q) /\ q.at = p.at /\ q.pos[Heavy] = p.pos[Heavy]
<1> DEFINE o == p.carrying[a]
           laid == [p EXCEPT !.pos[o] = p.at[a], !.carriedBy[o] = Nobody, !.carrying[a] = Nothing]
           counted == [laid EXCEPT !.delivered = @ \cup {o}, !.count = @ + 1]
           q == Dropped(p, a)
<1>1. p \in Situations
  BY DEF Sound
<1>2. CASE o = Nothing
  <2> DEFINE left == p.holders \ {a}
  <2>1. q = [p EXCEPT !.holders = left]
    BY <1>1, <1>2 DEF Dropped, Situations
  <2>2. left \in SUBSET Agents
    BY <1>1 DEF Situations
  <2> HIDE DEF left, q
  <2>3. /\ q \in Situations /\ q.at = p.at /\ q.pos = p.pos /\ q.delivered = p.delivered
        /\ q.count = p.count /\ q.carriedBy = p.carriedBy /\ q.carrying = p.carrying
    BY <1>1, <2>1, <2>2 DEF Situations
  <2>4. Keeps(p, q)
    BY <2>3 DEF Keeps, Rests, Sound
  <2>5. QED
    BY <2>3, <2>4 DEF q
<1>3. CASE o # Nothing
  <2>1. o \in Light \ p.delivered /\ p.carriedBy[o] = a /\ o \in Packages /\ o # Heavy
    <3>1. o \in Packages
      BY <1>1, <1>3 DEF Situations
    <3> HIDE DEF o
    <3>2. p.carriedBy[o] = a
      BY <3>1 DEF Sound, o
    <3>3. o \in Light \ p.delivered
      BY <3>1, <3>2 DEF Sound
    <3>4. QED
      BY <3>1, <3>2, <3>3
  <2> HIDE DEF o
  <2> DEFINE lies == [p.pos EXCEPT ![o] = p.at[a]]
             free == [p.carriedBy EXCEPT ![o] = Nobody]
             hands == [p.carrying EXCEPT ![a] = Nothing]
  <2>2. laid = [p EXCEPT !.pos = lies, !.carriedBy = free, !.carrying = hands]
    BY <1>1 DEF Situations
  <2>3. /\ lies \in [Packages -> Floor] /\ free \in [Packages -> Agents \cup {Nobody}]
        /\ hands \in [Agents -> Packages \cup {Nothing}]
    BY <1>1, <2>1 DEF Situations
  <2>4. lies[Heavy] = p.pos[Heavy] /\ lies[o] = p.at[a] /\ \A x \in p.delivered : lies[x] = p.pos[x]
    BY <1>1, <2>1 DEF Situations, Packages
  <2>5. \A b \in Agents, x \in Packages : hands[b] = x <=> free[x] = b
    BY <1>1, <2>1 DEF Situations, Sound, o
  <2>6. \A x \in Packages : free[x] # Nobody => x # o /\ x \in Light \ p.delivered
    BY <1>1, <2>1 DEF Situations, Sound
  <2> HIDE DEF lies, free, hands, laid
  <2>7. /\ laid \in Situations /\ laid.at = p.at /\ laid.pos = lies /\ laid.carriedBy = free
        /\ laid.carrying = hands /\ laid.delivered = p.delivered /\ laid.count = p.count
        /\ laid.holders = p.holders
    BY <1>1, <2>2, <2>3 DEF Situations
  <2>8. Keeps(p, laid)
    BY <2>4, <2>5, <2>6, <2>7 DEF Keeps, Rests, Sound
  <2>9. CASE o \in Targets \ p.delivered /\ p.at[a] \in Zone
    <3>1. q = Pay(counted, a, 2000)
      BY <1>3, <2>9 DEF Dropped, o, laid
    <3> HIDE DEF q
    <3>2. /\ counted \in Situations /\ counted.at = p.at /\ counted.pos = lies
          /\ counted.carriedBy = free /\ counted.carrying = hands
          /\ counted.delivered = p.delivered \cup {o} /\ counted.count = p.count + 1
      <4> DEFINE more == p.delivered \cup {o}
      <4>1. more \in SUBSET Packages /\ p.count + 1 \in Nat
        BY <1>1, <2>1 DEF Situations
      <4>2. counted = [laid EXCEPT !.delivered = more, !.count = p.count + 1]
        BY <2>7 DEF Situations
      <4> HIDE DEF more, counted
      <4>3. /\ counted \in Situations /\ counted.at = laid.at /\ counted.pos = laid.pos
            /\ counted.carriedBy = laid.carriedBy /\ counted.carrying = laid.carrying
            /\ counted.delivered = more /\ counted.count = p.count + 1
        BY <2>7, <4>1, <4>2 DEF Situations
      <4>4. QED
        BY <2>7, <4>3 DEF more
    <3>3. Cardinality(p.delivered \cup {o}) = p.count + 1
      BY <1>1, <2>1, Counting DEF Situations, Sound
    <3> HIDE DEF counted
    <3>4. Keeps(p, counted)
      <4>1. counted.delivered \subseteq Targets /\ counted.count = Cardinality(counted.delivered)
        BY <2>9, <3>2, <3>3 DEF Sound
      <4>2. \A x \in counted.delivered : counted.pos[x] \in Zone
        BY <2>4, <2>9, <3>2 DEF Sound
      <4>3. \A x \in Packages : counted.carriedBy[x] # Nobody => x \in Light \ counted.delivered
        BY <2>6, <3>2
      <4>4. Sound(counted)
        BY <2>5, <3>2, <4>1, <4>2, <4>3 DEF Sound
      <4>5. QED
        BY <2>4, <3>2, <4>4 DEF Keeps, Rests
    <3>5. Keeps(counted, q) /\ SameBut(counted, q) /\ q.at = counted.at
      BY <3>1, <3>4, PayKeeps DEF Keeps
    <3>6. QED
      BY <2>4, <3>2, <3>4, <3>5, KeepsTransitive DEF SameBut, q
  <2>10. CASE ~(o \in Targets \ p.delivered /\ p.at[a] \in Zone)
    <3>1. q = laid
      BY <1>3, <2>10 DEF Dropped, o, laid
    <3>2. QED
      BY <2>4, <2>7, <2>8, <3>1
  <2>11. QED
    BY <2>9, <2>10
<1>4. QED
  BY <1>2, <1>3

-----------------------------------------------------------------------------
(* The joint carry and what follows it                                     *)

LEMMA CarriedJointlyKeeps ==
  ASSUME NEW p, Sound(p), NEW look \in [Agents -> Directions], NEW joint \in [Agents -> Actions],
         JointMoves(p, look, joint)
  PROVE  LET q == CarriedJointly(p, look, joint)
             d == look[Agent0]
         IN  /\ Keeps(p, q) /\ q.holders = p.holders
             /\ q.at = [a \in Agents |-> Ahead(p.at[a], d)]
             /\ q.pos[Heavy] = Ahead(p.pos[Heavy], d)
<1> DEFINE d == look[Agent0]
           there == [a \in Agents |-> Ahead(p.at[a], d)]
           where == [p.pos EXCEPT ![Heavy] = Ahead(p.pos[Heavy], d)]
           paid == [a \in Agents |-> p.pay[a] + 20]
           q == CarriedJointly(p, look, joint)
<1>1. p \in Situations /\ d \in Directions
  BY DEF Sound, Agents
<1>2. q = [p EXCEPT !.at = there, !.pos = where, !.pay = paid]
  BY <1>1 DEF CarriedJointly, Situations
<1>3. \A cell \in {p.at[a] : a \in Agents} \cup {p.pos[Heavy]} : Ahead(cell, d) \in Floor
  BY DEF JointMoves, Feasible
<1>4. there \in [Agents -> Floor] /\ where \in [Packages -> Floor] /\ paid \in [Agents -> Int]
  BY <1>1, <1>3 DEF Situations, Packages
<1>5. there[Agent0] # there[Agent1]
  BY <1>1, AheadCells DEF Situations, Sound, Agents
<1>6. where[Heavy] = Ahead(p.pos[Heavy], d) /\ \A o \in p.delivered : where[o] = p.pos[o]
  BY <1>1 DEF JointMoves, Situations, Packages
<1> HIDE DEF there, where, paid, q
<1>7. /\ q \in Situations /\ q.at = there /\ q.pos = where /\ q.delivered = p.delivered
      /\ q.count = p.count /\ q.carriedBy = p.carriedBy /\ q.carrying = p.carrying
      /\ q.holders = p.holders
  BY <1>1, <1>2, <1>4 DEF Situations
<1>8. Keeps(p, q)
  BY <1>5, <1>6, <1>7 DEF Keeps, Rests, Sound
<1>9. QED
  BY <1>6, <1>7, <1>8 DEF there, q

\* The carried packages are where their carriers are.
Together(p) == \A o \in Packages : p.carriedBy[o] # Nobody => p.pos[o] = p.at[p.carriedBy[o]]

LEMMA SyncedKeeps ==
  ASSUME NEW p, Sound(p)
  PROVE  LET q == Synced(p)
         IN  /\ Keeps(p, q) /\ Together(q) /\ q.at = p.at /\ q.holders = p.holders
             /\ q.pos[Heavy] = p.pos[Heavy]
<1> DEFINE where == [o \in Packages |-> IF Carrier(p, o) = {} THEN p.pos[o]
                                        ELSE p.at[CHOOSE a \in Carrier(p, o) : TRUE]]
           q == Synced(p)
<1>1. p \in Situations
  BY DEF Sound
<1>2. \A o \in Packages : IF p.carriedBy[o] = Nobody THEN Carrier(p, o) = {}
                          ELSE Carrier(p, o) = {p.carriedBy[o]}
  BY <1>1 DEF Situations, Sound, Carrier
<1>3. \A o \in Packages : where[o] = IF p.carriedBy[o] = Nobody THEN p.pos[o]
                                     ELSE p.at[p.carriedBy[o]]
  BY <1>2
<1>4. q = [p EXCEPT !.pos = where]
  BY DEF Synced
<1>5. where \in [Packages -> Floor]
  <2>1. \A o \in Packages : where[o] \in Floor
    BY <1>1, <1>3 DEF Situations
  <2>2. QED
    BY <2>1
<1> HIDE DEF where, q
<1>6. /\ q \in Situations /\ q.at = p.at /\ q.pos = where /\ q.delivered = p.delivered
      /\ q.count = p.count /\ q.carriedBy = p.carriedBy /\ q.carrying = p.carrying
      /\ q.holders = p.holders
  BY <1>1, <1>4, <1>5 DEF Situations
<1>7. \A o \in p.delivered \cup {Heavy} : where[o] = p.pos[o]
  BY <1>1, <1>3 DEF Situations, Sound, Packages
<1>8. Keeps(p, q)
  BY <1>6, <1>7 DEF Keeps, Rests, Sound
<1>9. Together(q)
  BY <1>3, <1>6 DEF Together
<1>10. QED
  BY <1>6, <1>7, <1>8, <1>9 DEF q

\* A delivery and a reward leave everything where it is.
LEMMA AutoDeliveredKeeps ==
  ASSUME NEW p, Sound(p)
  PROVE  LET q == AutoDelivered(p)
         IN  /\ Keeps(p, q) /\ q.at = p.at /\ q.holders = p.holders /\ q.pos = p.pos
             /\ q.carriedBy = p.carriedBy
<1> DEFINE paid == [a \in Agents |-> IF a \in p.holders THEN p.pay[a] + 2000 ELSE p.pay[a]]
           more == p.delivered \cup {Heavy}
           arrives == /\ Heavy \in Targets \ p.delivered /\ p.carriedBy[Heavy] = Nobody
                      /\ p.holders # {} /\ p.pos[Heavy] \in Zone
           q == AutoDelivered(p)
<1>1. p \in Situations
  BY DEF Sound
<1>2. CASE ~arrives
  <2>1. q = p
    BY <1>2 DEF AutoDelivered
  <2>2. QED
    BY <2>1 DEF Keeps, Rests
<1>3. CASE arrives
  <2>1. q = [p EXCEPT !.delivered = more, !.count = p.count + 1, !.pay = paid]
    BY <1>1, <1>3 DEF AutoDelivered, Situations
  <2>2. paid \in [Agents -> Int] /\ more \in SUBSET Packages /\ p.count + 1 \in Nat
    BY <1>1 DEF Situations, Packages
  <2>3. Cardinality(more) = p.count + 1
    BY <1>1, <1>3, Counting DEF Situations, Sound, Packages
  <2>4. more \subseteq Targets /\ (\A o \in more : p.pos[o] \in Zone)
        /\ \A o \in Packages : p.carriedBy[o] # Nobody => o \in Light \ more
    BY <1>3 DEF Sound
  <2>5. p.delivered \subseteq more
    OBVIOUS
  <2> HIDE DEF paid, more, q
  <2>6. /\ q \in Situations /\ q.at = p.at /\ q.pos = p.pos /\ q.delivered = more
        /\ q.count = p.count + 1 /\ q.carriedBy = p.carriedBy /\ q.carrying = p.carrying
        /\ q.holders = p.holders
    BY <1>1, <2>1, <2>2 DEF Situations
  <2>7. Keeps(p, q)
    BY <2>3, <2>4, <2>5, <2>6 DEF Keeps, Rests, Sound
  <2>8. QED
    BY <2>6, <2>7 DEF q
<1>4. QED
  BY <1>2, <1>3

LEMMA RewardedKeeps ==
  ASSUME NEW p, Sound(p)
  PROVE  LET q == Rewarded(p)
         IN  Keeps(p, q) /\ SameBut(p, q) /\ q.at = p.at
<1> DEFINE paid == [a \in Agents |-> p.pay[a] + 1000]
           q == Rewarded(p)
<1>1. p \in Situations
  BY DEF Sound
<1>2. CASE ~AllDelivered(p)
  BY <1>2 DEF Rewarded, Keeps, Rests, SameBut
<1>3. CASE AllDelivered(p)
  <2>1. q = [p EXCEPT !.pay = paid] /\ paid \in [Agents -> Int]
    BY <1>1, <1>3 DEF Rewarded, Situations
  <2> HIDE DEF paid, q
  <2>2. q \in Situations /\ SameBut(p, q) /\ q.at = p.at
    BY <1>1, <2>1 DEF Situations, SameBut
  <2>3. Keeps(p, q)
    BY <2>2 DEF Keeps, Rests, Sound, SameBut
  <2>4. QED
    BY <2>2, <2>3 DEF q
<1>4. QED
  BY <1>2, <1>3

-----------------------------------------------------------------------------
(* The whole step                                                          *)

\* After the walks of both agents.
LEMMA WalksKeep ==
  ASSUME NEW p, Sound(p), NEW look \in [Agents -> Directions], NEW joint \in [Agents -> Actions]
  PROVE  LET q == Travelled(Travelled(p, look, joint, Agent0), look, joint, Agent1)
         IN  /\ Keeps(p, q) /\ SameBut(p, q)
             /\ FullHold(p) => q.at = p.at
             /\ \A b \in Agents : q.at[b] = p.at[b] \/ q.at[b] = Ahead(p.at[b], look[b])
<1>1. ASSUME NEW r, Sound(r), NEW a \in Agents
      PROVE  LET q == Travelled(r, look, joint, a)
             IN  /\ Keeps(r, q) /\ SameBut(r, q)
                 /\ FullHold(r) => q.at = r.at
                 /\ \A b \in Agents :
                      q.at[b] = r.at[b] \/ (b = a /\ q.at[b] = Ahead(r.at[b], look[b]))
  <2>1. CASE joint[a] = "move_forward"
    BY <1>1, <2>1, MovedKeeps DEF Travelled
  <2>2. CASE joint[a] # "move_forward"
    BY <1>1, <2>2 DEF Travelled, Keeps, Rests, SameBut
  <2>3. QED
    BY <2>1, <2>2
<1> DEFINE r == Travelled(p, look, joint, Agent0)
           q == Travelled(r, look, joint, Agent1)
<1>2. /\ Keeps(p, r) /\ SameBut(p, r) /\ (FullHold(p) => r.at = p.at)
      /\ \A b \in Agents : r.at[b] = p.at[b] \/ (b = Agent0 /\ r.at[b] = Ahead(p.at[b], look[b]))
  BY <1>1 DEF Agents
<1>3. /\ Keeps(r, q) /\ SameBut(r, q) /\ (FullHold(r) => q.at = r.at)
      /\ \A b \in Agents : q.at[b] = r.at[b] \/ (b = Agent1 /\ q.at[b] = Ahead(r.at[b], look[b]))
  BY <1>1, <1>2 DEF Agents, Keeps
<1> HIDE DEF r, q
<1>4. Keeps(p, q) /\ SameBut(p, q) /\ (FullHold(p) => q.at = p.at)
  BY <1>2, <1>3, KeepsTransitive DEF SameBut, FullHold
<1>5. \A b \in Agents : q.at[b] = p.at[b] \/ q.at[b] = Ahead(p.at[b], look[b])
  BY <1>2, <1>3
<1>6. QED
  BY <1>4, <1>5 DEF q, r

\* After the picks and drops of both agents.
LEMMA HandsKeep ==
  ASSUME NEW p, Sound(p), NEW look \in [Agents -> Directions], NEW joint \in [Agents -> Actions]
  PROVE  LET q == Handled(Handled(p, look, joint, Agent0), look, joint, Agent1)
         IN  /\ Keeps(p, q) /\ q.at = p.at /\ q.pos[Heavy] = p.pos[Heavy]
             /\ (\A a \in Agents : joint[a] = "move_forward") => q = p
<1>1. ASSUME NEW r, Sound(r), NEW a \in Agents
      PROVE  LET q == Handled(r, look, joint, a)
             IN  /\ Keeps(r, q) /\ q.at = r.at /\ q.pos[Heavy] = r.pos[Heavy]
                 /\ joint[a] = "move_forward" => q = r
  <2>1. CASE joint[a] = "pick"
    BY <1>1, <2>1, PickedKeeps DEF Handled
  <2>2. CASE joint[a] = "drop"
    BY <1>1, <2>2, DroppedKeeps DEF Handled
  <2>3. CASE joint[a] \notin {"pick", "drop"}
    BY <1>1, <2>3 DEF Handled, Keeps, Rests
  <2>4. QED
    BY <2>1, <2>2, <2>3
<1> DEFINE r == Handled(p, look, joint, Agent0)
           q == Handled(r, look, joint, Agent1)
<1>2. /\ Keeps(p, r) /\ r.at = p.at /\ r.pos[Heavy] = p.pos[Heavy]
      /\ joint[Agent0] = "move_forward" => r = p
  BY <1>1 DEF Agents
<1>3. /\ Keeps(r, q) /\ q.at = r.at /\ q.pos[Heavy] = r.pos[Heavy]
      /\ joint[Agent1] = "move_forward" => q = r
  BY <1>1, <1>2 DEF Agents, Keeps
<1> HIDE DEF r, q
<1>4. Keeps(p, q) /\ q.at = p.at /\ q.pos[Heavy] = p.pos[Heavy]
  BY <1>2, <1>3, KeepsTransitive
<1>5. (\A a \in Agents : joint[a] = "move_forward") => q = p
  BY <1>2, <1>3 DEF Agents
<1>6. QED
  BY <1>4, <1>5 DEF q, r

\* Synchronisation, delivery and reward.
LEMMA CloseKeeps ==
  ASSUME NEW p, Sound(p)
  PROVE  LET q == Rewarded(AutoDelivered(Synced(p)))
         IN  /\ Keeps(p, q) /\ Together(q) /\ q.at = p.at /\ q.holders = p.holders
             /\ q.pos[Heavy] = p.pos[Heavy]
<1> DEFINE s == Synced(p)
           d == AutoDelivered(s)
           q == Rewarded(d)
<1>1. /\ Keeps(p, s) /\ Together(s) /\ s.at = p.at /\ s.holders = p.holders
      /\ s.pos[Heavy] = p.pos[Heavy]
  BY SyncedKeeps
<1>2. /\ Keeps(s, d) /\ d.at = s.at /\ d.holders = s.holders /\ d.pos = s.pos
      /\ d.carriedBy = s.carriedBy
  BY <1>1, AutoDeliveredKeeps DEF Keeps
<1>3. Keeps(d, q) /\ SameBut(d, q) /\ q.at = d.at
  BY <1>2, RewardedKeeps DEF Keeps
<1> HIDE DEF s, d, q
<1>4. Keeps(p, q)
  BY <1>1, <1>2, <1>3, KeepsTransitive
<1>5. Together(q)
  BY <1>1, <1>2, <1>3 DEF Together, SameBut
<1>6. QED
  BY <1>1, <1>2, <1>3, <1>4, <1>5 DEF SameBut, q, d, s

\* How a step may change the hold.
Rigid(p, q) ==
  /\ \A a \in Agents : Distance(p.at[a], q.at[a]) <= 1
  /\ q.pos[Heavy] # p.pos[Heavy] => p.holders = Agents /\ q.holders = Agents
  /\ p.holders = Agents => \A a \in Agents :
       Offset(q.at[a], q.pos[Heavy]) = Offset(p.at[a], p.pos[Heavy])

LEMMA StepKeeps ==
  ASSUME Sound(Situation), facing \in [Agents -> Directions], NEW joint \in [Agents -> Actions]
  PROVE  LET q == Resolved(joint)
         IN  Keeps(Situation, q) /\ Together(q) /\ Rigid(Situation, q)
<1> DEFINE look == Looks(joint)
           p == Situation
           p1 == Travelled(Travelled(p, look, joint, Agent0), look, joint, Agent1)
           p2 == Handled(Handled(p1, look, joint, Agent0), look, joint, Agent1)
           p3 == CarriedJointly(p2, look, joint)
           q == Rewarded(AutoDelivered(Synced(p3)))
<1>1. look \in [Agents -> Directions] /\ p \in Situations
  BY LooksTyped DEF Sound
<1>2. q = Resolved(joint)
  BY DEF Resolved
<1> HIDE DEF look
<1>3. /\ Keeps(p, p1) /\ SameBut(p, p1) /\ (FullHold(p) => p1.at = p.at)
      /\ \A b \in Agents : p1.at[b] = p.at[b] \/ p1.at[b] = Ahead(p.at[b], look[b])
  BY <1>1, WalksKeep
<1>4. /\ Keeps(p1, p2) /\ p2.at = p1.at /\ p2.pos[Heavy] = p1.pos[Heavy]
      /\ (\A a \in Agents : joint[a] = "move_forward") => p2 = p1
  BY <1>1, <1>3, HandsKeep DEF Keeps
<1> HIDE DEF p, p1, p2, p3, q
<1>5. \A a \in Agents : p.at[a] \in Int \X Int /\ look[a] \in Directions
  BY <1>1 DEF Situations
<1>6. p.pos[Heavy] \in Int \X Int
  BY <1>1 DEF Situations, Packages
<1>7. CASE JointMoves(p2, look, joint)
  <2> DEFINE d == look[Agent0]
  <2>1. p2 = p1 /\ FullHold(p1)
    BY <1>4, <1>7 DEF JointMoves
  <2>2. FullHold(p) /\ p1.at = p.at /\ p1.pos = p.pos
    BY <1>3, <2>1 DEF FullHold, SameBut
  <2>3. /\ Keeps(p2, p3) /\ p3.holders = p2.holders
        /\ p3.at = [a \in Agents |-> Ahead(p2.at[a], d)]
        /\ p3.pos[Heavy] = Ahead(p2.pos[Heavy], d)
    BY <1>1, <1>4, <1>7, CarriedJointlyKeeps DEF Keeps, p3
  <2>4. /\ Keeps(p3, q) /\ Together(q) /\ q.at = p3.at /\ q.holders = p3.holders
        /\ q.pos[Heavy] = p3.pos[Heavy]
    BY <2>3, CloseKeeps DEF Keeps, q
  <2>5. Keeps(p, q)
    BY <1>3, <1>4, <2>3, <2>4, KeepsTransitive
  <2>6. d \in Directions
    BY <1>5 DEF Agents
  <2>7. \A a \in Agents : q.at[a] = Ahead(p.at[a], d)
    BY <2>1, <2>2, <2>3, <2>4
  <2>8. q.pos[Heavy] = Ahead(p.pos[Heavy], d)
    BY <2>1, <2>2, <2>3, <2>4
  <2>9. \A a \in Agents : /\ Distance(p.at[a], q.at[a]) = 1
                          /\ Offset(q.at[a], q.pos[Heavy]) = Offset(p.at[a], p.pos[Heavy])
    BY <1>5, <1>6, <2>6, <2>7, <2>8, AheadCells
  <2>10. Rigid(p, q)
    BY <2>1, <2>2, <2>3, <2>4, <2>9 DEF Rigid, FullHold
  <2>11. QED
    BY <1>2, <2>4, <2>5, <2>10 DEF p
<1>8. CASE ~JointMoves(p2, look, joint)
  <2>1. p3 = p2
    BY <1>8 DEF CarriedJointly, p3
  <2>2. /\ Keeps(p2, q) /\ Together(q) /\ q.at = p2.at /\ q.holders = p2.holders
        /\ q.pos[Heavy] = p2.pos[Heavy]
    BY <1>4, <2>1, CloseKeeps DEF Keeps, q
  <2>3. Keeps(p, q)
    BY <1>3, <1>4, <2>2, KeepsTransitive
  <2>4. \A a \in Agents : q.at[a] = p.at[a] \/ q.at[a] = Ahead(p.at[a], look[a])
    BY <1>3, <1>4, <2>2
  <2>5. \A a \in Agents : Distance(p.at[a], q.at[a]) \in {0, 1}
    BY <1>5, <2>4, AheadCells, NoDistance
  <2>6. q.pos[Heavy] = p.pos[Heavy] /\ (p.holders = Agents => q.at = p.at)
    BY <1>3, <1>4, <2>2 DEF SameBut, FullHold
  <2>7. Rigid(p, q)
    BY <2>5, <2>6 DEF Rigid
  <2>8. QED
    BY <1>2, <2>2, <2>3, <2>7 DEF p
<1>9. QED
  BY <1>7, <1>8

-----------------------------------------------------------------------------
(* The theorems                                                            *)

TransportInv == TypeOK /\ AgentsApart /\ RecordsAgree

LEMMA InvIsSound ==
  ASSUME TransportInv
  PROVE  Sound(Situation) /\ Situation.delivered = delivered /\ Situation.pos = pos
         /\ Situation.at = at /\ Situation.holders = holders
  BY DEF TransportInv, TypeOK, AgentsApart, RecordsAgree, CarryingAgrees, DeliveriesCount,
         Situation, Situations, Sound

LEMMA InitTransportInv == Init => TransportInv
<1> SUFFICES ASSUME Init PROVE TransportInv
  OBVIOUS
<1> USE PlacementAssumption
<1>1. TypeOK
  BY DEF Init, TypeOK, Directions
<1>2. AgentsApart
  BY DEF Init, AgentsApart
<1>3. CarryingAgrees
  BY DEF Init, CarryingAgrees
<1>4. DeliveriesCount
  BY FS_EmptySet DEF Init, DeliveriesCount
<1>5. QED
  BY <1>1, <1>2, <1>3, <1>4 DEF TransportInv, RecordsAgree

LEMMA TransportInvStep ==
  ASSUME TransportInv, [Next]_worldVars
  PROVE  /\ TransportInv'
         /\ \A o \in delivered : o \in delivered' /\ pos'[o] = pos[o] /\ carriedBy'[o] = Nobody
         /\ \A a \in Agents : Distance(at[a], at'[a]) <= 1
         /\ pos'[Heavy] # pos[Heavy] => holders = Agents /\ holders' = Agents
         /\ holders = Agents => \A a \in Agents :
              Offset(at'[a], pos'[Heavy]) = Offset(at[a], pos[Heavy])
<1>1. ASSUME NEW joint \in [Agents -> Actions], Step(joint)
      PROVE  TransportInv' /\ Rests(Situation, Resolved(joint)) /\ Rigid(Situation, Resolved(joint))
             /\ at' = Resolved(joint).at /\ pos' = Resolved(joint).pos
             /\ holders' = Resolved(joint).holders /\ delivered' = Resolved(joint).delivered
             /\ (\A o \in delivered' : carriedBy'[o] = Nobody)
  <2> DEFINE q == Resolved(joint)
  <2>1. facing \in [Agents -> Directions]
    BY DEF TransportInv, TypeOK
  <2>2. Keeps(Situation, q) /\ Together(q) /\ Rigid(Situation, q)
    BY <2>1, InvIsSound, StepKeeps
  <2>3. /\ facing' = Looks(joint)
        /\ at' = q.at /\ carrying' = q.carrying /\ carriedBy' = q.carriedBy
        /\ pos' = q.pos /\ holders' = q.holders
        /\ delivered' = q.delivered /\ count' = q.count
        /\ terminated' = AllDelivered(q) /\ truncated' \in BOOLEAN
    BY <1>1 DEF Step
  <2> HIDE DEF q
  <2>4. Sound(q) /\ q \in Situations
    BY <2>2 DEF Keeps, Sound
  <2>5. TypeOK'
    <3>1. facing' \in [Agents -> Directions]
      BY <2>1, <2>3, LooksTyped
    <3>2. terminated' \in BOOLEAN
      BY <2>3 DEF AllDelivered
    <3>3. QED
      BY <2>3, <2>4, <3>1, <3>2 DEF TypeOK, Situations
  <2>6. AgentsApart'
    BY <2>3, <2>4 DEF AgentsApart, Sound
  <2>7. CarryingAgrees'
    BY <2>2, <2>3, <2>4 DEF CarryingAgrees, Sound, Together
  <2>8. DeliveriesCount'
    BY <2>3, <2>4 DEF DeliveriesCount, Sound, AllDelivered
  <2>9. \A o \in delivered' : carriedBy'[o] = Nobody
    BY <2>3, <2>4 DEF Sound, Situations
  <2>10. QED
    BY <2>2, <2>3, <2>5, <2>6, <2>7, <2>8, <2>9 DEF TransportInv, RecordsAgree, Keeps, q
<1>2. CASE \E joint \in [Agents -> Actions] : Step(joint)
  <2>1. PICK joint \in [Agents -> Actions] : Step(joint)
    BY <1>2
  <2> DEFINE q == Resolved(joint)
  <2>2. TransportInv' /\ Rests(Situation, q) /\ Rigid(Situation, q)
        /\ at' = q.at /\ pos' = q.pos /\ holders' = q.holders /\ delivered' = q.delivered
        /\ (\A o \in delivered' : carriedBy'[o] = Nobody)
    BY <1>1, <2>1
  <2> HIDE DEF q
  <2>3. QED
    BY <2>2, InvIsSound DEF Rests, Rigid
<1>3. CASE UNCHANGED worldVars
  <2>1. TransportInv'
    BY <1>3 DEF worldVars, TransportInv, TypeOK, AgentsApart, RecordsAgree, CarryingAgrees,
                DeliveriesCount
  <2>2. \A o \in delivered : carriedBy[o] = Nobody
    BY DEF TransportInv, TypeOK, RecordsAgree, CarryingAgrees
  <2>3. \A a \in Agents : at[a] \in Int \X Int
    BY DEF TransportInv, TypeOK
  <2>4. QED
    BY <1>3, <2>1, <2>2, <2>3, NoDistance DEF worldVars
<1>4. QED
  BY <1>2, <1>3 DEF Next, Ended

LEMMA TransportCorrect == Spec => []TransportInv
<1>1. TransportInv /\ [Next]_worldVars => TransportInv'
  BY TransportInvStep
<1>2. QED
  BY <1>1, InitTransportInv, PTL DEF Spec

\* Every reachable state is well typed: walls and packages hold the agents back.
THEOREM TransportTypes == Spec => []TypeOK
<1>1. TransportInv => TypeOK
  BY DEF TransportInv
<1>2. QED
  BY <1>1, TransportCorrect, PTL

\* No sequence of walks and joint moves puts both agents into one cell.
THEOREM TransportApart == Spec => []AgentsApart
<1>1. TransportInv => AgentsApart
  BY DEF TransportInv
<1>2. QED
  BY <1>1, TransportCorrect, PTL

\* What the agents, the packages and the episode record of one another always agrees.
THEOREM RecordsCorrect == Spec => []RecordsAgree
<1>1. TransportInv => RecordsAgree
  BY DEF TransportInv
<1>2. QED
  BY <1>1, TransportCorrect, PTL

\* A delivered package stays where it was delivered, whoever still holds it.
THEOREM DeliveriesRest == Spec => DeliveredRests
<1>1. TransportInv /\ [Next]_worldVars =>
        [\A o \in delivered : o \in delivered' /\ pos'[o] = pos[o] /\ carriedBy'[o] = Nobody]_worldVars
  BY TransportInvStep
<1>2. QED
  BY <1>1, TransportCorrect, PTL DEF Spec, DeliveredRests

\* The heavy package and both holders move as one body or not at all.
THEOREM HoldsAreRigid == Spec => HoldIsRigid
<1>1. TransportInv /\ [Next]_worldVars =>
        [/\ \A a \in Agents : Distance(at[a], at'[a]) <= 1
         /\ pos'[Heavy] # pos[Heavy] => holders = Agents /\ holders' = Agents
         /\ holders = Agents => \A a \in Agents :
              Offset(at'[a], pos'[Heavy]) = Offset(at[a], pos[Heavy])
        ]_worldVars
  BY TransportInvStep
<1>2. QED
  BY <1>1, TransportCorrect, PTL DEF Spec, HoldIsRigid

-----------------------------------------------------------------------------
(* The rewards                                                             *)

LEMMA AheadElsewhere == \A c \in Int \X Int, d \in Directions : Ahead(c, d) # c
<1> SUFFICES ASSUME NEW c \in Int \X Int, NEW d \in Directions PROVE Ahead(c, d) # c
  OBVIOUS
<1>1. Distance(c, Ahead(c, d)) = 1 /\ Distance(c, c) = 0
  BY AheadCells, NoDistance
<1>2. QED
  BY <1>1

\* What its own walk costs an agent, and that it costs nobody else.
LEMMA WalkPays ==
  ASSUME NEW p, Sound(p), NEW look \in [Agents -> Directions], NEW joint \in [Agents -> Actions],
         NEW a \in Agents
  PROVE  LET q == Travelled(p, look, joint, a)
         IN  /\ \A b \in Agents \ {a} : q.pay[b] = p.pay[b] /\ q.at[b] = p.at[b]
             /\ joint[a] # "move_forward" \/ FullHold(p) => q = p
             /\ joint[a] = "move_forward" /\ ~FullHold(p) =>
                  \/ q.at[a] # p.at[a] /\ q.pay[a] = p.pay[a]
                  \/ q.at[a] = p.at[a] /\ q.pay[a] = p.pay[a] - 10
<1> DEFINE cell == Ahead(p.at[a], look[a])
           q == Travelled(p, look, joint, a)
<1>1. p \in Situations
  BY DEF Sound
<1>2. CASE joint[a] # "move_forward" \/ FullHold(p)
  BY <1>2 DEF Travelled, Moved
<1>3. CASE joint[a] = "move_forward" /\ ~FullHold(p) /\ FreeForAgent(p, a, cell)
  <2>1. q = [p EXCEPT !.at[a] = cell]
    BY <1>3 DEF Travelled, Moved
  <2>2. q.at = [p.at EXCEPT ![a] = cell] /\ q.pay = p.pay
    BY <1>1, <2>1 DEF Situations
  <2>3. cell # p.at[a]
    BY <1>1, FloorCells, AheadElsewhere DEF Situations
  <2> HIDE DEF q
  <2>4. QED
    BY <1>1, <1>3, <2>2, <2>3 DEF Situations, q
<1>4. CASE joint[a] = "move_forward" /\ ~FullHold(p) /\ ~FreeForAgent(p, a, cell)
  <2>1. q = Pay(p, a, -10)
    BY <1>4 DEF Travelled, Moved
  <2>2. q.at = p.at /\ q.pay = [p.pay EXCEPT ![a] = @ + (-10)]
    BY <1>1, <2>1 DEF Situations, Pay
  <2> HIDE DEF q
  <2>3. q.pay[a] = p.pay[a] - 10
    BY <1>1, <2>2 DEF Situations
  <2>4. QED
    BY <1>1, <1>4, <2>2, <2>3 DEF Situations, q
<1>5. QED
  BY <1>2, <1>3, <1>4

LEMMA WalksPay ==
  ASSUME NEW p, Sound(p), NEW look \in [Agents -> Directions], NEW joint \in [Agents -> Actions],
         NEW a \in Agents
  PROVE  LET q == Travelled(Travelled(p, look, joint, Agent0), look, joint, Agent1)
         IN  IF joint[a] = "move_forward" /\ ~FullHold(p)
             THEN \/ q.at[a] # p.at[a] /\ q.pay[a] = p.pay[a]
                  \/ q.at[a] = p.at[a] /\ q.pay[a] = p.pay[a] - 10
             ELSE q.at[a] = p.at[a] /\ q.pay[a] = p.pay[a]
<1> DEFINE r == Travelled(p, look, joint, Agent0)
           q == Travelled(r, look, joint, Agent1)
<1>1. Sound(r) /\ SameBut(p, r)
  <2>1. CASE joint[Agent0] = "move_forward"
    BY <2>1, MovedKeeps DEF Travelled, Keeps, Agents
  <2>2. CASE joint[Agent0] # "move_forward"
    BY <2>2 DEF Travelled, SameBut
  <2>3. QED
    BY <2>1, <2>2
<1> DEFINE Walks(u, v, b, c) ==
             /\ v.pay[c] = u.pay[c] /\ v.at[c] = u.at[c]
             /\ joint[b] # "move_forward" \/ FullHold(u) => v = u
             /\ joint[b] = "move_forward" /\ ~FullHold(u) =>
                  \/ v.at[b] # u.at[b] /\ v.pay[b] = u.pay[b]
                  \/ v.at[b] = u.at[b] /\ v.pay[b] = u.pay[b] - 10
<1>a. ASSUME NEW u, Sound(u), NEW b \in Agents, NEW c \in Agents \ {b}
      PROVE  Walks(u, Travelled(u, look, joint, b), b, c)
  <2> DEFINE v == Travelled(u, look, joint, b)
  <2>1. /\ \A e \in Agents \ {b} : v.pay[e] = u.pay[e] /\ v.at[e] = u.at[e]
        /\ joint[b] # "move_forward" \/ FullHold(u) => v = u
        /\ joint[b] = "move_forward" /\ ~FullHold(u) =>
             \/ v.at[b] # u.at[b] /\ v.pay[b] = u.pay[b]
             \/ v.at[b] = u.at[b] /\ v.pay[b] = u.pay[b] - 10
    BY <1>a, WalkPays
  <2> HIDE DEF v
  <2>2. Walks(u, v, b, c)
    BY <1>a, <2>1
  <2>3. QED
    BY <2>2 DEF v
<1> HIDE DEF Walks
<1>2. Walks(p, r, Agent0, Agent1)
  BY <1>a, CastAssumption DEF Agents
<1>3. Walks(r, q, Agent1, Agent0)
  BY <1>a, <1>1, CastAssumption DEF Agents
<1>4. FullHold(r) <=> FullHold(p)
  BY <1>1 DEF SameBut, FullHold
<1> HIDE DEF r, q
<1>5. CASE a = Agent0
  BY <1>2, <1>3, <1>5 DEF q, r, Walks
<1>6. CASE a = Agent1
  BY <1>2, <1>3, <1>4, <1>6 DEF q, r, Walks
<1>7. QED
  BY <1>5, <1>6 DEF Agents

\* What its hands earn an agent.
Earned(p, q, action, a) ==
  /\ action \notin {"pick", "drop"} =>
       /\ q.pay[a] = p.pay[a] /\ q.carrying[a] = p.carrying[a]
       /\ a \in q.holders <=> a \in p.holders
  /\ action = "pick" =>
       \/ /\ q.pay[a] = p.pay[a] /\ q.carrying[a] = p.carrying[a]
          /\ a \in q.holders <=> a \in p.holders
       \/ /\ q.pay[a] = p.pay[a] + 10 /\ q.carrying[a] # p.carrying[a]
          /\ a \in q.holders <=> a \in p.holders
       \/ /\ q.pay[a] = p.pay[a] + 5 /\ q.carrying[a] = p.carrying[a]
          /\ a \in q.holders \ p.holders
  /\ action = "drop" =>
       \/ q.pay[a] = p.pay[a] + 2000 /\ p.carrying[a] \in q.delivered \ p.delivered
       \/ q.pay[a] = p.pay[a] /\ p.carrying[a] \notin q.delivered \ p.delivered

\* What an agent's hands leave alone: the other agent, and what that one carries.
Aside(p, q, b) ==
  /\ q.pay[b] = p.pay[b] /\ q.carrying[b] = p.carrying[b]
  /\ b \in q.holders <=> b \in p.holders
  /\ p.carrying[b] \notin q.delivered \ p.delivered

LEMMA PickPays ==
  ASSUME NEW p, Sound(p), NEW look \in [Agents -> Directions], NEW a \in Agents
  PROVE  LET q == Picked(p, look, a)
         IN  /\ Earned(p, q, "pick", a) /\ \A b \in Agents \ {a} : Aside(p, q, b)
             /\ q.delivered \ p.delivered \subseteq {p.carrying[a]}
<1> DEFINE front == Ahead(p.at[a], look[a])
           inReach == {o \in Packages \ p.delivered : p.carriedBy[o] = Nobody /\ p.pos[o] = front}
           o == Min(inReach)
           q == Picked(p, look, a)
<1>1. p \in Situations
  BY DEF Sound
<1>2. CASE q = p
  BY <1>2 DEF Earned, Aside
<1>3. CASE p.carrying[a] = Nothing /\ inReach # {} /\ o \in Light
  <2>1. q = Pay([p EXCEPT !.carriedBy[o] = a, !.carrying[a] = o], a, 10)
    BY <1>3 DEF Picked
  <2>2. o # Nothing
    BY <1>3, CastAssumption DEF Packages
  <2> HIDE DEF o
  <2>3. /\ q.pay = [p.pay EXCEPT ![a] = @ + 10] /\ q.carrying = [p.carrying EXCEPT ![a] = o]
        /\ q.holders = p.holders /\ q.delivered = p.delivered
    BY <1>1, <2>1 DEF Pay, Situations
  <2> HIDE DEF q
  <2>4. QED
    BY <1>1, <1>3, <2>2, <2>3 DEF Situations, Earned, Aside, q
<1>4. CASE /\ p.carrying[a] = Nothing /\ inReach # {} /\ o \notin Light /\ a \notin p.holders
  <2>1. q = Pay([p EXCEPT !.holders = @ \cup {a}], a, 5)
    BY <1>4 DEF Picked
  <2>2. /\ q.pay = [p.pay EXCEPT ![a] = @ + 5] /\ q.carrying = p.carrying
        /\ q.holders = p.holders \cup {a} /\ q.delivered = p.delivered
    BY <1>1, <2>1 DEF Pay, Situations
  <2> HIDE DEF q, o
  <2>3. QED
    BY <1>1, <1>4, <2>2 DEF Situations, Earned, Aside, q
<1>5. QED
  BY <1>2, <1>3, <1>4 DEF Picked

LEMMA DropPays ==
  ASSUME NEW p, Sound(p), NEW a \in Agents
  PROVE  LET q == Dropped(p, a)
         IN  /\ Earned(p, q, "drop", a) /\ \A b \in Agents \ {a} : Aside(p, q, b)
             /\ q.delivered \ p.delivered \subseteq {p.carrying[a]}
<1> DEFINE o == p.carrying[a]
           laid == [p EXCEPT !.pos[o] = p.at[a], !.carriedBy[o] = Nobody, !.carrying[a] = Nothing]
           q == Dropped(p, a)
<1>1. p \in Situations
  BY DEF Sound
<1>2. CASE o = Nothing
  <2>1. q = [p EXCEPT !.holders = @ \ {a}]
    BY <1>2 DEF Dropped
  <2>2. /\ q.pay = p.pay /\ q.carrying = p.carrying /\ q.delivered = p.delivered
        /\ q.holders = p.holders \ {a}
    BY <1>1, <2>1 DEF Situations
  <2> HIDE DEF q
  <2>3. QED
    BY <2>2 DEF Earned, Aside, q
<1>3. CASE o # Nothing /\ o \in Targets \ p.delivered /\ p.at[a] \in Zone
  <2>1. q = Pay([laid EXCEPT !.delivered = @ \cup {o}, !.count = @ + 1], a, 2000)
    BY <1>3 DEF Dropped
  <2>2. \A b \in Agents \ {a} : p.carrying[b] # o
    <3>1. o \in Packages
      BY <1>3, CastAssumption
    <3>2. QED
      BY <3>1 DEF Sound
  <2> HIDE DEF o
  <2>3. /\ q.pay = [p.pay EXCEPT ![a] = @ + 2000]
        /\ q.carrying = [p.carrying EXCEPT ![a] = Nothing]
        /\ q.holders = p.holders /\ q.delivered = p.delivered \cup {o}
    BY <1>1, <2>1 DEF Pay, Situations
  <2> HIDE DEF q, laid
  <2>4. QED
    BY <1>1, <1>3, <2>2, <2>3 DEF Situations, Earned, Aside, q, o
<1>4. CASE o # Nothing /\ ~(o \in Targets \ p.delivered /\ p.at[a] \in Zone)
  <2>1. q = laid
    BY <1>4 DEF Dropped
  <2> HIDE DEF o
  <2>2. /\ q.pay = p.pay /\ q.carrying = [p.carrying EXCEPT ![a] = Nothing]
        /\ q.holders = p.holders /\ q.delivered = p.delivered
    BY <1>1, <2>1 DEF Situations
  <2> HIDE DEF q
  <2>3. QED
    BY <1>1, <2>2 DEF Situations, Earned, Aside, q
<1>5. QED
  BY <1>2, <1>3, <1>4

LEMMA HandsPay ==
  ASSUME NEW p, Sound(p), NEW look \in [Agents -> Directions], NEW joint \in [Agents -> Actions]
  PROVE  LET q == Handled(Handled(p, look, joint, Agent0), look, joint, Agent1)
         IN  \A a \in Agents : Earned(p, q, joint[a], a)
<1>1. ASSUME NEW r, Sound(r), NEW a \in Agents
      PROVE  LET q == Handled(r, look, joint, a)
             IN  /\ Earned(r, q, joint[a], a) /\ \A b \in Agents \ {a} : Aside(r, q, b)
                 /\ q.delivered \ r.delivered \subseteq {r.carrying[a]} /\ Keeps(r, q)
  <2>1. CASE joint[a] = "pick"
    BY <1>1, <2>1, PickPays, PickedKeeps DEF Handled
  <2>2. CASE joint[a] = "drop"
    BY <1>1, <2>2, DropPays, DroppedKeeps DEF Handled
  <2>3. CASE joint[a] \notin {"pick", "drop"}
    BY <1>1, <2>3 DEF Handled, Earned, Aside, Keeps, Rests
  <2>4. QED
    BY <2>1, <2>2, <2>3
<1> DEFINE r == Handled(p, look, joint, Agent0)
           q == Handled(r, look, joint, Agent1)
<1>2. Earned(p, r, joint[Agent0], Agent0) /\ Aside(p, r, Agent1) /\ Keeps(p, r)
  BY <1>1, CastAssumption DEF Agents
<1>3. /\ Earned(r, q, joint[Agent1], Agent1) /\ Aside(r, q, Agent0) /\ Keeps(r, q)
      /\ q.delivered \ r.delivered \subseteq {r.carrying[Agent1]}
  BY <1>1, <1>2, CastAssumption DEF Agents, Keeps
<1> HIDE DEF r, q
<1>4. p.delivered \subseteq r.delivered /\ r.delivered \subseteq q.delivered
  BY <1>2, <1>3 DEF Keeps, Rests
<1>5. Earned(p, q, joint[Agent1], Agent1)
  BY <1>2, <1>3, <1>4 DEF Earned, Aside
<1>6. Earned(p, q, joint[Agent0], Agent0)
  <2>1. p.carrying[Agent0] \notin q.delivered \ r.delivered
    <3>1. r.carrying[Agent1] = p.carrying[Agent1]
      BY <1>2 DEF Aside
    <3>2. q.delivered \ r.delivered \subseteq Packages
      BY <1>3 DEF Keeps, Sound, Situations
    <3>3. \A o \in Packages : p.carrying[Agent0] = o => p.carrying[Agent1] # o
      BY CastAssumption DEF Sound, Agents
    <3>4. QED
      BY <1>3, <3>1, <3>2, <3>3
  <2>2. QED
    BY <1>2, <1>3, <1>4, <2>1 DEF Earned, Aside
<1>7. QED
  BY <1>5, <1>6 DEF Agents, q, r

\* The heavy package is never in the zone undelivered: it gets there in the hands of both.
HeavyDelivered(p) == Heavy \in Targets /\ p.pos[Heavy] \in Zone => Heavy \in p.delivered

\* The end of a step pays for deliveries alone.
LEMMA ClosePays ==
  ASSUME NEW p, Sound(p)
  PROVE  LET q == Rewarded(AutoDelivered(Synced(p)))
         IN  /\ q.carrying = p.carrying
             /\ \A a \in Agents : q.pay[a] >= p.pay[a]
             /\ HeavyDelivered(p) \/ p.holders # {} => HeavyDelivered(q)
             /\ HeavyDelivered(p) /\ ~AllDelivered(q) =>
                  q.pay = p.pay /\ q.delivered = p.delivered
<1> DEFINE s == Synced(p)
           d == AutoDelivered(s)
           q == Rewarded(d)
           arrives == /\ Heavy \in Targets \ s.delivered /\ s.carriedBy[Heavy] = Nobody
                      /\ s.holders # {} /\ s.pos[Heavy] \in Zone
<1>1. /\ s.pay = p.pay /\ s.carrying = p.carrying /\ s.delivered = p.delivered
      /\ s.carriedBy = p.carriedBy
  BY DEF Synced, Sound, Situations
<1>2. /\ Keeps(p, s) /\ s.pos[Heavy] = p.pos[Heavy] /\ s.holders = p.holders
  BY SyncedKeeps
<1>3. s \in Situations /\ s.carriedBy[Heavy] = Nobody
  BY <1>2 DEF Keeps, Sound, Packages
<1> HIDE DEF s
<1>4. Sound(d) /\ d \in Situations /\ d.pos = s.pos
  BY <1>2, AutoDeliveredKeeps DEF Keeps, Sound
<1>5. CASE arrives
  <2>1. /\ Heavy \in d.delivered /\ d.carrying = s.carrying
        /\ d.pay = [a \in Agents |-> IF a \in s.holders THEN s.pay[a] + 2000 ELSE s.pay[a]]
    BY <1>3, <1>5 DEF AutoDelivered, Situations
  <2> HIDE DEF d
  <2>2. \A a \in Agents : d.pay[a] >= s.pay[a]
    BY <1>3, <2>1 DEF Situations
  <2>3. ~HeavyDelivered(p)
    BY <1>1, <1>2, <1>5 DEF HeavyDelivered
  <2>4. q.delivered = d.delivered /\ q.pos = d.pos /\ q.carrying = d.carrying
    BY <1>4 DEF Rewarded, Situations
  <2>5. \A a \in Agents : q.pay[a] >= d.pay[a]
    BY <1>4 DEF Rewarded, Situations
  <2>a. q \in Situations
    BY <1>4, RewardedKeeps DEF Keeps, Sound
  <2> HIDE DEF q
  <2>6. \A a \in Agents : q.pay[a] \in Int /\ d.pay[a] \in Int /\ s.pay[a] \in Int
    BY <1>3, <1>4, <2>a DEF Situations
  <2>7. \A a \in Agents : q.pay[a] >= p.pay[a]
    BY <1>1, <2>2, <2>5, <2>6
  <2>8. QED
    BY <1>1, <2>1, <2>3, <2>4, <2>7 DEF HeavyDelivered, q, d, s
<1>6. CASE ~arrives
  <2>1. d = s
    BY <1>6 DEF AutoDelivered
  <2>2. HeavyDelivered(p) \/ p.holders # {} => HeavyDelivered(s)
    BY <1>1, <1>2, <1>3, <1>6 DEF HeavyDelivered
  <2> HIDE DEF d
  <2>3. q.delivered = s.delivered /\ q.pos = s.pos /\ q.carrying = s.carrying
    BY <1>3, <2>1 DEF Rewarded, Situations
  <2>4. \A a \in Agents : q.pay[a] >= s.pay[a]
    BY <1>3, <2>1 DEF Rewarded, Situations
  <2>5. ~AllDelivered(q) => q.pay = s.pay
    BY <2>1, <2>3 DEF Rewarded, AllDelivered
  <2> HIDE DEF q
  <2>6. QED
    BY <1>1, <2>2, <2>3, <2>4, <2>5 DEF HeavyDelivered, q, d, s
<1>7. QED
  BY <1>5, <1>6

\* What an agent reads in its reward, of the step from p to q.
Tells(p, q, joint, a) ==
  /\ joint[a] = "move_forward" =>
       /\ q.at[a] # p.at[a] => ReadsMoved(q.pay[a])
       /\ p.holders # Agents /\ ReadsMoved(q.pay[a]) => q.at[a] # p.at[a]
  /\ joint[a] = "pick" =>
       /\ ReadsCarried(q.pay[a]) <=> q.carrying[a] # p.carrying[a]
       /\ ReadsLatched(q.pay[a]) <=> a \in q.holders \ p.holders
  /\ joint[a] = "drop" =>
       (ReadsDelivered(q.pay[a]) <=> p.carrying[a] \in q.delivered \ p.delivered)

LEMMA StepPays ==
  ASSUME Sound(Situation), HeavyDelivered(Situation), facing \in [Agents -> Directions],
         NEW joint \in [Agents -> Actions]
  PROVE  LET q == Resolved(joint)
         IN  /\ HeavyDelivered(q)
             /\ ~AllDelivered(q) => \A a \in Agents : Tells(Situation, q, joint, a)
<1> DEFINE look == Looks(joint)
           p == Situation
           p1 == Travelled(Travelled(p, look, joint, Agent0), look, joint, Agent1)
           p2 == Handled(Handled(p1, look, joint, Agent0), look, joint, Agent1)
           p3 == CarriedJointly(p2, look, joint)
           q == Rewarded(AutoDelivered(Synced(p3)))
<1>1. /\ look \in [Agents -> Directions] /\ p \in Situations
      /\ \A a \in Agents : p.pay[a] = -1
  BY LooksTyped DEF Sound, Situation
<1>2. q = Resolved(joint)
  BY DEF Resolved
<1> HIDE DEF look
<1>3. Keeps(p, p1) /\ SameBut(p, p1) /\ (FullHold(p) => p1.at = p.at)
  BY <1>1, WalksKeep
<1>4. \A a \in Agents :
        IF joint[a] = "move_forward" /\ ~FullHold(p)
        THEN \/ p1.at[a] # p.at[a] /\ p1.pay[a] = p.pay[a]
             \/ p1.at[a] = p.at[a] /\ p1.pay[a] = p.pay[a] - 10
        ELSE p1.at[a] = p.at[a] /\ p1.pay[a] = p.pay[a]
  BY <1>1, WalksPay
<1>5. /\ Keeps(p1, p2) /\ p2.at = p1.at /\ p2.pos[Heavy] = p1.pos[Heavy]
      /\ (\A a \in Agents : joint[a] = "move_forward") => p2 = p1
  BY <1>1, <1>3, HandsKeep DEF Keeps
<1>6. \A a \in Agents : Earned(p1, p2, joint[a], a)
  BY <1>1, <1>3, HandsPay DEF Keeps
<1> HIDE DEF p, p1, p2, p3, q
<1>7. HeavyDelivered(p2)
  BY <1>3, <1>5 DEF HeavyDelivered, SameBut, Keeps, Rests, p
<1>8. CASE JointMoves(p2, look, joint)
  <2>1. p2 = p1 /\ FullHold(p1)
    BY <1>5, <1>8 DEF JointMoves
  <2>2. FullHold(p) /\ \A a \in Agents : joint[a] = "move_forward"
    BY <1>3, <1>8, <2>1 DEF FullHold, SameBut, JointMoves
  <2>3. Keeps(p2, p3) /\ p3.holders = p2.holders
    BY <1>1, <1>5, <1>8, CarriedJointlyKeeps DEF Keeps, p3
  <2>4. \A a \in Agents : p3.pay[a] = p2.pay[a] + 20
    BY <1>5, <1>8 DEF CarriedJointly, Keeps, Sound, Situations, p3
  <2>5. HeavyDelivered(q) /\ \A a \in Agents : q.pay[a] >= p3.pay[a]
    <3>1. p3.holders # {}
      BY <2>1, <2>3 DEF FullHold, Agents
    <3>2. QED
      BY <2>3, <3>1, ClosePays DEF Keeps, q
  <2>6. \A a \in Agents : p3.pay[a] = 19
    BY <1>1, <1>4, <2>1, <2>2, <2>4
  <2>7. \A a \in Agents : q.pay[a] \in Int
    <3>1. q \in Situations
      BY <2>3, CloseKeeps DEF Keeps, Sound, q
    <3>2. QED
      BY <3>1 DEF Situations
  <2>8. \A a \in Agents : ReadsMoved(q.pay[a])
    BY <2>5, <2>6, <2>7 DEF ReadsMoved
  <2>9. \A a \in Agents : Tells(p, q, joint, a)
    BY <2>2, <2>8 DEF Tells, FullHold
  <2>10. QED
    BY <1>2, <2>5, <2>9 DEF p
<1>9. CASE ~JointMoves(p2, look, joint)
  <2>1. p3 = p2
    BY <1>9 DEF CarriedJointly, p3
  <2>2. Keeps(p2, q) /\ q.at = p2.at /\ q.holders = p2.holders
    BY <1>5, <2>1, CloseKeeps DEF Keeps, q
  <2>3. /\ HeavyDelivered(q) /\ q.carrying = p2.carrying
        /\ ~AllDelivered(q) => q.pay = p2.pay /\ q.delivered = p2.delivered
    BY <1>5, <1>7, <2>1, ClosePays DEF Keeps, q
  <2>4. ASSUME ~AllDelivered(q), NEW a \in Agents
        PROVE  Tells(p, q, joint, a)
    <3>1. q.pay[a] = p2.pay[a] /\ q.delivered = p2.delivered
      BY <2>3, <2>4
    <3>2. Earned(p1, p2, joint[a], a)
      BY <1>6
    <3>3. /\ p.carrying[a] = p1.carrying[a] /\ p.holders = p1.holders
          /\ p.delivered = p1.delivered
      BY <1>3 DEF SameBut
    <3>4. CASE joint[a] = "move_forward"
      <4>1. q.pay[a] = p1.pay[a] /\ q.at[a] = p1.at[a]
        BY <1>5, <2>2, <3>1, <3>2, <3>4 DEF Earned
      <4>2. p.pay[a] = -1
        BY <1>1
      <4>3. q.at[a] # p.at[a] => q.pay[a] = -1
        BY <1>4, <4>1, <4>2
      <4>4. p.holders # Agents /\ q.at[a] = p.at[a] => q.pay[a] = -11
        <5> SUFFICES ASSUME p.holders # Agents, q.at[a] = p.at[a] PROVE q.pay[a] = -11
          OBVIOUS
        <5>1. p1.at[a] = p.at[a] /\ ~FullHold(p)
          BY <4>1 DEF FullHold
        <5>2. p1.pay[a] = p.pay[a] - 10
          BY <1>4, <3>4, <5>1
        <5>3. QED
          BY <4>1, <4>2, <5>2
      <4>5. QED
        BY <3>4, <4>3, <4>4 DEF Tells, ReadsMoved
    <3>5. CASE joint[a] # "move_forward"
      <4>1. p1.pay[a] = -1
        BY <1>1, <1>4, <3>5
      <4>2. CASE joint[a] = "pick"
        <5>a. Earned(p1, p2, "pick", a)
          BY <3>2, <4>2
        <5>1. \/ /\ q.pay[a] = -1 /\ q.carrying[a] = p.carrying[a]
                 /\ a \in q.holders <=> a \in p.holders
              \/ /\ q.pay[a] = 9 /\ q.carrying[a] # p.carrying[a]
                 /\ a \in q.holders <=> a \in p.holders
              \/ /\ q.pay[a] = 4 /\ q.carrying[a] = p.carrying[a]
                 /\ a \in q.holders \ p.holders
          BY <2>2, <2>3, <3>1, <3>3, <4>1, <5>a DEF Earned
        <5>2. QED
          BY <4>2, <5>1 DEF Tells, ReadsCarried, ReadsLatched
      <4>3. CASE joint[a] = "drop"
        <5>a. Earned(p1, p2, "drop", a)
          BY <3>2, <4>3
        <5>1. \/ q.pay[a] = 1999 /\ p.carrying[a] \in q.delivered \ p.delivered
              \/ q.pay[a] = -1 /\ p.carrying[a] \notin q.delivered \ p.delivered
          BY <3>1, <3>3, <4>1, <5>a DEF Earned
        <5>2. QED
          BY <4>3, <5>1 DEF Tells, ReadsDelivered
      <4>4. CASE joint[a] \notin {"pick", "drop"}
        BY <3>5, <4>4 DEF Tells
      <4>5. QED
        BY <4>2, <4>3, <4>4
    <3>6. QED
      BY <3>4, <3>5
  <2>5. QED
    BY <1>2, <2>3, <2>4 DEF p
<1>10. QED
  BY <1>8, <1>9

\* Until the last target is delivered every reward reads as what its agent's own action
\* did, in every reachable state and for every joint action.
THEOREM RewardsTrue == Spec => []RewardsTell
<1> DEFINE HeavyIn == HeavyDelivered(Situation)
<1>1. Init => HeavyIn
  BY PlacementAssumption DEF Init, HeavyDelivered, Situation, Packages
<1>2. ASSUME TransportInv, HeavyIn
      PROVE  \A joint \in [Agents -> Actions] :
               /\ HeavyDelivered(Resolved(joint))
               /\ ~AllDelivered(Resolved(joint)) =>
                    \A a \in Agents : Tells(Situation, Resolved(joint), joint, a)
  <2>1. Sound(Situation) /\ facing \in [Agents -> Directions]
    BY <1>2, InvIsSound DEF TransportInv, TypeOK
  <2>2. QED
    BY <1>2, <2>1, StepPays
<1>3. TransportInv /\ HeavyIn => RewardsTell
  <2>1. /\ Situation.at = at /\ Situation.holders = holders /\ Situation.carrying = carrying
        /\ Situation.delivered = delivered
    BY DEF Situation
  <2>2. QED
    BY <1>2, <2>1 DEF RewardsTell, Tells
<1>4. TransportInv /\ HeavyIn /\ [Next]_worldVars => HeavyIn'
  <2>1. CASE \E joint \in [Agents -> Actions] : Step(joint)
    <3> SUFFICES ASSUME TransportInv, HeavyIn PROVE HeavyIn'
      BY <2>1
    <3>1. PICK joint \in [Agents -> Actions] : Step(joint)
      BY <2>1
    <3>2. HeavyDelivered(Resolved(joint))
      BY <1>2
    <3>3. pos' = Resolved(joint).pos /\ delivered' = Resolved(joint).delivered
      BY <3>1 DEF Step
    <3>4. QED
      BY <3>2, <3>3 DEF HeavyDelivered, Situation
  <2>2. CASE UNCHANGED worldVars
    BY <2>2 DEF worldVars, HeavyDelivered, Situation
  <2>3. QED
    BY <2>1, <2>2 DEF Next, Ended
<1>5. QED
  BY <1>1, <1>3, <1>4, TransportCorrect, PTL DEF Spec

=============================================================================
