------------------------- MODULE BoxPushWorld_proofs -------------------------
(***************************************************************************)
(* Theorems about BoxPushWorld for an arena of any size, any zone and any  *)
(* number of boxes of any weight.                                          *)
(***************************************************************************)
EXTENDS BoxPushWorld, TLAPS

USE AgentsAssumption, SizeAssumption, RequiredAssumption, ZoneAssumption

-----------------------------------------------------------------------------
(* Geometry                                                                *)

LEMMA FloorCells == \A cell \in Floor : cell \in Int \X Int
  BY DEF Floor

LEMMA TowardCells ==
  ASSUME NEW cell \in Int \X Int, NEW d \in Directions
  PROVE  /\ Ahead(cell, d) # cell
         /\ Ahead(Toward(cell, d, -1), d) = cell
         /\ Ahead(Toward(cell, d, -2), d) = Toward(cell, d, -1)
<1>1. PICK x \in Int, y \in Int : cell = <<x, y>>
  OBVIOUS
<1> USE DEF Ahead, Toward, RIGHT, LEFT, DOWN, UP
<1>2. CASE d = RIGHT
  BY <1>1, <1>2
<1>3. CASE d = LEFT
  BY <1>1, <1>3
<1>4. CASE d = DOWN
  BY <1>1, <1>4
<1>5. CASE d = UP
  BY <1>1, <1>5
<1>6. QED
  BY <1>2, <1>3, <1>4, <1>5 DEF Directions

-----------------------------------------------------------------------------
(* One movement                                                            *)

Placements == [at : [Agents -> Floor], box : [Boxes -> Floor], shown : SUBSET Floor]

\* NoOverlap of a placement in the middle of a step.
Apart(p) ==
  /\ p.at[Agent0] # p.at[Agent1]
  /\ \A b \in Boxes \ delivered :
       /\ \A a \in Agents : p.box[b] # p.at[a]
       /\ \A c \in Boxes \ delivered : b # c => p.box[b] # p.box[c]

\* A movement keeps the pieces on the floor and apart, and moves no ghost.
Keeps(p, q) ==
  /\ q \in Placements
  /\ Apart(q)
  /\ \A b \in delivered \cap Boxes : q.box[b] = p.box[b]

LEMMA AdvanceKeeps ==
  ASSUME NEW p \in Placements, Apart(p), NEW a \in Agents, NEW cell \in Floor,
         FreeForAgent(p, a, cell)
  PROVE  Keeps(p, Advance(p, a, cell))
<1> DEFINE q == Advance(p, a, cell)
<1>1. /\ q \in Placements /\ q.box = p.box
      /\ q.at = [p.at EXCEPT ![a] = cell]
  BY DEF Advance, Placements
<1>2. q.at[a] = cell /\ \A o \in Agents \ {a} : q.at[o] = p.at[o]
  BY <1>1 DEF Placements
<1>3. Apart(q)
  BY <1>1, <1>2 DEF Apart, FreeForAgent, BoxesAt, Agents
<1>4. QED
  BY <1>1, <1>3 DEF Keeps

LEMMA PushKeeps ==
  ASSUME NEW p \in Placements, Apart(p), NEW a \in Agents, NEW b \in Boxes \ delivered,
         NEW land \in Floor, FreeForBox(p, land), land # p.box[b]
  PROVE  Keeps(p, Advance(SlideBox(p, b, land), a, p.box[b]))
<1> DEFINE q == Advance(SlideBox(p, b, land), a, p.box[b])
<1>0. p.box[b] \in Floor
  BY DEF Placements
<1>1. /\ q \in Placements
      /\ q.box = [p.box EXCEPT ![b] = land]
      /\ q.at = [p.at EXCEPT ![a] = p.box[b]]
  BY <1>0 DEF Advance, SlideBox, Placements
<1>2. /\ q.at[a] = p.box[b] /\ \A o \in Agents \ {a} : q.at[o] = p.at[o]
      /\ q.box[b] = land /\ \A c \in Boxes \ {b} : q.box[c] = p.box[c]
  BY <1>1 DEF Placements
<1>3. Apart(q)
  BY <1>2 DEF Apart, FreeForBox, BoxesAt, Agents
<1>4. QED
  BY <1>1, <1>2, <1>3 DEF Keeps

LEMMA MoveOneKeeps ==
  ASSUME NEW p \in Placements, Apart(p), NEW look \in [Agents -> Directions],
         NEW a \in Agents
  PROVE  Keeps(p, MoveOne(p, look, a))
<1> DEFINE cell == Ahead(p.at[a], look[a])
           land == Ahead(cell, look[a])
<1>1. Keeps(p, p)
  BY DEF Keeps
<1>2. CASE BoxesAt(p, cell) = {}
  <2>1. FreeForAgent(p, a, cell) => cell \in Floor
    BY DEF FreeForAgent
  <2>2. QED
    BY <1>1, <1>2, <2>1, AdvanceKeeps DEF MoveOne
<1>3. CASE BoxesAt(p, cell) # {}
  <2> DEFINE b == CHOOSE b \in BoxesAt(p, cell) : TRUE
  <2>1. b \in Boxes \ delivered /\ p.box[b] = cell
    BY <1>3 DEF BoxesAt
  <2>2. cell \in Floor /\ cell \in Int \X Int /\ look[a] \in Directions
    BY <2>1, FloorCells DEF Placements
  <2>3. land # p.box[b]
    BY <2>1, <2>2, TowardCells
  <2>4. FreeForBox(p, land) => land \in Floor
    BY DEF FreeForBox
  <2>5. FreeForBox(p, land) => Keeps(p, Advance(SlideBox(p, b, land), a, cell))
    <3> HIDE DEF b, land, cell
    <3> QED
      BY <2>1, <2>3, <2>4, PushKeeps
  <2>6. QED
    BY <1>1, <1>3, <2>5 DEF MoveOne
<1>4. QED
  BY <1>2, <1>3

LEMMA KeepsTransitive ==
  ASSUME NEW p, NEW q, NEW r, Keeps(p, q), Keeps(q, r)
  PROVE  Keeps(p, r)
  BY DEF Keeps

LEMMA TandemPushKeeps ==
  ASSUME NEW p \in Placements, Apart(p), NEW look \in [Agents -> Directions],
         NEW movers \in SUBSET Agents, NEW t \in Tandems(p, look, movers)
  PROVE  Keeps(p, TandemPush(p, look, t))
<1> DEFINE b == t[1]
           d == look[t[2]]
           to == Ahead(p.box[b], d)
           q == TandemPush(p, look, t)
<1>1. /\ b \in Boxes \ delivered /\ t[2] \in Agents /\ t[3] \in Agents /\ t[2] # t[3]
      /\ p.at[t[2]] = Toward(p.box[b], d, -1)
      /\ p.at[t[3]] = Toward(p.box[b], d, -2)
      /\ FreeForBox(p, to)
  BY DEF Tandems, Tandem
<1>2. d \in Directions /\ p.box[b] \in Floor /\ p.box[b] \in Int \X Int
  BY <1>1, FloorCells DEF Placements
<1>3. /\ to # p.box[b]
      /\ Ahead(p.at[t[2]], d) = p.box[b]
      /\ Ahead(p.at[t[3]], d) = p.at[t[2]]
  BY <1>1, <1>2, TowardCells
<1>4. Agents = {t[2], t[3]}
  BY <1>1 DEF Agents
<1>5. \A a \in Agents : Ahead(p.at[a], d) \in Floor
  BY <1>1, <1>2, <1>3, <1>4 DEF Placements
<1>6. to \in Floor
  BY <1>1 DEF FreeForBox
<1> DEFINE at2 == [a \in Agents |-> Ahead(p.at[a], d)]
<1>7. at2 \in [Agents -> Floor]
  BY <1>5
<1>8. q = SlideBox([p EXCEPT !.at = at2], b, to)
  BY DEF TandemPush
<1>9. q \in Placements /\ q.at = at2 /\ q.box = [p.box EXCEPT ![b] = to]
  <2> DEFINE m == [p EXCEPT !.at = at2]
  <2>1. m \in Placements /\ m.at = at2 /\ m.box = p.box
    <3> HIDE DEF at2
    <3> QED
      BY <1>7 DEF Placements
  <2>2. b \in Boxes /\ q = SlideBox(m, b, to)
    BY <1>1, <1>8
  <2> HIDE DEF at2, to, b, m, q
  <2>3. q.at = m.at /\ q.box = [m.box EXCEPT ![b] = to]
    BY <2>1, <2>2 DEF SlideBox, Placements
  <2>4. q \in Placements
    BY <1>6, <2>1, <2>2 DEF SlideBox, Placements
  <2>5. QED
    BY <2>1, <2>3, <2>4
<1>10. /\ q.at[t[2]] = p.box[b] /\ q.at[t[3]] = p.at[t[2]]
       /\ q.box[b] = to /\ \A c \in Boxes \ {b} : q.box[c] = p.box[c]
  BY <1>1, <1>3, <1>9 DEF Placements
<1>11. Apart(q)
  <2>1. q.at[Agent0] # q.at[Agent1]
    BY <1>1, <1>4, <1>10 DEF Apart, Agents
  <2>2. \A c \in Boxes \ delivered, a \in Agents : q.box[c] # q.at[a]
    BY <1>1, <1>3, <1>4, <1>10 DEF Apart, FreeForBox
  <2>3. \A c, e \in Boxes \ delivered : c # e => q.box[c] # q.box[e]
    BY <1>1, <1>10 DEF Apart, FreeForBox, BoxesAt
  <2>4. QED
    BY <2>1, <2>2, <2>3 DEF Apart
<1>12. QED
  BY <1>1, <1>9, <1>10, <1>11 DEF Keeps

LEMMA ResolveKeeps ==
  ASSUME NEW p \in Placements, Apart(p), NEW look \in [Agents -> Directions],
         NEW movers \in SUBSET Agents
  PROVE  Keeps(p, ResolvePushes(p, look, movers))
<1>1. CASE Tandems(p, look, movers) # {}
  BY <1>1, TandemPushKeeps DEF ResolvePushes
<1>2. CASE Tandems(p, look, movers) = {}
  <2>1. ASSUME NEW q \in Placements, Apart(q), NEW a \in Agents
        PROVE  Keeps(q, MoveIf(q, look, movers, a))
    BY <2>1, MoveOneKeeps DEF MoveIf, Keeps
  <2> DEFINE q == MoveIf(p, look, movers, Agent0)
             r == MoveIf(q, look, movers, Agent1)
  <2>2. Keeps(p, q)
    BY <2>1 DEF Agents
  <2>3. q \in Placements /\ Apart(q)
    BY <2>2 DEF Keeps
  <2>4. Keeps(q, r)
    <3> HIDE DEF q
    <3> QED
      BY <2>1, <2>3 DEF Agents
  <2>5. Keeps(p, r)
    BY <2>2, <2>4, KeepsTransitive
  <2>6. QED
    BY <1>2, <2>5 DEF ResolvePushes
<1>3. QED
  BY <1>1, <1>2

-----------------------------------------------------------------------------
(* The drawn grid                                                          *)

\* GridTracksWorld of a placement in the middle of a step.
Drawn(p) ==
  /\ \A b \in Boxes \ delivered : p.box[b] \in p.shown
  /\ \A a \in Agents : p.at[a] \notin p.shown
  /\ p.shown \subseteq {p.box[b] : b \in Boxes}

LEMMA AdvanceDrawn ==
  ASSUME NEW p \in Placements, Drawn(p), NEW a \in Agents, NEW cell \in Floor,
         FreeForAgent(p, a, cell)
  PROVE  Drawn(Advance(p, a, cell))
<1> DEFINE q == Advance(p, a, cell)
<1>1. q.box = p.box /\ q.at = [p.at EXCEPT ![a] = cell] /\ q.shown = p.shown \ {cell}
  BY DEF Advance, Placements
<1> HIDE DEF q
<1>2. \A o \in Agents : q.at[o] \notin q.shown
  BY <1>1 DEF Drawn, Placements
<1>3. \A b \in Boxes \ delivered : q.box[b] \in q.shown
  BY <1>1 DEF Drawn, FreeForAgent, BoxesAt
<1>4. Drawn(q)
  BY <1>1, <1>2, <1>3 DEF Drawn
<1>5. QED
  BY <1>4 DEF q

LEMMA PushDrawn ==
  ASSUME NEW p \in Placements, Apart(p), Drawn(p), NEW a \in Agents,
         NEW b \in Boxes \ delivered, NEW land \in Floor, FreeForBox(p, land), land # p.box[b]
  PROVE  Drawn(Advance(SlideBox(p, b, land), a, p.box[b]))
<1> DEFINE q == Advance(SlideBox(p, b, land), a, p.box[b])
<1>1. /\ q.box = [p.box EXCEPT ![b] = land]
      /\ q.at = [p.at EXCEPT ![a] = p.box[b]]
      /\ q.shown = ((p.shown \ {p.box[b]}) \cup {land}) \ {p.box[b]}
  BY DEF Advance, SlideBox, Placements
<1> HIDE DEF q
<1>2. /\ q.at[a] = p.box[b] /\ \A o \in Agents \ {a} : q.at[o] = p.at[o]
      /\ q.box[b] = land /\ \A c \in Boxes \ {b} : q.box[c] = p.box[c]
  BY <1>1 DEF Placements
<1>3. \A o \in Agents : q.at[o] \notin q.shown
  BY <1>1, <1>2 DEF Drawn, FreeForBox
<1>4. \A c \in Boxes \ delivered : q.box[c] \in q.shown
  BY <1>1, <1>2 DEF Drawn, Apart
<1>5. q.shown \subseteq {q.box[c] : c \in Boxes}
  BY <1>1, <1>2 DEF Drawn
<1>6. Drawn(q)
  BY <1>3, <1>4, <1>5 DEF Drawn
<1>7. QED
  BY <1>6 DEF q

Cells(p) == {p.at[a] : a \in Agents}

LEMMA TandemPushDrawn ==
  ASSUME NEW p \in Placements, Apart(p), Drawn(p), NEW look \in [Agents -> Directions],
         NEW movers \in SUBSET Agents, NEW t \in Tandems(p, look, movers)
  PROVE  LET b == t[1]
             d == look[t[2]]
             q == TandemPush(p, look, t)
         IN  /\ Drawn(q)
             /\ b \in Boxes \ delivered /\ d \in Directions /\ p.box[b] \in Int \X Int
             /\ \A a \in Agents : look[a] = d /\ q.at[a] = Ahead(p.at[a], d)
             /\ q.box = [p.box EXCEPT ![b] = Ahead(p.box[b], d)]
             /\ Cells(q) = {p.box[b], Toward(p.box[b], d, -1)}
<1> DEFINE b == t[1]
           d == look[t[2]]
           to == Ahead(p.box[b], d)
           q == TandemPush(p, look, t)
           at2 == [a \in Agents |-> Ahead(p.at[a], d)]
<1>1. /\ b \in Boxes \ delivered /\ t[2] \in Agents /\ t[3] \in Agents /\ t[2] # t[3]
      /\ look[t[3]] = d
      /\ p.at[t[2]] = Toward(p.box[b], d, -1)
      /\ p.at[t[3]] = Toward(p.box[b], d, -2)
      /\ FreeForBox(p, to)
  BY DEF Tandems, Tandem
<1>2. d \in Directions /\ p.box[b] \in Floor /\ p.box[b] \in Int \X Int
  BY <1>1, FloorCells DEF Placements
<1>3. /\ to # p.box[b]
      /\ Ahead(p.at[t[2]], d) = p.box[b]
      /\ Ahead(p.at[t[3]], d) = p.at[t[2]]
  BY <1>1, <1>2, TowardCells
<1>4. Agents = {t[2], t[3]}
  BY <1>1 DEF Agents
<1>5. q = SlideBox([p EXCEPT !.at = at2], b, to)
  BY DEF TandemPush
<1> HIDE DEF at2, to, b, d, q
<1>6. /\ q.at = at2 /\ q.box = [p.box EXCEPT ![b] = to]
      /\ q.shown = (p.shown \ {p.box[b]}) \cup {to}
  BY <1>5 DEF SlideBox, Placements
<1>7. \A a \in Agents : look[a] = d /\ q.at[a] = Ahead(p.at[a], d)
  BY <1>1, <1>4, <1>6 DEF at2, d
<1>8. /\ q.at[t[2]] = p.box[b] /\ q.at[t[3]] = p.at[t[2]]
      /\ q.box[b] = to /\ \A c \in Boxes \ {b} : q.box[c] = p.box[c]
  BY <1>1, <1>3, <1>6, <1>7 DEF Placements
<1>9. to \notin {p.at[a] : a \in Agents}
  BY <1>1 DEF FreeForBox
<1>10. \A a \in Agents : q.at[a] \notin q.shown
  BY <1>1, <1>3, <1>4, <1>6, <1>8, <1>9 DEF Drawn
<1>11. \A c \in Boxes \ delivered : q.box[c] \in q.shown
  BY <1>1, <1>6, <1>8 DEF Drawn, Apart
<1>12. q.shown \subseteq {q.box[c] : c \in Boxes}
  BY <1>1, <1>6, <1>8 DEF Drawn
<1>13. Drawn(q)
  BY <1>10, <1>11, <1>12 DEF Drawn
<1>14. Cells(q) = {p.box[b], Toward(p.box[b], d, -1)}
  BY <1>1, <1>4, <1>8 DEF Cells
<1>15. QED
  BY <1>1, <1>2, <1>6, <1>7, <1>13, <1>14 DEF b, d, q, to

\* A single mover draws what it moves, and moves light boxes only.
LEMMA MoveOneDrawn ==
  ASSUME NEW p \in Placements, Apart(p), Drawn(p), NEW look \in [Agents -> Directions],
         NEW a \in Agents
  PROVE  LET q == MoveOne(p, look, a)
         IN  Drawn(q) /\ \A c \in Boxes : Required[c] >= 2 => q.box[c] = p.box[c]
<1> DEFINE cell == Ahead(p.at[a], look[a])
           land == Ahead(cell, look[a])
<1>1. CASE MoveOne(p, look, a) = p
  BY <1>1
<1>2. CASE BoxesAt(p, cell) = {} /\ FreeForAgent(p, a, cell)
  <2>1. MoveOne(p, look, a) = Advance(p, a, cell) /\ cell \in Floor
    BY <1>2 DEF MoveOne, FreeForAgent
  <2>2. Advance(p, a, cell).box = p.box
    BY DEF Advance, Placements
  <2> HIDE DEF cell
  <2>3. QED
    BY <1>2, <2>1, <2>2, AdvanceDrawn
<1>3. CASE BoxesAt(p, cell) # {}
  <2> DEFINE b == CHOOSE b \in BoxesAt(p, cell) : TRUE
             q == Advance(SlideBox(p, b, land), a, cell)
  <2>1. b \in Boxes \ delivered /\ p.box[b] = cell
    BY <1>3 DEF BoxesAt
  <2>2. cell \in Floor /\ cell \in Int \X Int /\ look[a] \in Directions
    BY <2>1, FloorCells DEF Placements
  <2>3. land # p.box[b]
    BY <2>1, <2>2, TowardCells
  <2>4. FreeForBox(p, land) => land \in Floor
    BY DEF FreeForBox
  <2>5. MoveOne(p, look, a) = IF Required[b] = 1 /\ FreeForBox(p, land) THEN q ELSE p
    BY <1>3 DEF MoveOne
  <2> HIDE DEF b, land, cell
  <2>6. FreeForBox(p, land) => Drawn(q)
    BY <2>1, <2>3, <2>4, PushDrawn
  <2>7. q.box = [p.box EXCEPT ![b] = land]
    BY DEF Advance, SlideBox, Placements
  <2> HIDE DEF q
  <2>8. CASE Required[b] = 1 /\ FreeForBox(p, land)
    <3>1. MoveOne(p, look, a) = q /\ Drawn(q)
      BY <2>5, <2>6, <2>8
    <3>2. \A c \in Boxes : Required[c] >= 2 => q.box[c] = p.box[c]
      BY <2>1, <2>7, <2>8 DEF Placements
    <3>3. QED
      BY <3>1, <3>2
  <2>9. QED
    BY <1>1, <2>5, <2>8
<1>4. QED
  BY <1>1, <1>2, <1>3 DEF MoveOne

\* What moves a heavy box in one step.
InTandem(p, q, look, c) ==
  LET d == look[Agent0]
  IN  /\ look[Agent1] = d
      /\ q.box[c] = Ahead(p.box[c], d)
      /\ \A a \in Agents : q.at[a] = Ahead(p.at[a], d)
      /\ {q.at[a] : a \in Agents} = {Toward(q.box[c], d, -1), Toward(q.box[c], d, -2)}

LEMMA TowardBack ==
  ASSUME NEW cell \in Int \X Int, NEW d \in Directions
  PROVE  /\ Toward(Ahead(cell, d), d, -1) = cell
         /\ Toward(Ahead(cell, d), d, -2) = Toward(cell, d, -1)
<1>1. PICK x \in Int, y \in Int : cell = <<x, y>>
  OBVIOUS
<1> USE DEF Ahead, Toward, RIGHT, LEFT, DOWN, UP
<1>2. CASE d = RIGHT
  BY <1>1, <1>2
<1>3. CASE d = LEFT
  BY <1>1, <1>3
<1>4. CASE d = DOWN
  BY <1>1, <1>4
<1>5. CASE d = UP
  BY <1>1, <1>5
<1>6. QED
  BY <1>2, <1>3, <1>4, <1>5 DEF Directions

LEMMA ResolveDrawn ==
  ASSUME NEW p \in Placements, Apart(p), Drawn(p), NEW look \in [Agents -> Directions],
         NEW movers \in SUBSET Agents
  PROVE  LET q == ResolvePushes(p, look, movers)
         IN  /\ Drawn(q)
             /\ \A c \in Boxes : Required[c] >= 2 /\ q.box[c] # p.box[c] =>
                  InTandem(p, q, look, c)
<1>1. CASE Tandems(p, look, movers) # {}
  <2>1. PICK t \in Tandems(p, look, movers) :
          ResolvePushes(p, look, movers) = TandemPush(p, look, t)
    BY <1>1 DEF ResolvePushes
  <2> DEFINE b == t[1]
             d == look[t[2]]
             q == TandemPush(p, look, t)
  <2>2. /\ Drawn(q)
        /\ b \in Boxes \ delivered /\ d \in Directions /\ p.box[b] \in Int \X Int
        /\ \A a \in Agents : look[a] = d /\ q.at[a] = Ahead(p.at[a], d)
        /\ q.box = [p.box EXCEPT ![b] = Ahead(p.box[b], d)]
        /\ Cells(q) = {p.box[b], Toward(p.box[b], d, -1)}
    BY TandemPushDrawn
  <2> HIDE DEF b, d, q
  <2>3. look[Agent0] = d /\ look[Agent1] = d
    BY <2>2 DEF Agents
  <2>4. ASSUME NEW c \in Boxes, q.box[c] # p.box[c] PROVE InTandem(p, q, look, c)
    <3>1. c = b /\ q.box[c] = Ahead(p.box[c], d)
      BY <2>2, <2>4 DEF Placements
    <3>2. {q.at[a] : a \in Agents} = {Toward(q.box[c], d, -1), Toward(q.box[c], d, -2)}
      BY <2>2, <3>1, TowardBack DEF Cells
    <3>3. QED
      BY <2>2, <2>3, <3>1, <3>2 DEF InTandem
  <2>5. QED
    BY <2>1, <2>2, <2>4 DEF q
<1>2. CASE Tandems(p, look, movers) = {}
  <2>1. ASSUME NEW q \in Placements, Apart(q), Drawn(q), NEW a \in Agents
        PROVE  LET r == MoveIf(q, look, movers, a)
               IN  /\ Drawn(r) /\ Keeps(q, r)
                   /\ \A c \in Boxes : Required[c] >= 2 => r.box[c] = q.box[c]
    <3>1. CASE a \in movers
      BY <2>1, <3>1, MoveOneDrawn, MoveOneKeeps DEF MoveIf
    <3>2. CASE a \notin movers
      BY <2>1, <3>2 DEF MoveIf, Keeps
    <3>3. QED
      BY <3>1, <3>2
  <2> DEFINE q == MoveIf(p, look, movers, Agent0)
             r == MoveIf(q, look, movers, Agent1)
  <2>2. /\ Drawn(q) /\ Keeps(p, q)
        /\ \A c \in Boxes : Required[c] >= 2 => q.box[c] = p.box[c]
    BY <2>1 DEF Agents
  <2>3. /\ Drawn(r)
        /\ \A c \in Boxes : Required[c] >= 2 => r.box[c] = q.box[c]
    <3> HIDE DEF q
    <3> QED
      BY <2>1, <2>2 DEF Agents, Keeps
  <2>4. ResolvePushes(p, look, movers) = r
    BY <1>2 DEF ResolvePushes
  <2> HIDE DEF q, r
  <2>5. QED
    BY <2>2, <2>3, <2>4
<1>3. QED
  BY <1>1, <1>2

-----------------------------------------------------------------------------
(* The step                                                                *)

WorldInv == TypeOK /\ NoOverlap /\ DeliveredInZone

Here == [at |-> at, box |-> box, shown |-> shown]

LEMMA InitWorldInv == Init => WorldInv
<1> SUFFICES ASSUME Init PROVE WorldInv
  OBVIOUS
<1>1. TypeOK
  BY StartAssumption DEF Init, TypeOK, LEFT, Directions
<1>2. NoOverlap
  BY StartAssumption DEF Init, NoOverlap, Agents
<1>3. DeliveredInZone
  BY StartAssumption DEF Init, DeliveredInZone
<1>4. QED
  BY <1>1, <1>2, <1>3 DEF WorldInv

LEMMA TurnedDirections ==
  ASSUME NEW d \in Directions, NEW action
  PROVE  Turned(d, action) \in Directions
  BY DEF Turned, Directions, RIGHT, DOWN, LEFT, UP

\* What a step does, in terms of the placement it ends in.
LEMMA StepShape ==
  ASSUME WorldInv, NEW joint \in [Agents -> Actions], Step(joint)
  PROVE  \E p : /\ Keeps(Here, p)
                /\ at' = p.at /\ box' = p.box /\ shown' = p.shown
                /\ delivered' = delivered \cup {b \in Boxes : box'[b] \in GoalZone}
                /\ facing' \in [Agents -> Directions]
<1>1. facing' \in [Agents -> Directions]
  BY TurnedDirections DEF Step, WorldInv, TypeOK
<1>2. Here \in Placements /\ Apart(Here)
  BY DEF WorldInv, TypeOK, NoOverlap, Here, Placements, Apart
<1> DEFINE movers == {a \in Agents : joint[a] = "move_forward"}
           p == ResolvePushes(Here, facing', movers)
<1>3. Keeps(Here, p)
  <2>1. movers \in SUBSET Agents
    OBVIOUS
  <2> HIDE DEF movers
  <2>2. QED
    BY <1>1, <1>2, <2>1, ResolveKeeps
<1>4. /\ at' = p.at /\ box' = p.box /\ shown' = p.shown
      /\ delivered' = Deliveries(p)
  BY DEF Step, Here
<1>5. delivered' = delivered \cup {b \in Boxes : box'[b] \in GoalZone}
  BY <1>4 DEF Deliveries
<1> HIDE DEF p
<1>6. QED
  BY <1>1, <1>3, <1>4, <1>5

\* A delivered box keeps its place, and delivery is never revoked.
LEMMA StepRests ==
  ASSUME WorldInv, NEW joint \in [Agents -> Actions], Step(joint)
  PROVE  \A b \in delivered : b \in delivered' /\ box'[b] = box[b]
<1>1. PICK p : /\ Keeps(Here, p)
               /\ at' = p.at /\ box' = p.box /\ shown' = p.shown
               /\ delivered' = delivered \cup {b \in Boxes : box'[b] \in GoalZone}
               /\ facing' \in [Agents -> Directions]
  BY StepShape
<1>2. delivered \subseteq Boxes
  BY DEF WorldInv, TypeOK
<1>3. Here.box = box
  BY DEF Here
<1>4. QED
  BY <1>1, <1>2, <1>3 DEF Keeps

LEMMA WorldInvStep == WorldInv /\ [Next]_worldVars => WorldInv'
<1> SUFFICES ASSUME WorldInv, [Next]_worldVars PROVE WorldInv'
  OBVIOUS
<1>1. ASSUME NEW joint \in [Agents -> Actions], Step(joint) PROVE WorldInv'
  <2>1. PICK p : /\ Keeps(Here, p)
                 /\ at' = p.at /\ box' = p.box /\ shown' = p.shown
                 /\ delivered' = delivered \cup {b \in Boxes : box'[b] \in GoalZone}
                 /\ facing' \in [Agents -> Directions]
    BY <1>1, StepShape
  <2>2. delivered \subseteq Boxes /\ delivered \subseteq delivered'
    BY <2>1 DEF WorldInv, TypeOK
  <2>3. TypeOK'
    <3>1. /\ at' \in [Agents -> Floor] /\ box' \in [Boxes -> Floor]
          /\ shown' \subseteq Floor
      BY <2>1 DEF Keeps, Placements
    <3>2. delivered' \subseteq Boxes
      BY <2>1, <2>2
    <3>3. terminated' \in BOOLEAN /\ truncated' \in BOOLEAN
      BY <1>1 DEF Step
    <3>4. QED
      BY <2>1, <3>1, <3>2, <3>3 DEF TypeOK
  <2>4. NoOverlap'
    BY <2>1, <2>2 DEF Keeps, Apart, NoOverlap
  <2>5. DeliveredInZone'
    <3>1. \A b \in delivered : box'[b] \in GoalZone
      BY <1>1, <2>2, StepRests DEF WorldInv, DeliveredInZone
    <3>2. \A b \in Boxes : b \in delivered' <=> box'[b] \in GoalZone
      BY <2>1, <3>1
    <3>3. terminated' <=> Boxes # {} /\ delivered' = Boxes
      BY <1>1 DEF Step
    <3>4. QED
      BY <3>2, <3>3 DEF DeliveredInZone
  <2>6. QED
    BY <2>3, <2>4, <2>5 DEF WorldInv
<1>2. CASE UNCHANGED worldVars
  BY <1>2 DEF worldVars, WorldInv, TypeOK, NoOverlap, DeliveredInZone
<1>3. QED
  BY <1>1, <1>2 DEF Next, Ended

LEMMA WorldCorrect == Spec => []WorldInv
  BY InitWorldInv, WorldInvStep, PTL DEF Spec

\* No interleaving of turns, moves and pushes within a step puts two pieces that
\* collide into one cell, or a piece into a wall.
THEOREM WorldNoOverlap == Spec => [](TypeOK /\ NoOverlap)
<1>1. WorldInv => TypeOK /\ NoOverlap
  BY DEF WorldInv
<1>2. QED
  BY <1>1, WorldCorrect, PTL

\* Delivery by position is exact: the flag, the place and the end of the episode
\* agree after every step.
THEOREM DeliveryExact == Spec => []DeliveredInZone
<1>1. WorldInv => DeliveredInZone
  BY DEF WorldInv
<1>2. QED
  BY <1>1, WorldCorrect, PTL

\* Ghosts rest: a delivered box is never moved or taken back.
THEOREM GhostsRest == Spec => DeliveredRests
<1>1. WorldInv /\ [Next]_worldVars =>
        [\A b \in delivered : b \in delivered' /\ box'[b] = box[b]]_worldVars
  BY StepRests DEF Next, Ended
<1>2. QED
  BY <1>1, WorldCorrect, PTL DEF Spec, DeliveredRests

-----------------------------------------------------------------------------
(* The grid and the heavy boxes                                            *)

LEMMA DrawnHere == WorldInv /\ GridTracksWorld => Drawn(Here)
  BY DEF WorldInv, TypeOK, GridTracksWorld, Divergence, Drawn, Here

\* A step keeps the drawing true, and moves a heavy box in a tandem only.
LEMMA StepDraws ==
  ASSUME WorldInv, GridTracksWorld, NEW joint \in [Agents -> Actions], Step(joint)
  PROVE  /\ GridTracksWorld'
         /\ \A b \in Boxes : Required[b] >= 2 /\ box'[b] # box[b] =>
              LET d == facing'[Agent0]
              IN  /\ facing'[Agent1] = d
                  /\ box'[b] = Ahead(box[b], d)
                  /\ \A a \in Agents : at'[a] = Ahead(at[a], d)
                  /\ {at'[a] : a \in Agents} = {Toward(box'[b], d, -1), Toward(box'[b], d, -2)}
<1>1. facing' \in [Agents -> Directions]
  BY TurnedDirections DEF Step, WorldInv, TypeOK
<1>2. Here \in Placements /\ Apart(Here) /\ Drawn(Here)
  BY DrawnHere DEF WorldInv, TypeOK, NoOverlap, Here, Placements, Apart
<1> DEFINE movers == {a \in Agents : joint[a] = "move_forward"}
           p == ResolvePushes(Here, facing', movers)
<1>3. /\ Drawn(p)
      /\ \A c \in Boxes : Required[c] >= 2 /\ p.box[c] # Here.box[c] =>
           InTandem(Here, p, facing', c)
  <2>1. movers \in SUBSET Agents
    OBVIOUS
  <2> HIDE DEF movers
  <2>2. QED
    BY <1>1, <1>2, <2>1, ResolveDrawn
<1>4. at' = p.at /\ box' = p.box /\ shown' = p.shown /\ delivered' = Deliveries(p)
  BY <1>1 DEF Step, Here
<1>5. Here.box = box /\ Here.at = at
  BY DEF Here
<1> HIDE DEF p
<1>6. GridTracksWorld'
  <2>1. delivered \subseteq delivered'
    BY <1>4 DEF Deliveries
  <2>2. QED
    BY <1>3, <1>4, <2>1 DEF GridTracksWorld, Divergence, Drawn
<1>7. QED
  BY <1>3, <1>4, <1>5, <1>6 DEF InTandem

\* No order of moves, slides and erased markers makes the drawn grid lose a piece or show
\* one that is not there: the diagnostic never fires on this world.
THEOREM GridTracks == Spec => []GridTracksWorld
<1>1. Init => GridTracksWorld
  BY StartAssumption DEF Init, GridTracksWorld, Divergence
<1>2. WorldInv /\ GridTracksWorld /\ [Next]_worldVars => GridTracksWorld'
  <2>1. CASE UNCHANGED worldVars
    BY <2>1 DEF worldVars, GridTracksWorld, Divergence
  <2>2. QED
    BY <2>1, StepDraws DEF Next, Ended
<1>3. QED
  BY <1>1, <1>2, WorldCorrect, PTL DEF Spec

\* A heavy box is moved by two agents in line and of one mind, or not at all.
THEOREM HeavyInTandem == Spec => HeavyMovesInTandem
<1>1. WorldInv /\ GridTracksWorld /\ [Next]_worldVars =>
        [\A b \in Boxes : Required[b] >= 2 /\ box'[b] # box[b] =>
           LET d == facing'[Agent0]
           IN  /\ facing'[Agent1] = d
               /\ box'[b] = Ahead(box[b], d)
               /\ \A a \in Agents : at'[a] = Ahead(at[a], d)
               /\ {at'[a] : a \in Agents} = {Toward(box'[b], d, -1), Toward(box'[b], d, -2)}
        ]_worldVars
  BY StepDraws DEF Next, Ended
<1>2. QED
  BY <1>1, WorldCorrect, GridTracks, PTL DEF Spec, HeavyMovesInTandem

=============================================================================
