------------------------- MODULE OutputWindow_proof -------------------------
(***************************************************************************)
(* The window's stage keeps the promise of StageOutput, for any number of  *)
(* takes, templates, channels, edits and faults.  Sound says how the       *)
(* player follows the state accepted last: only a fresh step may put a     *)
(* graphic up, and a fresh step is for the graphic asked for.  Agree says  *)
(* that a take keeps its template, wherever its states are.                *)
(***************************************************************************)
EXTENDS OutputWindow, TLAPS, FiniteSetTheorems

\* The graphic a state asks for.
Ref     == [take : Takes, tpl : Templates]
Want(g) == IF g = None \/ g.phase = "out" THEN None
           ELSE [take |-> g.take, tpl |-> g.tpl]
Shown(p) == IF p.current = None THEN None
            ELSE [take |-> p.current.take, tpl |-> p.current.tpl]

\* Player p follows the wish w.
Sound(p, w) ==
  /\ p \in Player
  /\ p.steps # {} => p.data # None
  /\ w = None => p.current = None
  /\ w # None => p.last = w.take
  /\ \A s \in p.steps : s.fresh =>
       /\ w # None /\ s.take = w.take /\ s.tpl = w.tpl
       /\ s.kind = "swap" => p.current # None /\ p.current.tpl = s.tpl

\* Take n was given template f[n], and state g is of such a take.
Fits(f, g) == g # None => g.take <= taken /\ f[g.take] = g.tpl

Agree(f) ==
  /\ \A c \in Channels : Fits(f, air[c])
  /\ \A i \in DOMAIN toWindow :
       toWindow[i].type = "state" => Fits(f, toWindow[i].state)
  /\ Fits(f, latest)

Typed == /\ taken \in 0 .. MaxTakes
         /\ air \in [Channels -> Graphic \cup {None}]
         /\ mirrorOf \in Channels
         /\ toWindow \in Seq(ToWindow)
         /\ toServer \in Seq(ToServer)
         /\ latest \in Graphic \cup {None}
         /\ source \in Channels /\ asked \in SUBSET Templates

Kept == \E f \in [Takes -> Templates \cup {None}] : Agree(f)

IInv == Typed /\ Kept /\ Sound(player, Want(latest))

LEMMA Wants ==
  ASSUME NEW g \in Graphic
  PROVE  /\ g # None
         /\ g.phase = "in" => /\ Want(g) = [take |-> g.take, tpl |-> g.tpl]
                              /\ Want(g) \in Ref /\ Want(g) # None
         /\ g.phase = "out" => Want(g) = None
BY WindowAssumption DEF Want, Ref, Graphic

----------------------------------------------------------------------------
\* The player.

\* Overtaken, no step is fresh.
LEMMA Overtaken ==
  ASSUME NEW p \in Player
  PROVE  /\ NewGeneration(p) \in Player
         /\ NewGeneration(p).current = p.current
         /\ NewGeneration(p).data = p.data
         /\ NewGeneration(p).last = p.last
         /\ NewGeneration(p).steps = {} <=> p.steps = {}
         /\ \A s \in NewGeneration(p).steps : ~s.fresh
<1> DEFINE Old(s) == [s EXCEPT !.fresh = FALSE]
           steps == {Old(s) : s \in p.steps}
<1>1. \A s \in Step : Old(s) \in Step /\ ~Old(s).fresh
  BY DEF Step
<1>2. p.steps \subseteq Step
  BY DEF Player
<1>3. steps \subseteq Step /\ \A s \in steps : ~s.fresh
  BY <1>1, <1>2
<1>4. steps = {} <=> p.steps = {}
  OBVIOUS
<1>5. NewGeneration(p) = [p EXCEPT !.steps = steps]
  BY DEF NewGeneration
<1> HIDE DEF steps, Old
<1>. QED
  BY <1>3, <1>4, <1>5 DEF Player

LEMMA Retires ==
  ASSUME NEW p \in Player
  PROVE  /\ RetireCurrent(p) \in Player
         /\ RetireCurrent(p).current = None
         /\ RetireCurrent(p).data = p.data
         /\ RetireCurrent(p).last = p.last
         /\ RetireCurrent(p).steps = p.steps
BY DEF RetireCurrent, Player, Mount

LEMMA Darkens ==
  ASSUME NEW p, NEW w, Sound(p, w)
  PROVE  Sound(GoDark(p), None)
BY Overtaken, Retires DEF Sound, GoDark

\* A take not seen before.
LEMMA NewTakes ==
  ASSUME NEW p, NEW w, Sound(p, w), NEW g \in Graphic,
         NEW ready \in BOOLEAN, NEW remount \in BOOLEAN
  PROVE  LET q == NewTake(p, g, ready, remount)
         IN /\ Sound(q, Want(g))
            /\ g.phase = "out" => Shown(q) = None
            /\ g.phase = "in" => \/ Shown(q) = None
                                 \/ /\ Shown(q) = Shown(p) /\ p.current # None
                                    /\ p.current.tpl = g.tpl
<1> DEFINE n == NewGeneration(p)
           q == [n EXCEPT !.last = g.take, !.data = g.data]
<1>1. g.take \in Takes /\ g.tpl \in Templates /\ g.data \in Data /\ g.data # None
      /\ g.phase \in {"in", "out"}
  BY WindowAssumption DEF Graphic
<1>2. n \in Player /\ n.current = p.current /\ \A s \in n.steps : ~s.fresh
  BY Overtaken DEF Sound
<1>3. /\ q \in Player /\ q.current = p.current /\ q.steps = n.steps
      /\ q.last = g.take /\ q.data = g.data
  BY <1>1, <1>2 DEF Player
<1> DEFINE r == RetireCurrent(q)
<1>4. /\ r \in Player /\ r.current = None /\ r.steps = n.steps
      /\ r.last = g.take /\ r.data = g.data
  BY <1>3, Retires
<1> HIDE DEF n, q, r
<1>5. CASE g.phase = "out"
  <2>1. NewTake(p, g, ready, remount) = r
    BY <1>5 DEF NewTake, q, r, n
  <2>. QED
    BY <1>1, <1>2, <1>4, <1>5, <2>1, Wants DEF Sound, Shown
<1>6. CASE g.phase = "in" /\ NewTake(p, g, ready, remount) = Swap(q, g)
           /\ p.current # None /\ p.current.tpl = g.tpl
  <2> DEFINE s == [kind |-> "swap", take |-> g.take, tpl |-> g.tpl,
                   after |-> None, loaded |-> TRUE, fresh |-> TRUE]
             z == Swap(q, g)
  <2>1. s \in Step
    BY <1>1 DEF Step
  <2>2. /\ z \in Player /\ z.current = p.current /\ z.last = g.take
        /\ z.data = g.data /\ z.steps = n.steps \cup {s}
    BY <1>3, <2>1 DEF Swap, Player
  <2>3. s.take = g.take /\ s.tpl = g.tpl
    OBVIOUS
  <2> HIDE DEF s, z
  <2>4. Sound(z, Want(g))
    BY <1>1, <1>2, <1>6, <2>2, <2>3, Wants DEF Sound
  <2>. QED
    BY <1>6, <2>2, <2>4 DEF Shown, z
<1>7. CASE g.phase = "in" /\ NewTake(p, g, ready, remount) = RetireAndLoad(q, g, ready)
  <2> DEFINE after == IF q.current = None THEN None ELSE q.current.take
             s == [kind |-> "load", take |-> g.take, tpl |-> g.tpl,
                   after |-> after, loaded |-> ready, fresh |-> TRUE]
             z == RetireAndLoad(q, g, ready)
  <2>1. after \in Takes \cup {None}
    BY <1>3 DEF Player, Mount
  <2>2. s \in Step
    BY <1>1, <2>1 DEF Step
  <2>3. /\ z \in Player /\ z.current = None /\ z.last = g.take
        /\ z.data = g.data /\ z.steps = n.steps \cup {s}
    BY <1>4, <2>2 DEF RetireAndLoad, Player, r
  <2>4. s.take = g.take /\ s.tpl = g.tpl /\ s.kind = "load"
    OBVIOUS
  <2> HIDE DEF after, s, z
  <2>5. Sound(z, Want(g))
    BY <1>1, <1>2, <1>7, <2>3, <2>4, Wants DEF Sound
  <2>. QED
    BY <1>7, <2>3, <2>5 DEF Shown, z
<1>8. \/ g.phase = "out"
      \/ g.phase = "in" /\ NewTake(p, g, ready, remount) = Swap(q, g)
         /\ p.current # None /\ p.current.tpl = g.tpl
      \/ g.phase = "in" /\ NewTake(p, g, ready, remount) = RetireAndLoad(q, g, ready)
  BY <1>1 DEF NewTake, q, n
<1>. QED
  BY <1>5, <1>6, <1>7, <1>8

LEMMA Updates ==
  ASSUME NEW p, NEW w, Sound(p, w), NEW g \in Graphic, g.phase = "in",
         g.take = p.last, w = None \/ w = Want(g)
  PROVE  Sound(Update(p, g), Want(g)) /\ Shown(Update(p, g)) = Shown(p)
<1>1. g.data \in Data /\ g.data # None
  BY WindowAssumption DEF Graphic
<1>2. Want(g) # None /\ Want(g).take = g.take
  BY Wants
<1>3. CASE p.current = None
  <2>1. /\ Update(p, g) \in Player /\ Update(p, g).current = None
        /\ Update(p, g).steps = p.steps /\ Update(p, g).last = p.last
        /\ Update(p, g).data = g.data
    BY <1>1, <1>3 DEF Update, Sound, Player
  <2>. QED
    BY <1>1, <1>2, <1>3, <2>1 DEF Sound, Shown
<1>4. CASE p.current # None
  <2> DEFINE m == [p.current EXCEPT !.data = g.data]
  <2>1. m \in Mount /\ m # None /\ m.take = p.current.take /\ m.tpl = p.current.tpl
    BY <1>1, <1>4, WindowAssumption DEF Sound, Player, Mount
  <2> HIDE DEF m
  <2>2. /\ Update(p, g) \in Player /\ Update(p, g).current = m
        /\ Update(p, g).steps = p.steps /\ Update(p, g).last = p.last
        /\ Update(p, g).data = g.data
    BY <1>1, <1>4, <2>1 DEF Update, Sound, Player, m
  <2>. QED
    BY <1>1, <1>2, <1>4, <2>1, <2>2 DEF Sound, Shown
<1>. QED
  BY <1>3, <1>4

\* A state is applied: what is shown afterwards is what the stage may show.
LEMMA Applies ==
  ASSUME NEW p, NEW w, Sound(p, w), NEW g \in Graphic \cup {None},
         g # None /\ w # None /\ g.take = w.take => g.tpl = w.tpl,
         w # None => w \in Ref,
         NEW ready \in BOOLEAN, NEW remount \in BOOLEAN
  PROVE  LET q == Apply(p, g, ready, remount)
         IN /\ Sound(q, Want(g))
            /\ Want(g) = None => Shown(q) = None
            /\ Want(g) # None => \/ Shown(q) = None
                                 \/ Want(g) = w /\ Shown(q) = Shown(p)
                                 \/ /\ Shown(q) = Shown(p) /\ p.current # None
                                    /\ p.current.tpl = g.tpl
<1> DEFINE q == Apply(p, g, ready, remount)
<1>1. CASE g = None \/ (g # None /\ g.take = p.last /\ g.phase = "out")
  <2>1. q = GoDark(p) /\ Want(g) = None
    BY <1>1 DEF Apply, Want
  <2>. QED
    BY <2>1, Darkens DEF Sound, Shown
<1>2. CASE g # None /\ g.take # p.last
  <2>1. q = NewTake(p, g, ready, remount) /\ g \in Graphic /\ g.phase \in {"in", "out"}
    BY <1>2 DEF Apply, Graphic
  <2>. QED
    BY <2>1, NewTakes, Wants
<1>3. CASE g # None /\ g.take = p.last /\ g.phase # "out"
  <2>1. q = Update(p, g) /\ g \in Graphic /\ g.phase = "in"
    BY <1>3 DEF Apply, Graphic
  <2>2. Want(g) = [take |-> g.take, tpl |-> g.tpl] /\ Want(g) # None
    BY <2>1, Wants
  <2>3. w = None \/ w = Want(g)
    <3>1. CASE w # None
      <4>1. w.take = g.take /\ w.tpl = g.tpl
        BY <1>3, <3>1 DEF Sound
      <4>. QED
        BY <2>2, <3>1, <4>1 DEF Ref
    <3>. QED
      BY <3>1
  <2>4. Sound(q, Want(g)) /\ Shown(q) = Shown(p)
    BY <1>3, <2>1, <2>3, Updates
  <2>5. w = None => Shown(q) = None
    BY <2>4 DEF Sound, Shown
  <2>. QED
    BY <2>2, <2>3, <2>4, <2>5
<1>. QED
  BY <1>1, <1>2, <1>3

\* A step of the player that goes on: nothing new is shown, or the graphic
\* asked for.
LEMMA Goes ==
  ASSUME NEW p, NEW w, Sound(p, w), NEW s \in p.steps, w # None => w \in Ref,
         NEW q, \/ q = Mounted(p, s) /\ s.kind = "load"
                \/ q = Swapped(p, s) /\ s.kind = "swap"
  PROVE  /\ Sound(q, w)
         /\ \/ Shown(q) = Shown(p)
            \/ w # None /\ Shown(q) = w
<1> DEFINE d == Drop(p, s)
<1>1. s \in Step /\ p \in Player
  BY DEF Sound, Player
<1>2. /\ d \in Player /\ d.current = p.current /\ d.last = p.last
      /\ d.data = p.data /\ d.steps = p.steps \ {s}
  BY <1>1 DEF Drop, Player
<1> HIDE DEF d
<1>3. CASE ~s.fresh
  <2>1. q = d
    BY <1>3 DEF Mounted, Swapped, d
  <2>2. q.steps \subseteq p.steps
    BY <1>2, <2>1
  <2>3. Sound(q, w)
    BY <1>2, <2>1, <2>2 DEF Sound
  <2>. QED
    BY <1>2, <2>1, <2>3 DEF Shown
<1>4. CASE s.fresh
  <2>1. w # None /\ w \in Ref /\ s.take = w.take /\ s.tpl = w.tpl /\ p.data # None
        /\ p.data \in Data
    BY <1>1, <1>4 DEF Sound, Player
  <2>2. PICK m \in Mount : /\ q = [d EXCEPT !.current = m]
                           /\ m.take = w.take /\ m.tpl = w.tpl
    <3>1. CASE s.kind = "load"
      <4> DEFINE m == [take |-> s.take, tpl |-> s.tpl, data |-> p.data]
      <4>1. m \in Mount /\ q = [d EXCEPT !.current = m]
        BY <1>1, <1>4, <2>1, <3>1 DEF Mounted, d, Mount, Step
      <4>. QED
        BY <2>1, <4>1
    <3>2. CASE s.kind = "swap"
      <4> DEFINE m == [p.current EXCEPT !.take = s.take, !.data = p.data]
      <4>1. p.current # None /\ p.current \in Mount /\ p.current.tpl = s.tpl
        BY <1>1, <1>4, <3>2 DEF Sound, Player
      <4>2. m \in Mount /\ m.take = s.take /\ m.tpl = s.tpl
        BY <1>1, <2>1, <4>1 DEF Mount, Step
      <4>3. q = [d EXCEPT !.current = m]
        BY <1>2, <1>4, <3>2 DEF Swapped, d
      <4>. QED
        BY <2>1, <4>2, <4>3
    <3>. QED
      BY <3>1, <3>2
  <2>3. m # None
    BY WindowAssumption
  <2>4. /\ q \in Player /\ q.current = m /\ q.last = p.last
        /\ q.data = p.data /\ q.steps = p.steps \ {s}
    BY <1>2, <2>2 DEF Player
  <2>5. Sound(q, w)
    BY <2>1, <2>2, <2>3, <2>4 DEF Sound
  <2>6. Shown(q) = [take |-> w.take, tpl |-> w.tpl]
    BY <2>2, <2>3, <2>4 DEF Shown
  <2>. QED
    BY <2>1, <2>5, <2>6 DEF Ref
<1>. QED
  BY <1>3, <1>4

\* A template arrives or does not: nothing is shown or withdrawn.
LEMMA Waits ==
  ASSUME NEW p, NEW w, Sound(p, w), NEW t \in Templates,
         NEW q \in {Loaded(p, t), LoadFailed(p, t)}
  PROVE  Sound(q, w) /\ Shown(q) = Shown(p)
<1>1. p \in Player
  BY DEF Sound
<1>2. CASE q = LoadFailed(p, t)
  <2>1. /\ q \in Player /\ q.current = p.current /\ q.last = p.last
        /\ q.data = p.data /\ q.steps \subseteq p.steps
    BY <1>1, <1>2 DEF LoadFailed, Player
  <2>. QED
    BY <2>1 DEF Sound, Shown
<1>3. CASE q = Loaded(p, t)
  <2> DEFINE Now(s) == IF s.tpl = t THEN [s EXCEPT !.loaded = TRUE] ELSE s
             steps == {Now(s) : s \in p.steps}
  <2>1. \A s \in p.steps : /\ Now(s) \in Step /\ Now(s).fresh = s.fresh
                           /\ Now(s).take = s.take /\ Now(s).tpl = s.tpl
                           /\ Now(s).kind = s.kind
    BY <1>1 DEF Player, Step
  <2>2. q = [p EXCEPT !.steps = steps]
    BY <1>3 DEF Loaded
  <2>3. steps \subseteq Step
    BY <2>1
  <2>4. \A z \in steps : \E s \in p.steps : z = Now(s)
    OBVIOUS
  <2> HIDE DEF steps
  <2>5. /\ q \in Player /\ q.current = p.current /\ q.last = p.last
        /\ q.data = p.data /\ q.steps = steps
    BY <1>1, <2>2, <2>3 DEF Player
  <2>6. \A z \in steps : \E s \in p.steps :
          /\ z.fresh = s.fresh /\ z.take = s.take /\ z.tpl = s.tpl /\ z.kind = s.kind
    BY <2>1, <2>4
  <2> HIDE DEF Now
  <2>. QED
    BY <2>5, <2>6 DEF Sound, Shown
<1>. QED
  BY <1>2, <1>3

----------------------------------------------------------------------------
\* The server and the messages.

LEMMA InitHolds == Init => IInv
<1> SUFFICES ASSUME Init PROVE IInv
  OBVIOUS
<1> USE WindowAssumption DEF Init
<1>1. Typed
  BY DEF Typed
<1>2. Kept
  <2>1. [n \in Takes |-> None] \in [Takes -> Templates \cup {None}]
    OBVIOUS
  <2>2. Agree([n \in Takes |-> None])
    BY DEF Agree, Fits
  <2>. QED
    BY <2>1, <2>2 DEF Kept
<1>3. Sound(player, Want(latest))
  BY DEF Sound, Player, InitPlayer, Want
<1>. QED
  BY <1>1, <1>2, <1>3 DEF IInv

LEMMA Listable ==
  ASSUME NEW S, IsFiniteSet(S)
  PROVE  SetToSeq(S) \in Seq(S)
<1>1. Cardinality(S) \in Nat /\ ExistsBijection(1 .. Cardinality(S), S)
  BY FS_CardinalityType
<1>2. \E f \in [1 .. Cardinality(S) -> S] : IsInjective(f)
  BY <1>1 DEF ExistsBijection, Bijection, Injection
<1>3. SetToSeq(S) \in [1 .. Cardinality(S) -> S]
  BY <1>2 DEF SetToSeq
<1>. QED
  BY <1>1, <1>3

\* Requests for templates are messages of the window.
LEMMA Requests ==
  ASSUME NEW T \in SUBSET Templates
  PROVE  SetToSeq({GetTemplate(t) : t \in T}) \in Seq(ToServer)
<1> DEFINE S == {GetTemplate(t) : t \in T}
<1>1. IsFiniteSet(T)
  BY FS_Subset, WindowAssumption
<1>2. IsFiniteSet(S)
  <2>1. [t \in T |-> GetTemplate(t)] \in Surjection(T, S)
    BY DEF Surjection
  <2> HIDE DEF S
  <2>. QED
    BY <1>1, <2>1, FS_Surjection
<1>3. S \subseteq ToServer
  BY DEF GetTemplate, ToServer
<1> HIDE DEF S
<1>4. SetToSeq(S) \in Seq(S)
  BY <1>2, Listable
<1>5. SetToSeq(S) \in Seq(ToServer)
  BY <1>3, <1>4
<1>. QED
  BY <1>5 DEF S

\* A message more, or the first one gone.
LEMMA Appended ==
  ASSUME NEW q \in Seq(ToWindow), NEW m \in ToWindow
  PROVE  /\ Append(q, m) \in Seq(ToWindow)
         /\ \A i \in DOMAIN Append(q, m) :
              Append(q, m)[i] = m \/ \E j \in DOMAIN q : Append(q, m)[i] = q[j]
<1>1. Append(q, m) \in Seq(ToWindow)
  OBVIOUS
<1>2. ASSUME NEW i \in DOMAIN Append(q, m)
      PROVE  Append(q, m)[i] = m \/ \E j \in DOMAIN q : Append(q, m)[i] = q[j]
  <2>1. DOMAIN Append(q, m) = 1 .. Len(q) + 1 /\ DOMAIN q = 1 .. Len(q)
    OBVIOUS
  <2>2. CASE i = Len(q) + 1
    BY <2>2
  <2>3. CASE i # Len(q) + 1
    <3>1. i \in DOMAIN q /\ Append(q, m)[i] = q[i]
      BY <2>1, <2>3
    <3>. QED
      BY <3>1
  <2>. QED
    BY <2>2, <2>3
<1>. QED
  BY <1>1, <1>2

LEMMA Removed ==
  ASSUME NEW q \in Seq(ToWindow), q # <<>>
  PROVE  /\ Head(q) \in ToWindow /\ Tail(q) \in Seq(ToWindow)
         /\ \E j \in DOMAIN q : Head(q) = q[j]
         /\ \A i \in DOMAIN Tail(q) : \E j \in DOMAIN q : Tail(q)[i] = q[j]
<1>1. Len(q) >= 1 /\ Head(q) = q[1] /\ 1 \in DOMAIN q /\ q[1] \in ToWindow
  OBVIOUS
<1>2. Tail(q) \in Seq(ToWindow)
  OBVIOUS
<1>3. ASSUME NEW i \in DOMAIN Tail(q)
      PROVE  \E j \in DOMAIN q : Tail(q)[i] = q[j]
  <2>1. i + 1 \in DOMAIN q /\ Tail(q)[i] = q[i + 1]
    OBVIOUS
  <2>. QED
    BY <2>1
<1>. QED
  BY <1>1, <1>2, <1>3

LEMMA States ==
  /\ \A m \in ToWindow : m.type = "state" =>
       m.channel \in Channels /\ m.state \in Graphic \cup {None}
  /\ \A m \in ToWindow : m.type = "config" => m.mirrorOf \in Channels
  /\ \A m \in ToWindow : m.type = "template" => m.id \in Templates
BY DEF ToWindow

\* What the window holds is all it shows: a step that leaves that alone.
Idles == UNCHANGED <<latest, player>>

LEMMA IdlesSound == Sound(player, Want(latest)) /\ Idles => Sound(player, Want(latest))'
BY DEF Idles, Sound, Want

\* The messages and the state accepted are ones there were before.
LEMMA Keeps ==
  ASSUME Kept, UNCHANGED <<air, taken>>,
         \A i \in DOMAIN toWindow' : toWindow'[i].type = "state" =>
           \/ \E j \in DOMAIN toWindow : toWindow'[i] = toWindow[j]
           \/ \E c \in Channels : toWindow'[i].state = air[c],
         \/ latest' = latest
         \/ \E j \in DOMAIN toWindow : /\ toWindow[j].type = "state"
                                      /\ latest' = toWindow[j].state
  PROVE  Kept'
<1>1. PICK f \in [Takes -> Templates \cup {None}] : Agree(f)
  BY DEF Kept
<1>2. Agree(f)'
  <2>1. \A g : Fits(f, g)' <=> Fits(f, g)
    BY DEF Fits
  <2>2. \A c \in Channels : Fits(f, air[c])'
    BY <1>1 DEF Agree, Fits
  <2>3. ASSUME NEW i \in DOMAIN toWindow', toWindow'[i].type = "state"
        PROVE  Fits(f, toWindow[i].state)'
    BY <1>1, <2>3 DEF Agree, Fits
  <2>4. Fits(f, latest)'
    BY <1>1 DEF Agree, Fits
  <2>. QED
    BY <2>2, <2>3, <2>4 DEF Agree
<1>. QED
  BY <1>2 DEF Kept

\* A channel becomes g, of a take it has or of the next one.
LEMMA BecomesKeeps ==
  ASSUME IInv, NEW c \in Channels, NEW g \in Graphic \cup {None}, Becomes(c, g),
         taken' \in 0 .. MaxTakes,
         \/ /\ taken' = taken
            /\ g # None => /\ air[c] # None /\ g.take = air[c].take
                           /\ g.tpl = air[c].tpl
         \/ taken' = taken + 1 /\ g # None /\ g.take = taken'
  PROVE  IInv' /\ Idles
<1>1. Idles /\ UNCHANGED <<mirrorOf, toServer, source, asked>>
  BY DEF Becomes, window, Idles
<1>2. air' = [air EXCEPT ![c] = g]
  BY DEF Becomes
<1>3. State(c, g) \in ToWindow /\ State(c, g).state = g
  BY DEF State, ToWindow
<1>4. toWindow \in Seq(ToWindow)
  BY DEF IInv, Typed
<1>5. /\ toWindow' \in Seq(ToWindow)
      /\ \A i \in DOMAIN toWindow' :
           toWindow'[i] = State(c, g) \/ \E j \in DOMAIN toWindow : toWindow'[i] = toWindow[j]
  <2>1. CASE toWindow' = toWindow
    BY <1>4, <2>1
  <2>2. CASE toWindow' = Append(toWindow, State(c, g))
    BY <1>3, <1>4, <2>2, Appended
  <2>. QED
    BY <2>1, <2>2 DEF Becomes
<1>6. Typed'
  BY <1>1, <1>2, <1>5 DEF IInv, Typed, Idles
<1>7. PICK f \in [Takes -> Templates \cup {None}] : Agree(f)
  BY DEF IInv, Kept
<1>8. PICK h \in [Takes -> Templates \cup {None}] :
        /\ \A n \in Takes : n <= taken => h[n] = f[n]
        /\ g # None => g.take <= taken' /\ h[g.take] = g.tpl
  <2>1. CASE taken' = taken
    <3>1. g # None => g.take <= taken' /\ f[g.take] = g.tpl
      BY <1>7, <2>1 DEF Agree, Fits
    <3>. QED
      BY <3>1
  <2>2. CASE taken' = taken + 1 /\ g # None /\ g.take = taken'
    <3>1. g \in Graphic /\ g.take \in Takes /\ g.tpl \in Templates
      BY <2>2 DEF Graphic
    <3> DEFINE h == [f EXCEPT ![g.take] = g.tpl]
    <3>2. h \in [Takes -> Templates \cup {None}] /\ h[g.take] = g.tpl
      BY <3>1
    <3>3. \A n \in Takes : n <= taken => h[n] = f[n]
      BY <2>2 DEF Takes, IInv, Typed
    <3> HIDE DEF h
    <3>4. g.take <= taken'
      BY <2>2, <3>1 DEF Takes
    <3>. QED
      BY <3>2, <3>3, <3>4
  <2>. QED
    BY <2>1, <2>2
<1>9. ASSUME NEW x \in Graphic \cup {None}, Fits(f, x)
      PROVE  x # None => x.take <= taken' /\ h[x.take] = x.tpl
  <2> SUFFICES ASSUME x # None PROVE x.take <= taken' /\ h[x.take] = x.tpl
    OBVIOUS
  <2>1. x.take \in Takes /\ x.take \in Nat
    BY DEF Graphic, Takes
  <2>2. x.take <= taken /\ f[x.take] = x.tpl
    BY <1>9 DEF Fits
  <2>. QED
    BY <1>8, <2>1, <2>2 DEF IInv, Typed
<1>10. Agree(h)'
  <2>1. \A d \in Channels : Fits(h, air[d])'
    <3> SUFFICES ASSUME NEW d \in Channels PROVE Fits(h, air[d])'
      OBVIOUS
    <3>1. CASE d = c
      BY <1>2, <1>8, <3>1 DEF Fits, IInv, Typed
    <3>2. CASE d # c
      BY <1>2, <1>7, <1>9, <3>2 DEF Fits, Agree, IInv, Typed
    <3>. QED
      BY <3>1, <3>2
  <2>2. ASSUME NEW i \in DOMAIN toWindow', toWindow'[i].type = "state"
        PROVE  Fits(h, toWindow[i].state)'
    <3>1. CASE toWindow'[i] = State(c, g)
      BY <1>3, <1>8, <3>1 DEF Fits
    <3>2. ASSUME NEW j \in DOMAIN toWindow, toWindow'[i] = toWindow[j]
          PROVE  Fits(h, toWindow[i].state)'
      <4>1. toWindow[j] \in ToWindow /\ toWindow[j].type = "state"
        BY <1>4, <2>2, <3>2
      <4>2. toWindow[j].state \in Graphic \cup {None} /\ Fits(f, toWindow[j].state)
        BY <1>7, <4>1, States DEF Agree
      <4>. QED
        BY <1>9, <3>2, <4>2 DEF Fits
    <3>. QED
      BY <1>5, <3>1, <3>2
  <2>3. Fits(h, latest)'
    BY <1>1, <1>7, <1>9 DEF Idles, Fits, Agree, IInv, Typed
  <2>. QED
    BY <2>1, <2>2, <2>3 DEF Agree
<1>. QED
  BY <1>1, <1>6, <1>10, IdlesSound DEF IInv, Kept

LEMMA TakeKeeps ==
  ASSUME IInv, NEW c \in Used,
         TakeOn(c) \/ UpdateOn(c) \/ ClearOn(c) \/ SweepOn(c)
  PROVE  IInv' /\ Idles
<1>1. c \in Channels /\ air[c] \in Graphic \cup {None}
      /\ taken \in Nat /\ MaxTakes \in Nat /\ taken \in 0 .. MaxTakes
  BY WindowAssumption DEF IInv, Typed
<1>2. CASE TakeOn(c)
  <2>1. PICK t \in Templates :
          /\ taken < MaxTakes /\ taken' = taken + 1
          /\ Becomes(c, [take |-> taken', tpl |-> t, data |-> 1, phase |-> "in"])
    BY <1>2 DEF TakeOn
  <2> DEFINE g == [take |-> taken', tpl |-> t, data |-> 1, phase |-> "in"]
  <2>2. taken' \in Takes /\ taken' \in 0 .. MaxTakes /\ 1 \in Data
    BY <1>1, <2>1, WindowAssumption DEF Takes, Data
  <2>3. g \in Graphic /\ g.take = taken'
    BY <2>2 DEF Graphic
  <2>4. Becomes(c, g)
    BY <2>1
  <2> HIDE DEF g
  <2>5. g # None
    BY <2>3, Wants
  <2>. QED
    BY <1>1, <2>1, <2>2, <2>3, <2>4, <2>5, BecomesKeeps
<1>3. CASE UpdateOn(c)
  <2> DEFINE g == [air[c] EXCEPT !.data = @ + 1]
  <2>1. air[c] \in Graphic /\ Becomes(c, g) /\ taken' = taken /\ air[c].data < MaxData
    BY <1>1, <1>3 DEF UpdateOn
  <2>2. air[c].data + 1 \in Data
    BY <2>1, WindowAssumption DEF Graphic, Data
  <2>3. g \in Graphic /\ g.take = air[c].take /\ g.tpl = air[c].tpl
    BY <2>1, <2>2 DEF Graphic
  <2> HIDE DEF g
  <2>. QED
    BY <1>1, <1>3, <2>1, <2>3, BecomesKeeps DEF UpdateOn
<1>4. CASE ClearOn(c)
  <2> DEFINE g == [air[c] EXCEPT !.phase = "out"]
  <2>1. air[c] \in Graphic /\ Becomes(c, g) /\ taken' = taken
    BY <1>1, <1>4 DEF ClearOn
  <2>2. g \in Graphic /\ g.take = air[c].take /\ g.tpl = air[c].tpl
    BY <2>1 DEF Graphic
  <2> HIDE DEF g
  <2>. QED
    BY <1>1, <1>4, <2>1, <2>2, BecomesKeeps DEF ClearOn
<1>5. CASE SweepOn(c)
  BY <1>1, <1>5, BecomesKeeps DEF SweepOn
<1>. QED
  BY <1>2, <1>3, <1>4, <1>5

LEMMA ConfigureKeeps ==
  ASSUME IInv, NEW m \in Mirrors, Configure(m)
  PROVE  IInv' /\ Idles
<1>1. m \in Channels /\ Config(m) \in ToWindow /\ Config(m).type = "config"
  BY WindowAssumption DEF Config, ToWindow
<1>2. /\ UNCHANGED <<air, taken, toServer, latest, player, source, asked>>
      /\ mirrorOf' = m
  BY DEF Configure, window
<1>3. /\ toWindow' \in Seq(ToWindow)
      /\ \A i \in DOMAIN toWindow' :
           toWindow'[i] = Config(m) \/ \E j \in DOMAIN toWindow : toWindow'[i] = toWindow[j]
  <2>0. toWindow \in Seq(ToWindow)
    BY DEF IInv, Typed
  <2>1. CASE toWindow' = toWindow
    BY <2>0, <2>1
  <2>2. CASE toWindow' = Append(toWindow, Config(m))
    BY <1>1, <2>0, <2>2, Appended
  <2>. QED
    BY <2>1, <2>2 DEF Configure
<1>4. Kept'
  BY <1>1, <1>2, <1>3, Keeps DEF IInv
<1>5. Typed' /\ Idles
  BY <1>1, <1>2, <1>3 DEF IInv, Typed, Idles
<1>. QED
  BY <1>4, <1>5, IdlesSound DEF IInv

LEMMA ServerKeeps ==
  ASSUME IInv, ServerHandles
  PROVE  IInv' /\ Idles
<1> DEFINE m == Head(toServer)
<1>0. toWindow \in Seq(ToWindow) /\ toServer \in Seq(ToServer)
  BY DEF IInv, Typed
<1>1. m \in ToServer /\ toServer' \in Seq(ToServer)
  BY <1>0 DEF ServerHandles
<1>2. UNCHANGED <<air, taken, mirrorOf, latest, player, source, asked>>
  BY DEF ServerHandles, window
<1>3. PICK z \in ToWindow :
        /\ toWindow' = Append(toWindow, z)
        /\ z.type = "state" => \E c \in Channels : z.state = air[c]
  <2>1. CASE m.type = "subscribe" /\ toWindow' = Append(toWindow, State(m.channel, air[m.channel]))
    <3>1. m.channel \in Channels
      BY <1>1, <2>1 DEF ToServer
    <3>2. air[m.channel] \in Graphic \cup {None}
      BY <3>1 DEF IInv, Typed
    <3>3. State(m.channel, air[m.channel]) \in ToWindow
          /\ State(m.channel, air[m.channel]).state = air[m.channel]
      BY <3>1, <3>2 DEF State, ToWindow
    <3>. QED
      BY <2>1, <3>1, <3>3
  <2>2. CASE toWindow' = Append(toWindow, Config(mirrorOf))
    <3>1. Config(mirrorOf) \in ToWindow /\ Config(mirrorOf).type # "state"
      BY DEF Config, ToWindow, IInv, Typed
    <3>. QED
      BY <2>2, <3>1
  <2>3. CASE m.type = "get_template"
             /\ toWindow' = Append(toWindow, [type |-> "template", id |-> m.id])
    <3>1. m.id \in Templates
      BY <1>1, <2>3 DEF ToServer
    <3>2. [type |-> "template", id |-> m.id] \in ToWindow
      BY <3>1 DEF ToWindow
    <3>. QED
      BY <2>3, <3>2
  <2>. QED
    BY <2>1, <2>2, <2>3 DEF ServerHandles
<1>4. /\ toWindow' \in Seq(ToWindow)
      /\ \A i \in DOMAIN toWindow' :
           toWindow'[i] = z \/ \E j \in DOMAIN toWindow : toWindow'[i] = toWindow[j]
  BY <1>0, <1>3, Appended
<1>5. Kept'
  BY <1>2, <1>3, <1>4, Keeps DEF IInv
<1>6. Typed' /\ Idles
  BY <1>1, <1>2, <1>4 DEF IInv, Typed, Idles
<1>. QED
  BY <1>5, <1>6, IdlesSound DEF IInv

LEMMA SocketKeeps ==
  ASSUME IInv, Connect \/ Disconnect
  PROVE  IInv' /\ Idles
<1>1. UNCHANGED <<air, taken, mirrorOf, latest, player, source, asked>>
  BY DEF Connect, Disconnect, server, window
<1>2. Hello \in ToWindow /\ Hello.type = "hello"
  BY DEF Hello, ToWindow
<1>3. /\ toWindow' = <<Hello>> \/ toWindow' = <<>>
      /\ toServer' = toServer \/ toServer' = <<>>
  BY DEF Connect, Disconnect
<1>4. toWindow' \in Seq(ToWindow) /\ toServer' \in Seq(ToServer)
  <2>1. <<Hello>> \in Seq(ToWindow) /\ <<>> \in Seq(ToWindow) /\ <<>> \in Seq(ToServer)
    BY <1>2
  <2>. QED
    BY <1>3, <2>1 DEF IInv, Typed
<1>5. \A i \in DOMAIN toWindow' : toWindow'[i].type # "state"
  BY <1>2, <1>3
<1>6. Kept'
  BY <1>1, <1>5, Keeps DEF IInv
<1>7. Typed' /\ Idles
  BY <1>1, <1>4 DEF IInv, Typed, Idles
<1>. QED
  BY <1>6, <1>7, IdlesSound DEF IInv

----------------------------------------------------------------------------
\* The steps of the window.

\* What a step may do to what is asked for and shown.
StageStep ==
  \/ Want(latest') = Want(latest) /\ Shown(player') = Shown(player)
  \/ Want(latest') = None /\ Shown(player') = None
  \/ Want(latest') \in Ref /\ Shown(player') = None
  \/ /\ Want(latest') \in Ref /\ Shown(player') = Shown(player)
     /\ player.current # None /\ player.current \in Mount
     /\ player.current.tpl = Want(latest').tpl
  \/ /\ Want(latest) # None /\ Want(latest') = Want(latest)
     /\ Shown(player') = Want(latest)

LEMMA WantsRef == IInv /\ Want(latest) # None => Want(latest) \in Ref
BY Wants DEF IInv, Typed, Graphic, Want


\* A step of the player alone.
LEMMA PlayerKeeps ==
  ASSUME IInv, Sound(player', Want(latest)),
         UNCHANGED <<air, taken, mirrorOf, toWindow, toServer, latest, source>>,
         asked' \in SUBSET Templates
  PROVE  IInv'
<1>1. Typed'
  BY DEF IInv, Typed
<1>2. Kept'
  BY Keeps DEF IInv
<1>3. Sound(player, Want(latest))'
  BY DEF Sound, Want
<1>. QED
  BY <1>1, <1>2, <1>3 DEF IInv

LEMMA StagesKeep ==
  ASSUME IInv, MountStep \/ SwapStep \/ OutStep \/ \E t \in Templates : LoadFails(t)
  PROVE  IInv' /\ StageStep
<1> DEFINE w == Want(latest)
<1>0. Sound(player, w) /\ (w # None => w \in Ref) /\ player \in Player
      /\ asked \in SUBSET Templates
  BY WantsRef DEF IInv, Typed, Sound
<1>1. CASE MountStep \/ SwapStep
  <2>1. PICK s \in player.steps :
          \/ player' = Mounted(player, s) /\ s.kind = "load"
          \/ player' = Swapped(player, s) /\ s.kind = "swap"
    BY <1>1 DEF MountStep, SwapStep, CanMount, PlayerBecomes
  <2>2. UNCHANGED <<air, taken, mirrorOf, toWindow, toServer, latest, source, asked>>
    BY <1>1 DEF MountStep, SwapStep, PlayerBecomes, server
  <2>3. /\ Sound(player', w)
        /\ \/ Shown(player') = Shown(player)
           \/ w # None /\ Shown(player') = w
    BY <1>0, <2>1, Goes
  <2>. QED
    BY <1>0, <2>2, <2>3, PlayerKeeps DEF StageStep
<1>2. CASE OutStep
  <2>1. PICK m \in player.retiring : PlayerBecomes(OutEnds(player, m))
    BY <1>2 DEF OutStep
  <2>2. m \in Takes
    BY <1>0 DEF Player
  <2>3. UNCHANGED <<air, taken, mirrorOf, toWindow, toServer, latest, source, asked>>
        /\ player' = OutEnds(player, m)
    BY <2>1 DEF PlayerBecomes, server
  <2>4. OutEnds(player, m) = [player EXCEPT !.retiring = @ \ {m}]
    BY DEF OutEnds
  <2>5. /\ player' \in Player /\ player'.current = player.current
        /\ player'.last = player.last /\ player'.data = player.data
        /\ player'.steps = player.steps
    BY <1>0, <2>3, <2>4 DEF Player
  <2>6. Sound(player', w) /\ Shown(player') = Shown(player)
    BY <1>0, <2>5 DEF Sound, Shown
  <2>. QED
    BY <1>0, <2>3, <2>6, PlayerKeeps DEF StageStep
<1>3. CASE \E t \in Templates : LoadFails(t)
  <2>1. PICK t \in Templates : LoadFails(t)
    BY <1>3
  <2>2. /\ UNCHANGED <<air, taken, mirrorOf, toWindow, toServer, latest, source>>
        /\ player' = LoadFailed(player, t) /\ asked' \in SUBSET Templates
    BY <1>0, <2>1 DEF LoadFails, server
  <2>3. Sound(player', w) /\ Shown(player') = Shown(player)
    BY <1>0, <2>2, Waits
  <2>. QED
    BY <2>2, <2>3, PlayerKeeps DEF StageStep
<1>. QED
  BY <1>1, <1>2, <1>3

\* Messages that are not of the source's state leave the stage as it is.
LEMMA HandlesKeeps ==
  ASSUME IInv, WindowHandles
  PROVE  IInv' /\ StageStep
<1> DEFINE m == Head(toWindow)
           w == Want(latest)
<1>0. /\ toWindow \in Seq(ToWindow) /\ toServer \in Seq(ToServer) /\ toWindow # <<>>
      /\ Sound(player, w) /\ (w # None => w \in Ref) /\ player \in Player
      /\ asked \in SUBSET Templates /\ source \in Channels
      /\ latest \in Graphic \cup {None}
  BY WantsRef DEF IInv, Typed, Sound, WindowHandles
<1>1. /\ m \in ToWindow /\ toWindow' \in Seq(ToWindow)
      /\ \E j \in DOMAIN toWindow : m = toWindow[j]
      /\ \A i \in DOMAIN toWindow' : \E j \in DOMAIN toWindow : toWindow'[i] = toWindow[j]
  BY <1>0, Removed DEF WindowHandles
<1>2. UNCHANGED <<air, taken, mirrorOf>>
  BY DEF WindowHandles, server
<1>3. ASSUME toServer' \in Seq(ToServer), source' \in Channels,
             asked' \in SUBSET Templates, latest' = latest,
             Sound(player', w), Shown(player') = Shown(player)
      PROVE  IInv' /\ StageStep
  <2>1. Kept'
    BY <1>1, <1>2, <1>3, Keeps DEF IInv
  <2>2. Typed'
    BY <1>1, <1>2, <1>3 DEF IInv, Typed
  <2>3. Sound(player, Want(latest))'
    BY <1>3 DEF Sound, Want
  <2>. QED
    BY <1>3, <2>1, <2>2, <2>3 DEF IInv, StageStep
<1>4. \A c \in Channels : <<Subscribe(c)>> \in Seq(ToServer)
  <2>1. \A c \in Channels : Subscribe(c) \in ToServer
    BY DEF Subscribe, ToServer
  <2>. QED
    BY <2>1
<1>5. CASE OnHello
  <2>1. toServer' \in Seq(ToServer)
    <3>1. /\ <<Subscribe(Own)>> \in Seq(ToServer)
          /\ <<Subscribe(Own), Subscribe(source)>> \in Seq(ToServer)
      BY <1>0, WindowAssumption DEF Subscribe, ToServer
    <3>2. <<[type |-> "get_channel"]>> \in Seq(ToServer)
      <4>1. [type |-> "get_channel"] \in ToServer
        BY DEF ToServer
      <4>. QED
        BY <4>1
    <3>3. SetToSeq({GetTemplate(t) : t \in asked}) \in Seq(ToServer)
      BY <1>0, Requests
    <3> DEFINE a == IF source = Own THEN <<Subscribe(Own)>>
                                    ELSE <<Subscribe(Own), Subscribe(source)>>
               b == <<[type |-> "get_channel"]>>
               z == SetToSeq({GetTemplate(t) : t \in asked})
    <3>4. a \in Seq(ToServer)
      BY <3>1
    <3>5. toServer' = toServer \o (a \o b \o z)
      BY <1>5 DEF OnHello, Sends
    <3> HIDE DEF a, b, z
    <3>6. a \o b \o z \in Seq(ToServer)
      BY <3>2, <3>3, <3>4 DEF b, z
    <3>. QED
      BY <1>0, <3>5, <3>6
  <2>. QED
    BY <1>0, <1>3, <1>5, <2>1 DEF OnHello, window
<1>6. CASE OnConfig
  <2>1. m.mirrorOf \in Channels
    BY <1>1, <1>6, States DEF OnConfig
  <2>2. toServer' \in Seq(ToServer)
    <3>1. CASE toServer' = toServer \o <<>>
      BY <1>0, <3>1
    <3>2. CASE toServer' = toServer \o <<Subscribe(m.mirrorOf)>>
      BY <1>0, <1>4, <2>1, <3>2
    <3>. QED
      BY <1>6, <3>1, <3>2 DEF OnConfig, Sends
  <2>. QED
    BY <1>0, <1>3, <1>6, <2>1, <2>2 DEF OnConfig
<1>7. CASE OnOtherState
  BY <1>0, <1>3, <1>7 DEF OnOtherState, window
<1>8. CASE OnTemplate
  <2>1. m.id \in Templates
    BY <1>1, <1>8, States DEF OnTemplate
  <2>2. player' = Loaded(player, m.id)
    BY <1>8 DEF OnTemplate
  <2>3. Sound(player', w) /\ Shown(player') = Shown(player)
    BY <1>0, <2>1, <2>2, Waits
  <2>. QED
    BY <1>0, <1>3, <1>8, <2>3 DEF OnTemplate
<1>9. CASE OnState
  <2> DEFINE g == m.state
  <2>1. /\ g \in Graphic \cup {None} /\ latest' = g /\ source' = source
        /\ \E j \in DOMAIN toWindow : toWindow[j].type = "state" /\ latest' = toWindow[j].state
    BY <1>1, <1>9, States DEF OnState
  <2>2. PICK remount \in BOOLEAN :
          /\ player' = Apply(player, g, g # None /\ g.tpl \in cached, remount)
          /\ LET missing == {s.tpl : s \in {x \in player'.steps : ~x.loaded}}
             IN /\ asked' = asked \cup missing
                /\ Sends(SetToSeq({GetTemplate(t) : t \in missing \ asked}))
    BY <1>9 DEF OnState
  <2>3. g # None /\ w # None /\ g.take = w.take => g.tpl = w.tpl
    <3>1. PICK f \in [Takes -> Templates \cup {None}] : Agree(f)
      BY DEF IInv, Kept
    <3>2. Fits(f, g) /\ Fits(f, latest)
      BY <2>1, <3>1 DEF Agree
    <3>3. w # None => latest # None /\ w.take = latest.take /\ w.tpl = latest.tpl
      BY DEF Want
    <3>. QED
      BY <3>2, <3>3 DEF Fits
  <2> DEFINE ready == g # None /\ g.tpl \in cached
  <2>4. ready \in BOOLEAN
    OBVIOUS
  <2>5. player' = Apply(player, g, ready, remount)
    BY <2>2
  <2> HIDE DEF ready, g
  <2>6. /\ Sound(player', Want(g))
        /\ Want(g) = None => Shown(player') = None
        /\ Want(g) # None => \/ Shown(player') = None
                             \/ Want(g) = w /\ Shown(player') = Shown(player)
                             \/ /\ Shown(player') = Shown(player)
                                /\ player.current # None /\ player.current.tpl = g.tpl
    BY <1>0, <2>1, <2>3, <2>4, <2>5, Applies
  <2>7. asked' \in SUBSET Templates /\ toServer' \in Seq(ToServer)
    <3> DEFINE missing == {s.tpl : s \in {x \in player'.steps : ~x.loaded}}
    <3>1. missing \in SUBSET Templates
      BY <2>6 DEF Sound, Player, Step
    <3>2. asked' = asked \cup missing
          /\ toServer' = toServer \o SetToSeq({GetTemplate(t) : t \in missing \ asked})
      BY <2>2 DEF Sends
    <3> HIDE DEF missing
    <3>3. SetToSeq({GetTemplate(t) : t \in missing \ asked}) \in Seq(ToServer)
      BY <3>1, Requests
    <3>. QED
      BY <1>0, <3>1, <3>2, <3>3
  <2>8. Kept'
    BY <1>1, <1>2, <2>1, Keeps DEF IInv
  <2>9. Typed'
    BY <1>1, <1>2, <2>1, <2>7 DEF IInv, Typed
  <2>10. Sound(player, Want(latest))' /\ Want(latest') = Want(g)
    BY <2>1, <2>6 DEF Sound, Want
  <2>11. StageStep
    <3>1. CASE Want(g) = None
      BY <2>6, <2>10, <3>1 DEF StageStep
    <3>2. CASE Want(g) # None
      <4>1. Want(g) \in Ref /\ Want(g).tpl = g.tpl
        BY <2>1, <3>2, Wants DEF Want, Graphic
      <4>2. player.current # None => player.current \in Mount
        BY <1>0 DEF Player
      <4>. QED
        BY <2>6, <2>10, <3>2, <4>1, <4>2 DEF StageStep
    <3>. QED
      BY <3>1, <3>2
  <2>. QED
    BY <2>8, <2>9, <2>10, <2>11 DEF IInv
<1>. QED
  BY <1>5, <1>6, <1>7, <1>8, <1>9 DEF WindowHandles

----------------------------------------------------------------------------
LEMMA IdlesStage == Idles => StageStep
BY DEF Idles, StageStep

LEMMA Steps == IInv /\ [Next]_vars => IInv' /\ StageStep
<1> SUFFICES ASSUME IInv, [Next]_vars PROVE IInv' /\ StageStep
  OBVIOUS
<1>1. CASE UNCHANGED vars
  <2>1. UNCHANGED <<air, taken, mirrorOf, toWindow, toServer, latest, player,
                    source, asked>>
    BY <1>1 DEF vars, server, window
  <2>2. Sound(player', Want(latest)) /\ asked' \in SUBSET Templates
    BY <2>1 DEF IInv, Typed
  <2>3. StageStep
    BY <2>1 DEF StageStep
  <2>. QED
    BY <2>1, <2>2, <2>3, PlayerKeeps
<1>. QED
  BY <1>1, TakeKeeps, ConfigureKeeps, ServerKeeps, SocketKeeps, StagesKeep,
     HandlesKeeps, IdlesStage DEF Next

\* Every reachable state satisfies the invariant: the player follows the state
\* accepted last, and a take keeps its template everywhere.
THEOREM Inductive == Spec => []IInv
<1>1. IInv /\ [Next]_vars => IInv'
  BY Steps
<1>. QED
  BY <1>1, InitHolds, PTL DEF Spec

\* What the stage's promise does not depend on is typed as well.
Others == /\ subs \in SUBSET Channels /\ open \in BOOLEAN
          /\ cached \in SUBSET Templates /\ lost \in SUBSET Takes
          /\ faults \in 0 .. MaxFaults /\ edits \in 0 .. MaxEdits

LEMMA OthersStay == IInv /\ Others /\ [Next]_vars => Others'
<1> SUFFICES ASSUME IInv, Others, [Next]_vars PROVE Others'
  OBVIOUS
<1>1. CASE UNCHANGED vars
  BY <1>1 DEF vars, server, window, Others
<1>2. ASSUME NEW c \in Used, TakeOn(c) \/ UpdateOn(c) \/ ClearOn(c) \/ SweepOn(c)
      PROVE  Others'
  BY <1>2 DEF TakeOn, UpdateOn, ClearOn, SweepOn, Becomes, window, Others
<1>3. ASSUME NEW m \in Mirrors, Configure(m) PROVE Others'
  BY <1>3, WindowAssumption DEF Configure, window, Others
<1>4. CASE ServerHandles
  <2>1. Head(toServer) \in ToServer
    BY <1>4 DEF ServerHandles, IInv, Typed
  <2>2. subs' \in SUBSET Channels
    BY <1>4, <2>1 DEF ServerHandles, ToServer, Others
  <2>. QED
    BY <1>4, <2>2 DEF ServerHandles, window, Others
<1>5. CASE Connect \/ Disconnect
  <2>1. open' \in BOOLEAN
    BY <1>5 DEF Connect, Disconnect
  <2>2. UNCHANGED <<cached, lost, edits>>
    BY <1>5 DEF Connect, Disconnect, server, window
  <2>3. subs' \in SUBSET Channels /\ faults' \in 0 .. MaxFaults
    BY <1>5, WindowAssumption DEF Connect, Disconnect, server, Others
  <2>. QED
    BY <2>1, <2>2, <2>3 DEF Others
<1>6. CASE WindowHandles
  <2>1. Head(toWindow) \in ToWindow
    BY <1>6 DEF WindowHandles, IInv, Typed
  <2>2. UNCHANGED <<subs, open, faults, edits>>
    BY <1>6 DEF WindowHandles, server
  <2>3. UNCHANGED lost /\ cached' \in SUBSET Templates
    BY <1>6, <2>1 DEF WindowHandles, OnHello, OnConfig, OnState, OnOtherState,
       OnTemplate, window, ToWindow, Others
  <2>. QED
    BY <2>2, <2>3 DEF Others
<1>7. ASSUME NEW t \in Templates, LoadFails(t) PROVE Others'
  <2>1. LostTo(player, t) \subseteq Takes
    BY DEF IInv, Sound, Player, Step, LostTo
  <2>. QED
    BY <1>7, <2>1, WindowAssumption DEF LoadFails, server, Others
<1>8. CASE MountStep \/ SwapStep \/ OutStep
  BY <1>8 DEF MountStep, SwapStep, OutStep, PlayerBecomes, server, Others
<1>. QED
  BY <1>1, <1>2, <1>3, <1>4, <1>5, <1>6, <1>7, <1>8 DEF Next

LEMMA AllTyped == IInv /\ Others => TypeOK
BY DEF IInv, Typed, Sound, Player, Others, TypeOK

\* The variables keep their types: every message names a channel and a
\* template there is, and the player holds no unknown take.
THEOREM TypeCorrect == Spec => []TypeOK
<1>1. Init => Others
  <2>1. Init => open \in BOOLEAN
    BY DEF Init
  <2>. QED
    BY <2>1, WindowAssumption DEF Init, Others
<1>2. IInv /\ Others /\ [Next]_vars => Others'
  BY OthersStay
<1>. QED
  BY <1>1, <1>2, AllTyped, Inductive, PTL DEF Spec

\* What may be done to what is asked for and shown is what Stage allows.
LEMMA Implements ==
  StageStep =>
    [Stage!Next]_<<IF latest = None \/ latest.phase = "out" THEN None
                   ELSE [take |-> latest.take, tpl |-> latest.tpl],
                   IF player.current = None THEN None
                   ELSE [take |-> player.current.take, tpl |-> player.current.tpl]>>
BY WindowAssumption DEF StageStep, Stage!Next, Stage!Ask, Stage!Withdraw,
   Stage!PutUp, Want, Shown, Ref, Mount

\* The window implements the promise of its stage: a new wish takes down what
\* is up unless its template is reused, and only the graphic asked for last is
\* ever put up (channelPlayer.ts apply, its generations and swaps).
THEOREM StageKept == Spec => StagePromise
<1>1. Init => Stage!Init
  BY DEF Init, InitPlayer, Stage!Init
<1>2. IInv /\ [Next]_vars => StageStep
  BY Steps
<1>. QED
  BY <1>1, <1>2, Implements, Inductive, PTL DEF Spec, StagePromise, Stage!Spec

=============================================================================
