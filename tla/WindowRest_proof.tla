-------------------------- MODULE WindowRest_proof --------------------------
(***************************************************************************)
(* A window at rest paints its source, for any number of takes, templates, *)
(* channels and faults, as long as its configuration is edited at most     *)
(* once: a second edit may point it away and back (README.md, section 6).  *)
(*                                                                         *)
(* Three groups of facts carry it.  What is due: the edit, the source's    *)
(* state and every template waited for is in flight, in a message or in    *)
(* what the hello of a new socket makes the window send.  The lines: the   *)
(* states in flight of a channel, ended by the one it has now, never       *)
(* return to a take they left, nor to one the window saw end.  What is     *)
(* drawn: the player has mounted the state accepted last, or holds the one *)
(* step that will, or lost it to its template.                             *)
(***************************************************************************)
EXTENDS OutputWindow_proof

\* The states of channel c in queue L, by position, and what they show.
Of(L, c)  == {i \in DOMAIN L : L[i].type = "state" /\ L[i].channel = c}
Has(g, t) == g # None /\ g.take = t
In(g, t)  == Has(g, t) /\ g.phase = "in"

\* Once take t is out, or replaced, it is not shown again.
InOrder(L, c) ==
  \A k, i, j \in Of(L, c), t \in Takes :
    k <= i /\ i <= j /\ Has(L[k].state, t) /\ In(L[j].state, t)
      => In(L[i].state, t)

\* A take of T is shown again only while g and all since shows it.
Continues(L, c, g, T) ==
  \A i, j \in Of(L, c), t \in T :
    i <= j /\ In(L[j].state, t) => In(g, t) /\ In(L[i].state, t)

\* What of channel c the window would get, were it told the state there is.
Line(c) == Append(toWindow, State(c, air[c]))
Seen    == lost \cup {t \in Takes : t = player.last}

----------------------------------------------------------------------------
\* Lines.

\* M holds some of the states of L, in their order, some of them repeated.
Thinned(M, L, c) ==
  \E f \in [DOMAIN M -> DOMAIN L] :
    /\ \A i, j \in DOMAIN M : i <= j => f[i] <= f[j]
    /\ \A i \in Of(M, c) : f[i] \in Of(L, c) /\ M[i].state = L[f[i]].state

LEMMA ThinnedKeeps ==
  ASSUME NEW L, NEW M, NEW c, Thinned(M, L, c)
  PROVE  /\ InOrder(L, c) => InOrder(M, c)
         /\ \A g, T : Continues(L, c, g, T) => Continues(M, c, g, T)
<1>1. PICK f \in [DOMAIN M -> DOMAIN L] :
        /\ \A i, j \in DOMAIN M : i <= j => f[i] <= f[j]
        /\ \A i \in Of(M, c) : f[i] \in Of(L, c) /\ M[i].state = L[f[i]].state
  BY DEF Thinned
<1>2. \A i \in Of(M, c) : i \in DOMAIN M
  BY DEF Of
<1>3. ASSUME InOrder(L, c) PROVE InOrder(M, c)
  <2> SUFFICES ASSUME NEW k \in Of(M, c), NEW i \in Of(M, c), NEW j \in Of(M, c),
                      NEW t \in Takes, k <= i, i <= j,
                      Has(M[k].state, t), In(M[j].state, t)
               PROVE  In(M[i].state, t)
    BY DEF InOrder
  <2>1. f[k] <= f[i] /\ f[i] <= f[j]
    BY <1>1, <1>2
  <2>2. In(L[f[i]].state, t)
    BY <1>1, <1>3, <2>1 DEF InOrder
  <2>. QED
    BY <1>1, <2>2
<1>4. ASSUME NEW g, NEW T, Continues(L, c, g, T) PROVE Continues(M, c, g, T)
  <2> SUFFICES ASSUME NEW i \in Of(M, c), NEW j \in Of(M, c), NEW t \in T,
                      i <= j, In(M[j].state, t)
               PROVE  In(g, t) /\ In(M[i].state, t)
    BY DEF Continues
  <2>1. f[i] <= f[j]
    BY <1>1, <1>2
  <2>2. In(g, t) /\ In(L[f[i]].state, t)
    BY <1>1, <1>4, <2>1 DEF Continues
  <2>. QED
    BY <1>1, <2>2
<1>. QED
  BY <1>3, <1>4

LEMMA Ends ==
  ASSUME NEW q \in Seq(ToWindow), NEW m
  PROVE  /\ Len(q) \in Nat /\ DOMAIN q = 1 .. Len(q)
         /\ DOMAIN Append(q, m) = 1 .. Len(q) + 1
         /\ \A i \in 1 .. Len(q) : Append(q, m)[i] = q[i]
         /\ Append(q, m)[Len(q) + 1] = m
OBVIOUS

LEMMA StateFields ==
  ASSUME NEW c, NEW g
  PROVE  State(c, g).type = "state" /\ State(c, g).channel = c /\ State(c, g).state = g
BY DEF State

\* The first message goes.
LEMMA TailThins ==
  ASSUME NEW q \in Seq(ToWindow), q # <<>>, NEW m, NEW c
  PROVE  Thinned(Append(Tail(q), m), Append(q, m), c)
<1> DEFINE L == Append(q, m)
           M == Append(Tail(q), m)
           n == Len(q)
           f == [i \in DOMAIN M |-> i + 1]
<1>1. /\ Tail(q) \in Seq(ToWindow) /\ Len(Tail(q)) = n - 1 /\ n \in Nat \ {0}
      /\ \A i \in 1 .. n - 1 : Tail(q)[i] = q[i + 1]
  OBVIOUS
<1>2. /\ DOMAIN L = 1 .. n + 1 /\ DOMAIN M = 1 .. n
      /\ \A i \in 1 .. n : L[i] = q[i]
      /\ \A i \in 1 .. n - 1 : M[i] = Tail(q)[i]
      /\ L[n + 1] = m /\ M[n] = m
  BY <1>1, Ends
<1> HIDE DEF L, M, n
<1>3. \A i \in DOMAIN M : M[i] = L[i + 1] /\ i + 1 \in DOMAIN L
  <2> SUFFICES ASSUME NEW i \in DOMAIN M PROVE M[i] = L[i + 1] /\ i + 1 \in DOMAIN L
    OBVIOUS
  <2>1. CASE i = n
    BY <1>1, <1>2, <2>1
  <2>2. CASE i # n
    <3>1. i \in 1 .. n - 1 /\ i + 1 \in 1 .. n
      BY <1>1, <1>2, <2>2
    <3>. QED
      BY <1>1, <1>2, <3>1
  <2>. QED
    BY <2>1, <2>2
<1>4. f \in [DOMAIN M -> DOMAIN L] /\ \A i \in DOMAIN M : f[i] = i + 1
  BY <1>3
<1>5. \A i, j \in DOMAIN M : i <= j => f[i] <= f[j]
  BY <1>1, <1>2, <1>4
<1>6. \A i \in Of(M, c) : f[i] \in Of(L, c) /\ M[i].state = L[f[i]].state
  BY <1>3, <1>4 DEF Of
<1> HIDE DEF f
<1>7. Thinned(M, L, c)
  BY <1>4, <1>5, <1>6 DEF Thinned
<1>. QED
  BY <1>7 DEF M, L

\* A message is added that is not of c, or tells what c is.
LEMMA AppendThins ==
  ASSUME NEW q \in Seq(ToWindow), NEW z \in ToWindow, NEW c, NEW g,
         z.type # "state" \/ z.channel # c \/ z = State(c, g)
  PROVE  Thinned(Append(Append(q, z), State(c, g)), Append(q, State(c, g)), c)
<1> DEFINE m == State(c, g)
           L == Append(q, m)
           M == Append(Append(q, z), m)
           n == Len(q)
           f == [i \in DOMAIN M |-> IF i <= n THEN i ELSE n + 1]
<1>1. /\ n \in Nat /\ DOMAIN L = 1 .. n + 1 /\ DOMAIN M = 1 .. n + 2
      /\ \A i \in 1 .. n : L[i] = q[i] /\ M[i] = q[i]
      /\ L[n + 1] = m /\ M[n + 1] = z /\ M[n + 2] = m
  <2>1. /\ Append(q, z) \in Seq(ToWindow) /\ Len(Append(q, z)) = n + 1 /\ n \in Nat
        /\ \A i \in 1 .. n : Append(q, z)[i] = q[i]
        /\ Append(q, z)[n + 1] = z
    BY Ends
  <2>. QED
    BY <2>1, Ends
<1>2. m.type = "state" /\ m.channel = c /\ m.state = g
  BY StateFields
<1>3. z.type # "state" \/ z.channel # c \/ z = m
  OBVIOUS
<1> HIDE DEF L, M, n, m
<1>4. f \in [DOMAIN M -> DOMAIN L]
      /\ \A i \in DOMAIN M : f[i] = IF i <= n THEN i ELSE n + 1
  BY <1>1
<1>5. \A i, j \in DOMAIN M : i <= j => f[i] <= f[j]
  BY <1>1, <1>4
<1>6. ASSUME NEW i \in Of(M, c)
      PROVE  f[i] \in Of(L, c) /\ M[i].state = L[f[i]].state
  <2>0. i \in 1 .. n + 2 /\ M[i].type = "state" /\ M[i].channel = c
    BY <1>1, <1>6 DEF Of
  <2>1. CASE i <= n
    BY <1>1, <1>4, <2>0, <2>1 DEF Of
  <2>2. CASE i > n
    <3>1. M[i] = m
      BY <1>1, <1>3, <2>0, <2>2
    <3>2. f[i] = n + 1 /\ n + 1 \in DOMAIN L /\ L[n + 1] = m
      BY <1>1, <1>4, <2>0, <2>2
    <3>. QED
      BY <1>2, <3>1, <3>2 DEF Of
  <2>. QED
    BY <1>1, <2>0, <2>1, <2>2
<1> HIDE DEF f
<1>7. Thinned(M, L, c)
  BY <1>4, <1>5, <1>6 DEF Thinned
<1>. QED
  BY <1>7 DEF M, L, m

\* The socket drops, or comes up.
LEMMA DropThins ==
  ASSUME NEW q \in Seq(ToWindow), NEW r \in {<<>>, <<Hello>>}, NEW c, NEW g
  PROVE  Thinned(Append(r, State(c, g)), Append(q, State(c, g)), c)
<1> DEFINE m == State(c, g)
           L == Append(q, m)
           M == Append(r, m)
           n == Len(q)
           f == [i \in DOMAIN M |-> n + 1]
<1>1. n \in Nat /\ DOMAIN L = 1 .. n + 1 /\ L[n + 1] = m
  BY Ends
<1>2. m.type = "state" /\ m.channel = c /\ Hello.type # "state"
  BY StateFields DEF Hello
<1>3. \A i \in DOMAIN M : M[i] = m \/ M[i] = Hello
  <2>1. Hello \in ToWindow
    BY DEF Hello, ToWindow
  <2>2. r \in Seq(ToWindow) /\ \A i \in 1 .. Len(r) : r[i] = Hello
    <3>1. CASE r = <<>>
      BY <3>1
    <3>2. CASE r = <<Hello>>
      <4>1. Len(<<Hello>>) = 1 /\ <<Hello>>[1] = Hello
        OBVIOUS
      <4>2. \A h \in ToWindow : <<h>> \in Seq(ToWindow)
        OBVIOUS
      <4>. QED
        BY <2>1, <3>2, <4>1, <4>2
    <3>. QED
      BY <3>1, <3>2
  <2>3. /\ Len(r) \in Nat /\ DOMAIN M = 1 .. Len(r) + 1
        /\ \A i \in 1 .. Len(r) : M[i] = r[i]
        /\ M[Len(r) + 1] = m
    BY <2>2, Ends
  <2>. QED
    BY <2>2, <2>3
<1> HIDE DEF L, M, n, m
<1>4. f \in [DOMAIN M -> DOMAIN L] /\ \A i \in DOMAIN M : f[i] = n + 1
  BY <1>1
<1>5. \A i, j \in DOMAIN M : i <= j => f[i] <= f[j]
  BY <1>1, <1>4
<1>6. \A i \in Of(M, c) : f[i] \in Of(L, c) /\ M[i].state = L[f[i]].state
  BY <1>1, <1>2, <1>3, <1>4 DEF Of
<1> HIDE DEF f
<1>7. Thinned(M, L, c)
  BY <1>4, <1>5, <1>6 DEF Thinned
<1>. QED
  BY <1>7 DEF M, L, m

\* The channel turns from a to g: g is dark, or an update of a, or a take that
\* was not seen and is not in the queue.
Follow(q, c, a, g, T) ==
  \/ \A t \in Takes : ~In(g, t)
  \/ \A t \in Takes : In(g, t) => In(a, t)
  \/ \A t \in Takes : In(g, t) =>
       t \notin T /\ \A i \in Of(q, c) : ~Has(q[i].state, t)

LEMMA Replaced ==
  ASSUME NEW q \in Seq(ToWindow), NEW c, NEW a, NEW g, NEW x, NEW T \in SUBSET Takes,
         NEW L, L = Append(q, State(c, a)), NEW M, M = Append(q, State(c, g)),
         InOrder(L, c), Continues(L, c, x, T),
         Follow(q, c, a, g, T)
  PROVE  InOrder(M, c) /\ Continues(M, c, x, T)
<1> DEFINE n == Len(q)
<1>1. /\ n \in Nat /\ DOMAIN L = 1 .. n + 1 /\ DOMAIN M = 1 .. n + 1
      /\ DOMAIN q = 1 .. n
      /\ \A i \in 1 .. n : L[i] = q[i] /\ M[i] = q[i]
      /\ L[n + 1] = State(c, a) /\ M[n + 1] = State(c, g)
  BY Ends
<1> HIDE DEF n
<1>2. /\ n + 1 \in Of(L, c) /\ n + 1 \in Of(M, c)
      /\ L[n + 1].state = a /\ M[n + 1].state = g
  BY <1>1, StateFields DEF Of
<1>3. /\ Of(L, c) = Of(M, c)
      /\ \A i \in Of(M, c) : i \in 1 .. n + 1
      /\ \A i \in Of(M, c) : i # n + 1 => M[i] = L[i] /\ i \in Of(q, c) /\ M[i] = q[i]
  BY <1>1, <1>2 DEF Of
<1>4. \A t \in Takes : In(g, t) => Has(g, t)
  BY DEF In
<1>5. InOrder(M, c)
  <2> SUFFICES ASSUME NEW k \in Of(M, c), NEW i \in Of(M, c), NEW j \in Of(M, c),
                      NEW t \in Takes, k <= i, i <= j,
                      Has(M[k].state, t), In(M[j].state, t)
               PROVE  In(M[i].state, t)
    BY DEF InOrder
  <2>1. CASE i = n + 1
    <3>1. j = n + 1
      BY <1>1, <1>3, <2>1
    <3>. QED
      BY <2>1, <3>1
  <2>2. CASE i # n + 1
    <3>1. k # n + 1 /\ i \in 1 .. n /\ k \in 1 .. n
      BY <1>1, <1>3, <2>2
    <3>2. M[k] = L[k] /\ M[i] = L[i] /\ k \in Of(q, c) /\ Has(q[k].state, t)
      BY <1>3, <2>2, <3>1
    <3>3. In(L[j].state, t)
      <4>1. CASE j # n + 1
        BY <1>3, <4>1
      <4>2. CASE j = n + 1
        BY <1>2, <3>2, <4>2 DEF Follow
      <4>. QED
        BY <4>1, <4>2
    <3>. QED
      BY <1>3, <3>2, <3>3 DEF InOrder
  <2>. QED
    BY <2>1, <2>2
<1>6. Continues(M, c, x, T)
  <2> SUFFICES ASSUME NEW i \in Of(M, c), NEW j \in Of(M, c), NEW t \in T,
                      i <= j, In(M[j].state, t)
               PROVE  In(x, t) /\ In(M[i].state, t)
    BY DEF Continues
  <2>1. In(L[j].state, t)
    <3>1. CASE j # n + 1
      BY <1>3, <3>1
    <3>2. CASE j = n + 1
      BY <1>2, <3>2 DEF Follow
    <3>. QED
      BY <3>1, <3>2
  <2>2. In(x, t) /\ In(L[i].state, t)
    BY <1>3, <2>1 DEF Continues
  <2>3. In(M[i].state, t)
    <3>1. CASE i # n + 1
      BY <1>3, <2>2, <3>1
    <3>2. CASE i = n + 1
      <4>1. j = n + 1
        BY <1>1, <1>3, <3>2
      <4>. QED
        BY <3>2, <4>1
    <3>. QED
      BY <3>1, <3>2
  <2>. QED
    BY <2>2, <2>3
<1>. QED
  BY <1>5, <1>6

\* The window accepts the first state: it goes on from there.
LEMMA HeadContinues ==
  ASSUME NEW q \in Seq(ToWindow), q # <<>>, NEW c, NEW a, NEW x, NEW T, NEW U,
         Head(q).type = "state", Head(q).channel = c,
         NEW L, L = Append(q, State(c, a)), NEW M, M = Append(Tail(q), State(c, a)),
         InOrder(L, c), Continues(L, c, x, T),
         U \subseteq T \cup {t \in Takes : Has(Head(q).state, t)}
  PROVE  Continues(M, c, Head(q).state, U)
<1> DEFINE n == Len(q)
           m == State(c, a)
           g == Head(q).state
<1>1. /\ Tail(q) \in Seq(ToWindow) /\ Len(Tail(q)) = n - 1 /\ n \in Nat \ {0}
      /\ \A i \in 1 .. n - 1 : Tail(q)[i] = q[i + 1]
      /\ Head(q) = q[1]
  OBVIOUS
<1>2. /\ DOMAIN L = 1 .. n + 1 /\ DOMAIN M = 1 .. n
      /\ \A i \in 1 .. n : L[i] = q[i]
      /\ \A i \in 1 .. n - 1 : M[i] = Tail(q)[i]
      /\ L[n + 1] = m /\ M[n] = m
  BY <1>1, Ends
<1>3. L[1].state = g /\ 1 \in Of(L, c)
  BY <1>1, <1>2 DEF Of
<1> HIDE DEF n, m, g
<1>4. \A i \in Of(M, c) : i + 1 \in Of(L, c) /\ 1 <= i /\ i \in Nat /\ M[i] = L[i + 1]
  <2> SUFFICES ASSUME NEW i \in Of(M, c)
               PROVE  i + 1 \in Of(L, c) /\ 1 <= i /\ i \in Nat /\ M[i] = L[i + 1]
    OBVIOUS
  <2>1. i \in 1 .. n
    BY <1>2 DEF Of
  <2>2. M[i] = L[i + 1] /\ i + 1 \in DOMAIN L
    <3>1. CASE i = n
      BY <1>1, <1>2, <3>1
    <3>2. CASE i # n
      <4>1. i \in 1 .. n - 1 /\ i + 1 \in 1 .. n
        BY <1>1, <2>1, <3>2
      <4>. QED
        BY <1>1, <1>2, <4>1
    <3>. QED
      BY <3>1, <3>2
  <2>. QED
    BY <1>1, <2>1, <2>2 DEF Of
<1>5. SUFFICES ASSUME NEW i \in Of(M, c), NEW j \in Of(M, c), NEW t \in U,
                      i <= j, In(M[j].state, t)
               PROVE  In(g, t) /\ In(M[i].state, t)
  BY DEF Continues, g
<1>6. /\ i + 1 \in Of(L, c) /\ j + 1 \in Of(L, c) /\ In(L[j + 1].state, t)
      /\ 1 <= i + 1 /\ i + 1 <= j + 1 /\ 1 <= j + 1 /\ 1 <= 1
  <2>1. i + 1 \in Of(L, c) /\ j + 1 \in Of(L, c) /\ i \in Nat /\ j \in Nat
    BY <1>4
  <2>2. In(L[j + 1].state, t)
    BY <1>4, <1>5
  <2>3. 1 <= i + 1 /\ i + 1 <= j + 1 /\ 1 <= j + 1 /\ 1 <= 1
    BY <1>5, <2>1
  <2>. QED
    BY <2>1, <2>2, <2>3
<1>7. CASE t \in T
  <2>1. In(L[1].state, t) /\ In(L[i + 1].state, t)
    BY <1>3, <1>6, <1>7 DEF Continues
  <2>. QED
    BY <1>3, <1>4, <2>1
<1>8. CASE t \in Takes /\ Has(g, t)
  <2>1. In(L[1].state, t) /\ In(L[i + 1].state, t)
    BY <1>3, <1>6, <1>8 DEF InOrder
  <2>. QED
    BY <1>3, <1>4, <2>1
<1>. QED
  BY <1>5, <1>7, <1>8 DEF g

----------------------------------------------------------------------------
\* The lines of a step.

\* State g is of channel c, if take n was on channel h[n].
Mine(h, c, g) == g # None => g.take <= taken /\ h[g.take] = c

\* Before its first edit the window has seen takes of its own channel only.
Owned(h) ==
  /\ \A c \in Channels : Mine(h, c, air[c])
  /\ \A i \in DOMAIN toWindow : toWindow[i].type = "state" =>
       Mine(h, toWindow[i].channel, toWindow[i].state)
  /\ \A t \in Seen : t <= taken /\ (source = Own => h[t] = Own)

Ordered == \A c \in Channels : InOrder(Line(c), c)
Caught  == Continues(Line(source), source, latest, Seen)
Owns    == \E h \in [Takes -> Channels] : Owned(h)
Lines   == Ordered /\ Caught /\ Owns

LEMMA LinesBegin == Init => Lines
<1> SUFFICES ASSUME Init PROVE Lines
  OBVIOUS
<1> USE WindowAssumption DEF Init
<1>1. \A c \in Channels : Line(c) = <<State(c, None)>>
  BY DEF Line
<1>2. \A c \in Channels : \A i \in Of(Line(c), c) : Line(c)[i].state = None
  BY <1>1, StateFields DEF Of
<1>3. Seen = {}
  BY DEF Seen, InitPlayer, Takes
<1>4. [n \in Takes |-> Own] \in [Takes -> Channels]
  OBVIOUS
<1>5. Owned([n \in Takes |-> Own])
  BY <1>3 DEF Owned, Mine
<1>6. Ordered /\ Caught
  BY <1>2, <1>3 DEF Ordered, Caught, InOrder, Continues, In, Has
<1>. QED
  BY <1>4, <1>5, <1>6 DEF Lines, Owns

\* How a step that leaves the channels alone may change the queue.
QueueStep ==
  \/ toWindow' = toWindow
  \/ toWindow # <<>> /\ toWindow' = Tail(toWindow)
  \/ toWindow' \in {<<>>, <<Hello>>}
  \/ \E z \in ToWindow :
       /\ toWindow' = Append(toWindow, z)
       /\ z.type = "state" => z = State(z.channel, air[z.channel])

LEMMA QueueThins ==
  ASSUME IInv, QueueStep, air' = air, NEW c \in Channels
  PROVE  Thinned(Line(c)', Line(c), c)
<1> DEFINE m == State(c, air[c])
<1>1. toWindow \in Seq(ToWindow)
  BY DEF IInv, Typed
<1>2. Line(c) = Append(toWindow, m) /\ Line(c)' = Append(toWindow', m)
  BY DEF Line
<1>3. CASE toWindow' = toWindow
  <2> DEFINE L == Line(c)
             f == [i \in DOMAIN L |-> i]
  <2>1. f \in [DOMAIN L -> DOMAIN L] /\ \A i \in DOMAIN L : f[i] = i
    OBVIOUS
  <2>2. \A i \in Of(L, c) : f[i] \in Of(L, c) /\ L[i].state = L[f[i]].state
    BY DEF Of
  <2>3. \A i, j \in DOMAIN L : i <= j => f[i] <= f[j]
    OBVIOUS
  <2> HIDE DEF f, L
  <2>4. Thinned(L, L, c)
    BY <2>1, <2>2, <2>3 DEF Thinned
  <2>. QED
    BY <1>2, <1>3, <2>4 DEF L
<1>4. CASE toWindow # <<>> /\ toWindow' = Tail(toWindow)
  BY <1>1, <1>2, <1>4, TailThins
<1>5. CASE toWindow' \in {<<>>, <<Hello>>}
  BY <1>1, <1>2, <1>5, DropThins
<1>6. ASSUME NEW z \in ToWindow, toWindow' = Append(toWindow, z),
             z.type = "state" => z = State(z.channel, air[z.channel])
      PROVE  Thinned(Line(c)', Line(c), c)
  <2>1. z.type # "state" \/ z.channel # c \/ z = m
    BY <1>6
  <2>. QED
    BY <1>1, <1>2, <1>6, <2>1, AppendThins
<1>. QED
  BY <1>3, <1>4, <1>5, <1>6 DEF QueueStep

\* The messages of such a step are old ones, or tell what a channel is.
LEMMA QueueMessages ==
  ASSUME IInv, QueueStep, NEW i \in DOMAIN toWindow', toWindow'[i].type = "state"
  PROVE  \/ \E j \in DOMAIN toWindow : toWindow'[i] = toWindow[j]
         \/ \E c \in Channels : /\ toWindow'[i].channel = c
                                /\ toWindow'[i].state = air[c]
<1>1. toWindow \in Seq(ToWindow)
  BY DEF IInv, Typed
<1>2. CASE toWindow' = toWindow
  BY <1>2
<1>3. CASE toWindow # <<>> /\ toWindow' = Tail(toWindow)
  BY <1>1, <1>3, Removed
<1>4. CASE toWindow' \in {<<>>, <<Hello>>}
  BY <1>4 DEF Hello
<1>5. ASSUME NEW z \in ToWindow, toWindow' = Append(toWindow, z),
             z.type = "state" => z = State(z.channel, air[z.channel])
      PROVE  \/ \E j \in DOMAIN toWindow : toWindow'[i] = toWindow[j]
             \/ \E c \in Channels : /\ toWindow'[i].channel = c
                                    /\ toWindow'[i].state = air[c]
  <2>1. CASE toWindow'[i] = z
    <3>1. z.channel \in Channels /\ z.state = air[z.channel]
      BY <1>5, <2>1, States, StateFields
    <3>. QED
      BY <2>1, <3>1
  <2>. QED
    BY <1>1, <1>5, <2>1, Appended
<1>. QED
  BY <1>2, <1>3, <1>4, <1>5 DEF QueueStep

\* Whose take is whose does not change.
LEMMA OwnsKeep ==
  ASSUME IInv, Owns, QueueStep, UNCHANGED <<air, taken>>,
         source' = Own => source = Own,
         \/ Seen' \subseteq Seen
         \/ /\ toWindow # <<>> /\ Head(toWindow).type = "state"
            /\ Head(toWindow).channel = source
            /\ Seen' \subseteq Seen \cup {t \in Takes : Has(Head(toWindow).state, t)}
  PROVE  Owns'
<1>1. PICK h \in [Takes -> Channels] : Owned(h)
  BY DEF Owns
<1>2. \A c, g : Mine(h, c, g)' <=> Mine(h, c, g)
  BY DEF Mine
<1>3. \A c \in Channels : Mine(h, c, air[c])'
  BY <1>1, <1>2 DEF Owned, Mine
<1>4. ASSUME NEW i \in DOMAIN toWindow', toWindow'[i].type = "state"
      PROVE  Mine(h, toWindow[i].channel, toWindow[i].state)'
  BY <1>1, <1>4, QueueMessages DEF Owned, Mine
<1>5. ASSUME NEW t \in Seen'
      PROVE  t <= taken' /\ (source' = Own => h[t] = Own)
  <2>1. CASE t \in Seen
    BY <1>1, <2>1 DEF Owned
  <2>2. CASE t \notin Seen
    <3>1. /\ toWindow # <<>> /\ Head(toWindow).type = "state"
          /\ Head(toWindow).channel = source /\ Has(Head(toWindow).state, t)
      BY <1>5, <2>2
    <3>2. \E j \in DOMAIN toWindow : Head(toWindow) = toWindow[j]
      BY <3>1, Removed DEF IInv, Typed
    <3>3. Mine(h, source, Head(toWindow).state)
      BY <1>1, <3>1, <3>2 DEF Owned
    <3>. QED
      BY <3>1, <3>3 DEF Mine, Has
  <2>. QED
    BY <2>1, <2>2
<1>6. Owned(h)'
  BY <1>3, <1>4, <1>5 DEF Owned
<1>. QED
  BY <1>6 DEF Owns

\* A step of the messages, or of the player, that accepts no state.
LEMMA LinesKeep ==
  ASSUME IInv, Lines, QueueStep, UNCHANGED <<air, taken, source, latest>>,
         Seen' \subseteq Seen
  PROVE  Lines'
<1>1. Owns'
  BY OwnsKeep DEF Lines
<1>2. \A c \in Channels : Thinned(Line(c)', Line(c), c)
  BY QueueThins
<1>3. Ordered'
  BY <1>2, ThinnedKeeps DEF Lines, Ordered
<1>4. Caught'
  <2>1. source \in Channels
    BY DEF IInv, Typed
  <2>2. Continues(Line(source)', source, latest, Seen)
    BY <1>2, <2>1, ThinnedKeeps DEF Lines, Caught
  <2>3. Line(source)' = Append(toWindow', State(source, air[source]))
    BY DEF Line
  <2>4. Continues(Append(toWindow', State(source, air[source])), source, latest, Seen')
    BY <2>2, <2>3 DEF Continues
  <2>. QED
    BY <2>4 DEF Caught, Line
<1>. QED
  BY <1>1, <1>3, <1>4 DEF Lines

\* What a channel may turn to: nothing, an update or the end of its take, or
\* the next take.
Turns(c, g) ==
  \/ taken' = taken /\ g = None
  \/ /\ taken' = taken /\ g \in Graphic /\ air[c] # None
     /\ g.take = air[c].take /\ (g.phase = "in" => air[c].phase = "in")
  \/ taken' = taken + 1 /\ taken' \in Takes /\ g \in Graphic /\ g.take = taken'

LEMMA TakesTurn ==
  ASSUME IInv, NEW c \in Used,
         TakeOn(c) \/ UpdateOn(c) \/ ClearOn(c) \/ SweepOn(c)
  PROVE  c \in Channels /\ \E g \in Graphic \cup {None} : Becomes(c, g) /\ Turns(c, g)
<1>1. c \in Channels /\ air[c] \in Graphic \cup {None}
      /\ taken \in Nat /\ MaxTakes \in Nat /\ taken \in 0 .. MaxTakes
  BY WindowAssumption DEF IInv, Typed
<1>2. CASE TakeOn(c)
  <2>1. PICK t \in Templates :
          /\ taken < MaxTakes /\ taken' = taken + 1
          /\ Becomes(c, [take |-> taken', tpl |-> t, data |-> 1, phase |-> "in"])
    BY <1>2 DEF TakeOn
  <2> DEFINE g == [take |-> taken', tpl |-> t, data |-> 1, phase |-> "in"]
  <2>2. taken' \in Takes /\ 1 \in Data
    BY <1>1, <2>1, WindowAssumption DEF Takes, Data
  <2>3. g \in Graphic /\ g.take = taken' /\ Becomes(c, g)
    BY <2>1, <2>2 DEF Graphic
  <2> HIDE DEF g
  <2>. QED
    BY <1>1, <2>1, <2>2, <2>3 DEF Turns
<1>3. CASE UpdateOn(c)
  <2> DEFINE g == [air[c] EXCEPT !.data = @ + 1]
  <2>1. air[c] \in Graphic /\ Becomes(c, g) /\ taken' = taken /\ air[c].data < MaxData
        /\ air[c] # None /\ air[c].phase = "in"
    BY <1>1, <1>3 DEF UpdateOn
  <2>2. air[c].data + 1 \in Data
    BY <2>1, WindowAssumption DEF Graphic, Data
  <2>3. g \in Graphic /\ g.take = air[c].take
    BY <2>1, <2>2 DEF Graphic
  <2> HIDE DEF g
  <2>. QED
    BY <1>1, <2>1, <2>3 DEF Turns
<1>4. CASE ClearOn(c)
  <2> DEFINE g == [air[c] EXCEPT !.phase = "out"]
  <2>1. air[c] \in Graphic /\ Becomes(c, g) /\ taken' = taken /\ air[c] # None
    BY <1>1, <1>4 DEF ClearOn
  <2>2. g \in Graphic /\ g.take = air[c].take /\ g.phase # "in"
    BY <2>1 DEF Graphic
  <2> HIDE DEF g
  <2>. QED
    BY <1>1, <2>1, <2>2 DEF Turns
<1>5. CASE SweepOn(c)
  BY <1>1, <1>5 DEF SweepOn, Turns
<1>. QED
  BY <1>2, <1>3, <1>4, <1>5

LEMMA SeenTakes == Others => Seen \subseteq Takes
BY DEF Others, Seen

LEMMA BecomesOwns ==
  ASSUME IInv, Others, Owns, NEW c \in Channels, NEW g \in Graphic \cup {None},
         Becomes(c, g), Turns(c, g)
  PROVE  Owns'
<1>1. UNCHANGED <<source, Seen>> /\ air' = [air EXCEPT ![c] = g]
  BY DEF Becomes, window, Seen
<1>2. toWindow \in Seq(ToWindow) /\ State(c, g) \in ToWindow /\ taken \in 0 .. MaxTakes
      /\ MaxTakes \in Nat /\ air \in [Channels -> Graphic \cup {None}]
  BY WindowAssumption DEF IInv, Typed, State, ToWindow
<1>3. PICK f \in [Takes -> Channels] : Owned(f)
  BY DEF Owns
<1>4. PICK h \in [Takes -> Channels] :
        /\ \A n \in Takes : n <= taken => h[n] = f[n]
        /\ g # None => g.take <= taken' /\ h[g.take] = c
  <2>1. CASE taken' = taken /\ (g # None => air[c] # None /\ g.take = air[c].take)
    <3>1. g # None => g.take <= taken' /\ f[g.take] = c
      BY <1>3, <2>1 DEF Owned, Mine
    <3>. QED
      BY <3>1
  <2>2. CASE taken' = taken + 1 /\ taken' \in Takes /\ g \in Graphic /\ g.take = taken'
    <3> DEFINE h == [f EXCEPT ![taken'] = c]
    <3>1. h \in [Takes -> Channels] /\ h[taken'] = c
      BY <2>2
    <3>2. \A n \in Takes : n <= taken => h[n] = f[n]
      BY <1>2, <2>2 DEF Takes
    <3> HIDE DEF h
    <3>3. g.take <= taken'
      BY <1>2, <2>2
    <3>. QED
      BY <2>2, <3>1, <3>2, <3>3
  <2>. QED
    BY <2>1, <2>2 DEF Turns
<1>5. taken <= taken' /\ taken' \in Nat
  BY <1>2 DEF Turns
<1>6. \A t \in Takes : t \in Nat
  BY DEF Takes
<1>7. ASSUME NEW d, NEW x \in Graphic \cup {None}, Mine(f, d, x)
      PROVE  Mine(h, d, x)'
  <2> SUFFICES ASSUME x # None PROVE x.take <= taken' /\ h[x.take] = d
    BY DEF Mine
  <2>1. x.take \in Takes
    BY DEF Graphic
  <2>2. x.take <= taken /\ f[x.take] = d
    BY <1>7 DEF Mine
  <2>. QED
    BY <1>2, <1>4, <1>5, <1>6, <2>1, <2>2
<1>8. ASSUME NEW d \in Channels PROVE Mine(h, d, air[d])'
  <2>1. CASE d = c
    BY <1>1, <1>2, <1>4, <2>1 DEF Mine
  <2>2. CASE d # c
    <3>1. air'[d] = air[d] /\ air[d] \in Graphic \cup {None} /\ Mine(f, d, air[d])
      BY <1>1, <1>2, <1>3, <2>2 DEF Owned
    <3>. QED
      BY <1>7, <3>1 DEF Mine
  <2>. QED
    BY <2>1, <2>2
<1>9. ASSUME NEW i \in DOMAIN toWindow', toWindow'[i].type = "state"
      PROVE  Mine(h, toWindow[i].channel, toWindow[i].state)'
  <2>1. CASE toWindow'[i] = State(c, g)
    BY <1>4, <2>1, StateFields DEF Mine
  <2>2. ASSUME NEW j \in DOMAIN toWindow, toWindow'[i] = toWindow[j]
        PROVE  Mine(h, toWindow[i].channel, toWindow[i].state)'
    <3>1. toWindow[j] \in ToWindow /\ toWindow[j].type = "state"
      BY <1>2, <1>9, <2>2
    <3>2. toWindow[j].state \in Graphic \cup {None}
          /\ Mine(f, toWindow[j].channel, toWindow[j].state)
      BY <1>3, <3>1, States DEF Owned
    <3>. QED
      BY <1>7, <2>2, <3>2 DEF Mine
  <2>3. toWindow'[i] = State(c, g) \/ \E j \in DOMAIN toWindow : toWindow'[i] = toWindow[j]
    <3>1. CASE toWindow' = toWindow
      BY <1>9, <3>1
    <3>2. CASE toWindow' = Append(toWindow, State(c, g))
      BY <1>2, <1>9, <3>2, Appended
    <3>. QED
      BY <3>1, <3>2 DEF Becomes
  <2>. QED
    BY <2>1, <2>2, <2>3
<1>10. \A t \in Seen' : t <= taken' /\ (source' = Own => h[t] = Own)
  <2>1. ASSUME NEW t \in Seen, t \in Takes
        PROVE  t <= taken' /\ (source = Own => h[t] = Own)
    <3>1. t <= taken /\ (source = Own => f[t] = Own)
      BY <1>3, <2>1 DEF Owned
    <3>. QED
      BY <1>2, <1>4, <1>5, <1>6, <2>1, <3>1
  <2>. QED
    BY <1>1, <2>1, SeenTakes
<1>. QED
  BY <1>8, <1>9, <1>10 DEF Owns, Owned

\* A channel that turns to g keeps the lines in order.
LEMMA BecomesLines ==
  ASSUME IInv, Others, Lines, NEW c \in Channels, NEW g \in Graphic \cup {None},
         Becomes(c, g), Turns(c, g)
  PROVE  Lines'
<1>0. /\ UNCHANGED <<source, latest, Seen>> /\ air' = [air EXCEPT ![c] = g]
      /\ \/ toWindow' = toWindow
         \/ toWindow' = Append(toWindow, State(c, g))
  BY DEF Becomes, window, Seen
<1>1. /\ toWindow \in Seq(ToWindow) /\ State(c, g) \in ToWindow /\ source \in Channels
      /\ air \in [Channels -> Graphic \cup {None}] /\ Seen \subseteq Takes
      /\ taken \in Nat
  BY SeenTakes DEF IInv, Typed, State, ToWindow
<1>2. PICK h \in [Takes -> Channels] : Owned(h)
  BY DEF Lines, Owns
<1> DEFINE q == Append(toWindow, State(c, g))
<1>3. Follow(toWindow, c, air[c], g, Seen)
  <2>1. CASE taken' = taken /\ g = None
    BY <2>1 DEF Follow, In, Has
  <2>2. CASE /\ taken' = taken /\ g \in Graphic /\ air[c] # None
             /\ g.take = air[c].take /\ (g.phase = "in" => air[c].phase = "in")
    BY <2>2 DEF Follow, In, Has
  <2>3. CASE taken' = taken + 1 /\ taken' \in Takes /\ g \in Graphic /\ g.take = taken'
    <3> SUFFICES ASSUME NEW t \in Takes, In(g, t)
                 PROVE  /\ t \notin Seen
                        /\ \A i \in Of(toWindow, c) : ~Has(toWindow[i].state, t)
      BY DEF Follow
    <3>1. t = taken + 1 /\ ~(t <= taken)
      BY <1>1, <2>3 DEF In, Has
    <3>2. t \notin Seen
      BY <1>2, <3>1 DEF Owned
    <3>3. \A i \in Of(toWindow, c) : ~Has(toWindow[i].state, t)
      BY <1>2, <3>1 DEF Owned, Mine, Of, Has
    <3>. QED
      BY <3>2, <3>3
  <2>. QED
    BY <2>1, <2>2, <2>3 DEF Turns
<1>4. /\ InOrder(q, c)
      /\ c = source => Continues(q, c, latest, Seen)
  <2> DEFINE T == IF c = source THEN Seen ELSE {}
  <2>1. T \in SUBSET Takes /\ T \subseteq Seen
    BY <1>1
  <2>2. InOrder(Line(c), c) /\ Continues(Line(c), c, latest, T)
    BY DEF Lines, Ordered, Caught, Continues
  <2>3. Line(c) = Append(toWindow, State(c, air[c]))
    BY DEF Line
  <2>4. Follow(toWindow, c, air[c], g, T)
    BY <1>3, <2>1 DEF Follow
  <2> HIDE DEF T, q
  <2>5. q = Append(toWindow, State(c, g))
    BY DEF q
  <2>6. InOrder(q, c) /\ Continues(q, c, latest, T)
    BY <1>1, <2>1, <2>2, <2>3, <2>4, <2>5, Replaced
  <2>. QED
    BY <2>6 DEF T
<1>5. /\ Line(c)' = q \/ Line(c)' = Append(q, State(c, g))
      /\ Thinned(Append(q, State(c, g)), q, c)
  <2>1. Line(c)' = Append(toWindow', State(c, g))
    BY <1>0, <1>1 DEF Line
  <2>2. Thinned(Append(q, State(c, g)), q, c)
    BY <1>1, AppendThins
  <2>. QED
    BY <1>0, <2>1, <2>2
<1>6. ASSUME NEW d \in Channels, d # c
      PROVE  Line(d)' = Line(d) \/ Thinned(Line(d)', Line(d), d)
  <2>1. Line(d)' = Append(toWindow', State(d, air[d]))
    BY <1>0, <1>1, <1>6 DEF Line
  <2>2. Line(d) = Append(toWindow, State(d, air[d]))
    BY DEF Line
  <2>3. Thinned(Append(q, State(d, air[d])), Append(toWindow, State(d, air[d])), d)
    BY <1>1, <1>6, StateFields, AppendThins
  <2>. QED
    BY <1>0, <2>1, <2>2, <2>3
<1> HIDE DEF q
<1>7. Ordered'
  <2> SUFFICES ASSUME NEW d \in Channels PROVE InOrder(Line(d), d)'
    BY DEF Ordered
  <2>1. CASE d = c
    BY <1>4, <1>5, <2>1, ThinnedKeeps
  <2>2. CASE d # c
    <3>1. InOrder(Line(d), d)
      BY DEF Lines, Ordered
    <3>. QED
      BY <1>6, <2>2, <3>1, ThinnedKeeps
  <2>. QED
    BY <2>1, <2>2
<1>8. PICK s \in Channels : s = source
  BY <1>1
<1>9. Continues(Line(s), s, latest, Seen)'
  <2>1. Continues(Line(s), s, latest, Seen)
    BY <1>8 DEF Lines, Caught
  <2>2. CASE s = c
    <3>1. Continues(q, s, latest, Seen)
      BY <1>4, <1>8, <2>2
    <3>2. Line(s)' = q \/ Thinned(Line(s)', q, s)
      BY <1>5, <2>2
    <3>3. Continues(Line(s)', s, latest, Seen)
      BY <3>1, <3>2, ThinnedKeeps
    <3>. QED
      BY <1>0, <3>3
  <2>3. CASE s # c
    <3>1. Continues(Line(s)', s, latest, Seen)
      BY <1>6, <2>1, <2>3, ThinnedKeeps
    <3>. QED
      BY <1>0, <3>1
  <2>. QED
    BY <2>2, <2>3
<1>10. Caught'
  <2>1. s = source'
    BY <1>0, <1>8
  <2>. QED
    BY <1>9, <2>1 DEF Caught, Line
<1>. QED
  BY <1>7, <1>10, BecomesOwns DEF Lines

\* The window turns to a source it has seen no take of.
LEMMA TargetLines ==
  ASSUME IInv, Others, Lines, QueueStep, source = Own, source' # Own,
         source' \in Channels, UNCHANGED <<air, taken, latest>>, Seen' \subseteq Seen
  PROVE  Lines'
<1>1. Owns'
  BY OwnsKeep DEF Lines
<1>2. Ordered'
  BY QueueThins, ThinnedKeeps DEF Lines, Ordered
<1>3. PICK h \in [Takes -> Channels] : Owned(h)
  BY DEF Lines, Owns
<1>0. PICK d \in Channels : d = source' /\ d # Own
  OBVIOUS
<1>4. ASSUME NEW j \in Of(Line(d)', d), NEW t \in Seen PROVE ~In(Line(d)'[j].state, t)
  <2>1. Thinned(Line(d)', Line(d), d)
    BY QueueThins
  <2>2. PICK i \in Of(Line(d), d) : Line(d)'[j].state = Line(d)[i].state
    BY <1>4, <2>1 DEF Thinned
  <2>3. Mine(h, d, Line(d)[i].state)
    <3>1. toWindow \in Seq(ToWindow) /\ i \in DOMAIN Line(d)
          /\ Line(d)[i].type = "state" /\ Line(d)[i].channel = d
      BY <2>2 DEF IInv, Typed, Of
    <3>2. CASE Line(d)[i] = State(d, air[d])
      BY <1>3, <3>2, StateFields DEF Owned
    <3>3. CASE i \in DOMAIN toWindow /\ Line(d)[i] = toWindow[i]
      BY <1>3, <3>1, <3>3 DEF Owned
    <3>. QED
      BY <3>1, <3>2, <3>3, Ends DEF Line
  <2>4. h[t] = Own
    BY <1>3, <1>4 DEF Owned
  <2>. QED
    BY <1>0, <2>2, <2>3, <2>4 DEF Mine, In, Has
<1>5. Continues(Line(d), d, latest, Seen)'
  BY <1>4 DEF Continues
<1>6. Caught'
  BY <1>0, <1>5 DEF Caught, Line
<1>. QED
  BY <1>1, <1>2, <1>6 DEF Lines

\* The window accepts a state of its source.
LEMMA StateLines ==
  ASSUME IInv, Others, Lines, toWindow # <<>>, toWindow' = Tail(toWindow),
         Head(toWindow).type = "state", Head(toWindow).channel = source,
         latest' = Head(toWindow).state, UNCHANGED <<air, taken, source>>,
         Seen' \subseteq Seen \cup {t \in Takes : Has(Head(toWindow).state, t)}
  PROVE  Lines'
<1>1. QueueStep
  BY DEF QueueStep
<1>2. Owns'
  BY <1>1, OwnsKeep DEF Lines
<1>3. Ordered'
  BY <1>1, QueueThins, ThinnedKeeps DEF Lines, Ordered
<1>4. /\ toWindow \in Seq(ToWindow) /\ source \in Channels
      /\ InOrder(Line(source), source) /\ Continues(Line(source), source, latest, Seen)
  BY DEF IInv, Typed, Lines, Ordered, Caught
<1>5. /\ Line(source) = Append(toWindow, State(source, air[source]))
      /\ Line(source)' = Append(Tail(toWindow), State(source, air[source]))
  BY DEF Line
<1>6. Continues(Line(source)', source, Head(toWindow).state, Seen')
  BY <1>4, <1>5, HeadContinues
<1>7. Caught'
  BY <1>5, <1>6 DEF Caught, Line
<1>. QED
  BY <1>2, <1>3, <1>7 DEF Lines

----------------------------------------------------------------------------
\* What is drawn.

Fresh(p)   == {s \in p.steps : s.fresh}
Lit(g)     == g # None /\ g.phase = "in"
Picture(g) == [take |-> g.take, tpl |-> g.tpl, data |-> g.data]

\* Player p has mounted g, or the one step that may still mount a graphic will,
\* or g is among the takes L lost to their templates.
Drawn(p, g, L) ==
  /\ \A s \in p.steps : s.kind = "swap" => s.loaded
  /\ \A s, z \in Fresh(p) : s = z
  /\ \A s \in Fresh(p) : s.kind = "load" => p.current = None
  /\ Lit(g) =>
       /\ p.last = g.take /\ p.data = g.data
       /\ \/ g.take \notin L /\ Fresh(p) = {} /\ p.current = Picture(g)
          \/ g.take \notin L /\ Fresh(p) # {}
          \/ g.take \in L /\ Fresh(p) = {} /\ p.current = None

LEMMA OvertakenSteps ==
  ASSUME NEW p \in Player, \A s \in p.steps : s.kind = "swap" => s.loaded
  PROVE  /\ Fresh(NewGeneration(p)) = {}
         /\ \A s \in NewGeneration(p).steps : s.kind = "swap" => s.loaded
<1> DEFINE Old(s) == [s EXCEPT !.fresh = FALSE]
           steps == {Old(s) : s \in p.steps}
<1>1. \A s \in p.steps : Old(s).kind = s.kind /\ Old(s).loaded = s.loaded
  BY DEF Player, Step
<1>2. NewGeneration(p) = [p EXCEPT !.steps = steps]
  BY DEF NewGeneration
<1>3. \A z \in steps : \E s \in p.steps : z = Old(s)
  OBVIOUS
<1> HIDE DEF steps, Old
<1>4. NewGeneration(p).steps = steps
  BY <1>2 DEF Player
<1>. QED
  BY <1>1, <1>3, <1>4, Overtaken DEF Fresh

LEMMA DarkDrawn ==
  ASSUME NEW p \in Player, NEW x, NEW g, NEW L, Drawn(p, x, L), ~Lit(g)
  PROVE  Drawn(GoDark(p), g, L) /\ GoDark(p).last = p.last
<1>1. GoDark(p).steps = NewGeneration(p).steps /\ GoDark(p).last = p.last
  BY Overtaken, Retires DEF GoDark
<1>. QED
  BY <1>1, OvertakenSteps DEF Drawn, Fresh

LEMMA NewDrawn ==
  ASSUME NEW p \in Player, NEW x, NEW L, Drawn(p, x, L), NEW g \in Graphic,
         Lit(g) => g.take \notin L, NEW ready \in BOOLEAN, NEW remount \in BOOLEAN
  PROVE  LET q == NewTake(p, g, ready, remount)
         IN Drawn(q, g, L) /\ q.last = g.take
<1> DEFINE n == NewGeneration(p)
           q == [n EXCEPT !.last = g.take, !.data = g.data]
           r == RetireCurrent(q)
<1>1. g.take \in Takes /\ g.tpl \in Templates /\ g.data \in Data /\ g.phase \in {"in", "out"}
      /\ g # None
  BY Wants DEF Graphic
<1>2. /\ n \in Player /\ Fresh(n) = {}
      /\ \A s \in n.steps : s.kind = "swap" => s.loaded
  BY Overtaken, OvertakenSteps DEF Drawn
<1>3. /\ q \in Player /\ q.current = n.current /\ q.steps = n.steps
      /\ q.last = g.take /\ q.data = g.data
  BY <1>1, <1>2 DEF Player
<1>4. /\ r \in Player /\ r.current = None /\ r.steps = n.steps
      /\ r.last = g.take /\ r.data = g.data
  BY <1>3, Retires
<1> HIDE DEF n, q, r
<1>5. CASE g.phase = "out"
  <2>1. NewTake(p, g, ready, remount) = r
    BY <1>5 DEF NewTake, q, r, n
  <2>. QED
    BY <1>2, <1>4, <1>5, <2>1 DEF Drawn, Fresh, Lit
<1>6. CASE g.phase = "in" /\ NewTake(p, g, ready, remount) = Swap(q, g)
  <2> DEFINE s == [kind |-> "swap", take |-> g.take, tpl |-> g.tpl,
                   after |-> None, loaded |-> TRUE, fresh |-> TRUE]
             z == Swap(q, g)
  <2>1. s.kind = "swap" /\ s.loaded /\ s.fresh
    OBVIOUS
  <2>2. z.current = q.current /\ z.last = g.take /\ z.data = g.data
        /\ z.steps = n.steps \cup {s}
    BY <1>3 DEF Swap, Player
  <2> HIDE DEF s, z
  <2>3. Fresh(z) = {s}
    BY <1>2, <2>1, <2>2 DEF Fresh
  <2>4. Drawn(z, g, L)
    BY <1>2, <1>6, <2>1, <2>2, <2>3 DEF Drawn, Lit
  <2>. QED
    BY <1>6, <2>2, <2>4 DEF z
<1>7. CASE g.phase = "in" /\ NewTake(p, g, ready, remount) = RetireAndLoad(q, g, ready)
  <2> DEFINE s == [kind |-> "load", take |-> g.take, tpl |-> g.tpl,
                   after |-> IF q.current = None THEN None ELSE q.current.take,
                   loaded |-> ready, fresh |-> TRUE]
             z == RetireAndLoad(q, g, ready)
  <2>1. s.kind = "load" /\ s.fresh
    OBVIOUS
  <2>2. z.current = None /\ z.last = g.take /\ z.data = g.data
        /\ z.steps = n.steps \cup {s}
    BY <1>4 DEF RetireAndLoad, Player, r
  <2> HIDE DEF s, z
  <2>3. Fresh(z) = {s}
    BY <1>2, <2>1, <2>2 DEF Fresh
  <2>4. Drawn(z, g, L)
    BY <1>2, <1>7, <2>1, <2>2, <2>3 DEF Drawn, Lit
  <2>. QED
    BY <1>7, <2>2, <2>4 DEF z
<1>8. \/ g.phase = "out"
      \/ g.phase = "in" /\ NewTake(p, g, ready, remount) = Swap(q, g)
      \/ g.phase = "in" /\ NewTake(p, g, ready, remount) = RetireAndLoad(q, g, ready)
  BY <1>1 DEF NewTake, q, n
<1>. QED
  BY <1>5, <1>6, <1>7, <1>8

LEMMA UpdateDrawn ==
  ASSUME NEW p \in Player, NEW x \in Graphic, NEW L, Drawn(p, x, L),
         NEW g \in Graphic, Lit(x), Lit(g), x.take = g.take, x.tpl = g.tpl
  PROVE  Drawn(Update(p, g), g, L) /\ Update(p, g).last = p.last
<1> DEFINE q == Update(p, g)
<1>1. /\ q.steps = p.steps /\ q.last = p.last /\ q.data = g.data
      /\ q.current = IF p.current = None THEN None ELSE [p.current EXCEPT !.data = g.data]
  BY DEF Update, Player
<1>3. CASE g.take \notin L /\ Fresh(p) = {} /\ p.current = Picture(x)
  <2>1. p.current # None
    <3>1. Picture(x) \in Mount
      BY DEF Picture, Mount, Graphic
    <3>. QED
      BY <1>3, <3>1, WindowAssumption
  <2>2. q.current = Picture(g)
    BY <1>1, <1>3, <2>1 DEF Picture
  <2>. QED
    BY <1>1, <1>3, <2>2 DEF Drawn, Fresh, Lit
<1>4. CASE g.take \notin L /\ Fresh(p) # {}
  BY <1>1, <1>4 DEF Drawn, Fresh, Lit
<1>5. CASE g.take \in L /\ Fresh(p) = {} /\ p.current = None
  BY <1>1, <1>5 DEF Drawn, Fresh, Lit
<1>. QED
  BY <1>3, <1>4, <1>5 DEF Drawn

\* A state of the source is applied.
LEMMA ApplyDrawn ==
  ASSUME NEW p \in Player, NEW x \in Graphic \cup {None}, NEW L, Drawn(p, x, L),
         NEW g \in Graphic \cup {None},
         \A t \in Takes : In(g, t) /\ (t \in L \/ t = p.last) => In(x, t),
         \A t \in Takes : Has(g, t) /\ Has(x, t) => g.tpl = x.tpl,
         NEW ready \in BOOLEAN, NEW remount \in BOOLEAN
  PROVE  LET q == Apply(p, g, ready, remount)
         IN /\ Drawn(q, g, L)
            /\ q.last = p.last \/ (g # None /\ q.last = g.take)
<1> DEFINE q == Apply(p, g, ready, remount)
<1>1. CASE g = None \/ (g # None /\ g.take = p.last /\ g.phase = "out")
  <2>1. q = GoDark(p) /\ ~Lit(g)
    BY <1>1 DEF Apply, Lit
  <2> HIDE DEF q
  <2>2. Drawn(GoDark(p), g, L) /\ GoDark(p).last = p.last
    BY <2>1, DarkDrawn
  <2>. QED
    BY <2>1, <2>2 DEF q
<1>2. CASE g # None /\ g.take # p.last
  <2>1. q = NewTake(p, g, ready, remount) /\ g \in Graphic /\ g.take \in Takes
    BY <1>2 DEF Apply, Graphic
  <2>2. ASSUME Lit(g), g.take \in L PROVE FALSE
    <3>1. In(x, g.take)
      BY <1>2, <2>1, <2>2 DEF In, Has, Lit
    <3>2. p.last = g.take
      BY <3>1 DEF In, Has, Lit, Drawn
    <3>. QED
      BY <1>2, <3>2
  <2>3. Lit(g) => g.take \notin L
    BY <2>2
  <2>. QED
    BY <1>2, <2>1, <2>3, NewDrawn
<1>3. CASE g # None /\ g.take = p.last /\ g.phase # "out"
  <2>1. q = Update(p, g) /\ g \in Graphic /\ g.phase = "in" /\ g.take \in Takes
    BY <1>3 DEF Apply, Graphic
  <2>2. In(x, g.take)
    BY <1>3, <2>1 DEF In, Has
  <2>3. x \in Graphic /\ Lit(x) /\ Lit(g) /\ x.take = g.take /\ x.tpl = g.tpl
    BY <1>3, <2>1, <2>2 DEF In, Has, Lit
  <2> HIDE DEF q
  <2>4. Drawn(Update(p, g), g, L) /\ Update(p, g).last = p.last
    BY <2>1, <2>3, UpdateDrawn
  <2>. QED
    BY <2>1, <2>4 DEF q
<1>. QED
  BY <1>1, <1>2, <1>3

\* A step of the player goes on.
LEMMA GoesDrawn ==
  ASSUME NEW p, NEW g \in Graphic \cup {None}, NEW L, Sound(p, Want(g)), Drawn(p, g, L),
         NEW s \in p.steps,
         NEW q, \/ q = Mounted(p, s) /\ s.kind = "load"
                \/ q = Swapped(p, s) /\ s.kind = "swap"
  PROVE  Drawn(q, g, L) /\ q.last = p.last /\ q.steps = p.steps \ {s}
<1> DEFINE d == Drop(p, s)
<1>1. s \in Step /\ p \in Player
  BY DEF Sound, Player
<1>2. /\ d \in Player /\ d.current = p.current /\ d.last = p.last
      /\ d.data = p.data /\ d.steps = p.steps \ {s}
  BY <1>1 DEF Drop, Player
<1> HIDE DEF d
<1>3. CASE ~s.fresh
  <2>1. q = d
    BY <1>3 DEF Mounted, Swapped, d
  <2>2. Fresh(d) = Fresh(p)
    BY <1>2, <1>3 DEF Fresh
  <2>. QED
    BY <1>2, <2>1, <2>2 DEF Drawn
<1>4. CASE s.fresh
  <2>1. Lit(g) /\ g \in Graphic /\ s.take = g.take /\ s.tpl = g.tpl
    <3>1. Want(g) # None /\ s.take = Want(g).take /\ s.tpl = Want(g).tpl
      BY <1>4 DEF Sound
    <3>2. g \in Graphic /\ g # None /\ g.phase = "in"
      BY <3>1 DEF Want, Graphic
    <3>. QED
      BY <3>1, <3>2 DEF Want, Lit
  <2>2. g.take \notin L /\ p.data = g.data /\ p.last = g.take /\ s \in Fresh(p)
    BY <1>4, <2>1 DEF Drawn, Fresh
  <2>3. q = [d EXCEPT !.current = Picture(g)]
    <3>1. CASE s.kind = "load"
      BY <1>4, <2>1, <2>2, <3>1 DEF Mounted, d, Picture
    <3>2. CASE s.kind = "swap"
      <4>1. p.current # None /\ p.current \in Mount /\ p.current.tpl = s.tpl
        BY <1>4, <3>2 DEF Sound, Player
      <4> DEFINE m == [p.current EXCEPT !.take = s.take, !.data = p.data]
      <4>2. m \in Mount /\ m.take = g.take /\ m.tpl = g.tpl /\ m.data = g.data
        BY <2>1, <2>2, <4>1 DEF Mount, Graphic
      <4> HIDE DEF m
      <4>3. m = Picture(g)
        BY <4>2 DEF Mount, Picture
      <4>. QED
        BY <1>2, <1>4, <3>2, <4>3 DEF Swapped, d, m
    <3>. QED
      BY <3>1, <3>2
  <2>4. /\ q.current = Picture(g) /\ q.last = p.last /\ q.data = p.data
        /\ q.steps = p.steps \ {s}
    BY <1>2, <2>3 DEF Player
  <2>5. Fresh(q) = {}
    BY <2>2, <2>4 DEF Drawn, Fresh
  <2>. QED
    BY <2>1, <2>2, <2>4, <2>5 DEF Drawn
<1>. QED
  BY <1>3, <1>4

\* A template arrives: no step waits for it any longer.
LEMMA LoadedSteps ==
  ASSUME NEW p \in Player, NEW t \in Templates, NEW z \in Loaded(p, t).steps, ~z.loaded
  PROVE  \E s \in p.steps : ~s.loaded /\ s.tpl = z.tpl /\ z.tpl # t
<1> DEFINE Now(s) == IF s.tpl = t THEN [s EXCEPT !.loaded = TRUE] ELSE s
<1>1. \A s \in p.steps : /\ Now(s).tpl = s.tpl
                         /\ Now(s).loaded <=> s.loaded \/ s.tpl = t
  BY DEF Player, Step
<1>2. PICK s \in p.steps : z = Now(s)
  BY DEF Loaded, Player
<1> HIDE DEF Now
<1>. QED
  BY <1>1, <1>2

LEMMA LoadedDrawn ==
  ASSUME NEW p \in Player, NEW g, NEW L, Drawn(p, g, L), NEW t \in Templates
  PROVE  Drawn(Loaded(p, t), g, L) /\ Loaded(p, t).last = p.last
<1> DEFINE Now(s) == IF s.tpl = t THEN [s EXCEPT !.loaded = TRUE] ELSE s
           steps == {Now(s) : s \in p.steps}
           q == Loaded(p, t)
<1>1. \A s \in p.steps : /\ Now(s).fresh = s.fresh /\ Now(s).kind = s.kind
                         /\ Now(s).tpl = s.tpl
                         /\ Now(s).loaded <=> s.loaded \/ s.tpl = t
  BY DEF Player, Step
<1>2. /\ q.steps = steps /\ q.current = p.current /\ q.last = p.last /\ q.data = p.data
  BY DEF Loaded, Player
<1>3. \A z \in steps : \E s \in p.steps : z = Now(s)
  OBVIOUS
<1>4. \A s \in p.steps : Now(s) \in steps
  OBVIOUS
<1> HIDE DEF steps, q, Now
<1>5. /\ \A z \in Fresh(q) : \E s \in Fresh(p) : z = Now(s)
      /\ \A s \in Fresh(p) : Now(s) \in Fresh(q)
  BY <1>1, <1>2, <1>3, <1>4 DEF Fresh
<1>6. Fresh(q) = {} <=> Fresh(p) = {}
  BY <1>5
<1>7. /\ \A s \in q.steps : s.kind = "swap" => s.loaded
      /\ \A s \in Fresh(q) : s.kind = "load" => q.current = None
      /\ \A s, z \in Fresh(q) : s = z
  <2>1. \A s \in q.steps : s.kind = "swap" => s.loaded
    BY <1>1, <1>2, <1>3 DEF Drawn
  <2>2. \A s \in Fresh(p) : s \in p.steps
    BY DEF Fresh
  <2>3. \A s \in Fresh(q) : s.kind = "load" => q.current = None
    BY <1>1, <1>2, <1>5, <2>2 DEF Drawn
  <2>4. \A s, z \in Fresh(q) : s = z
    BY <1>5 DEF Drawn
  <2>. QED
    BY <2>1, <2>3, <2>4
<1>8. Drawn(q, g, L)
  BY <1>2, <1>6, <1>7 DEF Drawn
<1>. QED
  BY <1>2, <1>8 DEF q

\* A template does not load: the take that waited for it is lost.
LEMMA FailedDrawn ==
  ASSUME NEW p, NEW g \in Graphic \cup {None}, NEW L, Sound(p, Want(g)), Drawn(p, g, L),
         NEW t \in Templates
  PROVE  /\ Drawn(LoadFailed(p, t), g, L \cup LostTo(p, t))
         /\ LoadFailed(p, t).last = p.last
         /\ LoadFailed(p, t).steps = {s \in p.steps : s.loaded \/ s.tpl # t}
         /\ \A n \in LostTo(p, t) : n = p.last
<1> DEFINE q == LoadFailed(p, t)
           N == LostTo(p, t)
<1>0. p \in Player
  BY DEF Sound
<1>1. /\ q.steps = {s \in p.steps : s.loaded \/ s.tpl # t}
      /\ q.current = p.current /\ q.last = p.last /\ q.data = p.data
  BY <1>0 DEF LoadFailed, Player
<1>2. \A n \in N : \E s \in Fresh(p) : ~s.loaded /\ s.tpl = t /\ n = s.take
  BY DEF LostTo, Fresh
<1>3. \A s \in Fresh(p) : ~s.loaded /\ s.tpl = t => s.take \in N
  BY DEF LostTo, Fresh
<1>4. \A s \in Fresh(p) : Lit(g) /\ s.take = g.take
  <2> SUFFICES ASSUME NEW s \in Fresh(p) PROVE Lit(g) /\ s.take = g.take
    OBVIOUS
  <2>1. Want(g) # None /\ s.take = Want(g).take
    BY DEF Sound, Fresh
  <2>2. g \in Graphic /\ g # None /\ g.phase = "in"
    BY <2>1 DEF Want, Graphic
  <2>. QED
    BY <2>1, <2>2 DEF Want, Lit
<1> HIDE DEF q, N
<1>5. Fresh(q) = {s \in Fresh(p) : s.loaded \/ s.tpl # t}
  BY <1>1 DEF Fresh
<1>6. Lit(g) => p.last = g.take /\ p.data = g.data
  BY DEF Drawn
<1>7. \A n \in N : n = p.last
  BY <1>2, <1>4, <1>6
<1>8. CASE N = {}
  <2>1. Fresh(q) = Fresh(p)
    BY <1>3, <1>5, <1>8
  <2>2. Drawn(q, g, L)
    BY <1>1, <2>1 DEF Drawn
  <2>3. L \cup N = L
    BY <1>8
  <2>. QED
    BY <1>1, <1>7, <2>2, <2>3 DEF q, N
<1>9. CASE N # {}
  <2>1. PICK s \in Fresh(p) : ~s.loaded /\ s.tpl = t /\ s.take \in N
    BY <1>2, <1>9
  <2>2. Fresh(q) = {}
    BY <1>5, <2>1 DEF Drawn
  <2>3. s.kind = "load" /\ p.current = None
    BY <1>0, <2>1 DEF Drawn, Fresh, Player, Step
  <2>4. g.take \in L \cup N
    BY <1>4, <2>1
  <2>5. Drawn(q, g, L \cup N)
    BY <1>1, <1>6, <2>2, <2>3, <2>4 DEF Drawn
  <2>. QED
    BY <1>1, <1>7, <2>5 DEF q, N
<1>. QED
  BY <1>8, <1>9

LEMMA OutDrawn ==
  ASSUME NEW p \in Player, NEW g, NEW L, Drawn(p, g, L), NEW m
  PROVE  /\ Drawn(OutEnds(p, m), g, L) /\ OutEnds(p, m).last = p.last
         /\ OutEnds(p, m).steps = p.steps
BY DEF OutEnds, Player, Drawn, Fresh

----------------------------------------------------------------------------
\* What is due.

Among(m, q) == \E i \in DOMAIN q : q[i] = m

LEMMA AmongAppend ==
  ASSUME NEW S, NEW q \in Seq(S), NEW z, NEW m
  PROVE  Among(m, Append(q, z)) <=> Among(m, q) \/ m = z
<1>1. /\ Len(q) \in Nat /\ DOMAIN q = 1 .. Len(q)
      /\ DOMAIN Append(q, z) = 1 .. Len(q) + 1
      /\ \A i \in 1 .. Len(q) : Append(q, z)[i] = q[i]
      /\ Append(q, z)[Len(q) + 1] = z
  OBVIOUS
<1>2. \A i \in 1 .. Len(q) + 1 : i \in 1 .. Len(q) \/ i = Len(q) + 1
  BY <1>1
<1>3. 1 .. Len(q) \subseteq 1 .. Len(q) + 1 /\ Len(q) + 1 \in 1 .. Len(q) + 1
  BY <1>1
<1>. QED
  BY <1>1, <1>2, <1>3 DEF Among

LEMMA AmongConcat ==
  ASSUME NEW S, NEW q \in Seq(S), NEW r \in Seq(S), NEW m, Among(m, q) \/ Among(m, r)
  PROVE  Among(m, q \o r)
<1>1. /\ Len(q) \in Nat /\ Len(r) \in Nat /\ DOMAIN q = 1 .. Len(q)
      /\ DOMAIN r = 1 .. Len(r) /\ DOMAIN (q \o r) = 1 .. Len(q) + Len(r)
      /\ \A i \in 1 .. Len(q) : (q \o r)[i] = q[i]
      /\ \A i \in 1 .. Len(r) : (q \o r)[Len(q) + i] = r[i]
  OBVIOUS
<1>2. CASE Among(m, q)
  <2>1. PICK i \in 1 .. Len(q) : q[i] = m
    BY <1>1, <1>2 DEF Among
  <2>2. i \in 1 .. Len(q) + Len(r)
    BY <1>1
  <2>. QED
    BY <1>1, <2>1, <2>2 DEF Among
<1>3. CASE Among(m, r)
  <2>1. PICK i \in 1 .. Len(r) : r[i] = m
    BY <1>1, <1>3 DEF Among
  <2>2. Len(q) + i \in 1 .. Len(q) + Len(r)
    BY <1>1
  <2>. QED
    BY <1>1, <2>1, <2>2 DEF Among
<1>. QED
  BY <1>2, <1>3

LEMMA AmongTail ==
  ASSUME NEW S, NEW q \in Seq(S), q # <<>>, NEW m, Among(m, q), m # Head(q)
  PROVE  Among(m, Tail(q))
<1>1. PICK i \in DOMAIN q : q[i] = m
  BY DEF Among
<1>2. /\ Len(q) \in Nat \ {0} /\ DOMAIN q = 1 .. Len(q) /\ Head(q) = q[1]
      /\ Tail(q) \in Seq(S) /\ Len(Tail(q)) = Len(q) - 1
      /\ \A j \in 1 .. Len(q) - 1 : Tail(q)[j] = q[j + 1]
  OBVIOUS
<1>3. i - 1 \in 1 .. Len(q) - 1 /\ (i - 1) + 1 = i
  BY <1>1, <1>2
<1>4. i - 1 \in DOMAIN Tail(q) /\ Tail(q)[i - 1] = m
  BY <1>1, <1>2, <1>3
<1>. QED
  BY <1>4 DEF Among

\* A list of a set leaves no member out.
LEMMA ListsAll ==
  ASSUME NEW S, IsFiniteSet(S), NEW y \in S
  PROVE  Among(y, SetToSeq(S))
<1> DEFINE n == Cardinality(S)
           f == SetToSeq(S)
<1>1. n \in Nat /\ ExistsBijection(1 .. n, S)
  BY FS_CardinalityType
<1>2. \E h \in [1 .. n -> S] : IsInjective(h)
  BY <1>1 DEF ExistsBijection, Bijection, Injection
<1>3. f \in [1 .. n -> S] /\ IsInjective(f)
  BY <1>2 DEF SetToSeq
<1>4. IsFiniteSet(1 .. n) /\ Cardinality(1 .. n) = n
  BY <1>1, FS_Interval
<1>5. IsFiniteSet(S \ {y}) /\ Cardinality(S \ {y}) = n - 1
  BY FS_RemoveElement
<1> HIDE DEF f, n
<1>6. ASSUME ~Among(y, f) PROVE FALSE
  <2>1. f \in [1 .. n -> S \ {y}]
    BY <1>3, <1>6 DEF Among
  <2>2. n - 1 < n
    BY <1>1
  <2>3. \E i, j \in 1 .. n : i # j /\ f[i] = f[j]
    BY <1>4, <1>5, <2>1, <2>2, FS_PigeonHole
  <2>. QED
    BY <1>3, <2>3 DEF IsInjective
<1>. QED
  BY <1>6 DEF f

LEMMA RequestsAll ==
  ASSUME NEW T \in SUBSET Templates, NEW t \in T
  PROVE  Among(GetTemplate(t), SetToSeq({GetTemplate(u) : u \in T}))
<1> DEFINE S == {GetTemplate(u) : u \in T}
<1>1. IsFiniteSet(T)
  BY FS_Subset, WindowAssumption
<1>2. [u \in T |-> GetTemplate(u)] \in Surjection(T, S)
  BY DEF Surjection
<1>3. GetTemplate(t) \in S
  OBVIOUS
<1> HIDE DEF S
<1>4. IsFiniteSet(S)
  BY <1>1, <1>2, FS_Surjection
<1>5. Among(GetTemplate(t), SetToSeq(S))
  BY <1>3, <1>4, ListsAll
<1>. QED
  BY <1>5 DEF S

\* What the window has and what of c is in its queue q come to a.
Told(q, c, x, a) ==
  /\ Of(q, c) = {} => x = a
  /\ \A i \in Of(q, c) : (\A j \in Of(q, c) : j <= i) => q[i].state = a

LEMMA ToldAppend ==
  ASSUME NEW q \in Seq(ToWindow), NEW c, NEW x, NEW a
  PROVE  Told(Append(q, State(c, a)), c, x, a)
<1> DEFINE M == Append(q, State(c, a))
           n == Len(q)
<1>1. n \in Nat /\ DOMAIN M = 1 .. n + 1 /\ M[n + 1] = State(c, a)
  BY Ends
<1> HIDE DEF M, n
<1>2. n + 1 \in Of(M, c) /\ \A i \in Of(M, c) : i \in 1 .. n + 1
  BY <1>1, StateFields DEF Of
<1>3. ASSUME NEW i \in Of(M, c), \A j \in Of(M, c) : j <= i
      PROVE  M[i].state = a
  <2>1. i = n + 1
    BY <1>1, <1>2, <1>3
  <2>. QED
    BY <1>1, <2>1, StateFields
<1>4. Told(M, c, x, a)
  BY <1>2, <1>3 DEF Told
<1>. QED
  BY <1>4 DEF M

LEMMA ToldOther ==
  ASSUME NEW q \in Seq(ToWindow), NEW c, NEW x, NEW a, Told(q, c, x, a),
         NEW z, z.type # "state" \/ z.channel # c
  PROVE  Told(Append(q, z), c, x, a)
<1> DEFINE M == Append(q, z)
           n == Len(q)
<1>1. /\ n \in Nat /\ DOMAIN q = 1 .. n /\ DOMAIN M = 1 .. n + 1
      /\ \A i \in 1 .. n : M[i] = q[i]
      /\ M[n + 1] = z
  BY Ends
<1> HIDE DEF M, n
<1>2. Of(M, c) = Of(q, c) /\ \A i \in Of(M, c) : M[i] = q[i]
  BY <1>1 DEF Of
<1>3. Told(M, c, x, a)
  BY <1>2 DEF Told
<1>. QED
  BY <1>3 DEF M

LEMMA ToldTail ==
  ASSUME NEW q \in Seq(ToWindow), q # <<>>, NEW c, NEW x, NEW a, Told(q, c, x, a),
         NEW y, IF Head(q).type = "state" /\ Head(q).channel = c
                  THEN y = Head(q).state ELSE y = x
  PROVE  Told(Tail(q), c, y, a)
<1> DEFINE M == Tail(q)
           n == Len(q)
<1>1. /\ n \in Nat \ {0} /\ DOMAIN q = 1 .. n /\ Head(q) = q[1]
      /\ DOMAIN M = 1 .. n - 1
      /\ \A j \in 1 .. n - 1 : M[j] = q[j + 1]
  <2>1. Tail(q) \in Seq(ToWindow) /\ Len(Tail(q)) = n - 1 /\ n \in Nat \ {0}
    OBVIOUS
  <2>. QED
    BY <2>1
<1> HIDE DEF M, n
<1>2. \A j \in Of(M, c) : j \in Nat /\ j + 1 \in Of(q, c) /\ M[j] = q[j + 1]
  BY <1>1 DEF Of
<1>3. \A i \in Of(q, c) : i = 1 \/ (i \in Nat /\ i - 1 \in Of(M, c))
  <2> SUFFICES ASSUME NEW i \in Of(q, c), i # 1
               PROVE  i \in Nat /\ i - 1 \in Of(M, c)
    OBVIOUS
  <2>1. i \in 1 .. n /\ i - 1 \in 1 .. n - 1 /\ (i - 1) + 1 = i
    BY <1>1 DEF Of
  <2>2. M[i - 1] = q[i]
    BY <1>1, <2>1
  <2>. QED
    BY <1>1, <2>1, <2>2 DEF Of
<1>4. ASSUME Of(M, c) = {} PROVE y = a
  <2>1. CASE 1 \in Of(q, c)
    <3>1. \A j \in Of(q, c) : j <= 1
      BY <1>3, <1>4
    <3>2. q[1].state = a
      BY <2>1, <3>1 DEF Told
    <3>. QED
      BY <1>1, <2>1, <3>2 DEF Of
  <2>2. CASE 1 \notin Of(q, c)
    <3>1. Of(q, c) = {}
      BY <1>3, <1>4, <2>2
    <3>2. ~(Head(q).type = "state" /\ Head(q).channel = c)
      BY <1>1, <2>2 DEF Of
    <3>. QED
      BY <3>1, <3>2 DEF Told
  <2>. QED
    BY <2>1, <2>2
<1>5. ASSUME NEW i \in Of(M, c), \A j \in Of(M, c) : j <= i
      PROVE  M[i].state = a
  <2>1. i \in Nat /\ i + 1 \in Of(q, c) /\ M[i] = q[i + 1]
    BY <1>2
  <2>2. ASSUME NEW j \in Of(q, c) PROVE j <= i + 1
    <3>1. CASE j = 1
      BY <2>1, <3>1
    <3>2. CASE j \in Nat /\ j - 1 \in Of(M, c)
      <4>1. j - 1 <= i
        BY <1>5, <3>2
      <4>. QED
        BY <2>1, <3>2, <4>1
    <3>. QED
      BY <1>3, <3>1, <3>2
  <2>. QED
    BY <2>1, <2>2 DEF Told
<1>6. Told(M, c, y, a)
  BY <1>4, <1>5 DEF Told
<1>. QED
  BY <1>6 DEF M

GetChannel  == [type |-> "get_channel"]
Template(t) == [type |-> "template", id |-> t]
Configs(q)  == {i \in DOMAIN q : q[i].type = "config"}

\* From Own the source is edited to m, in the order of the queue q, and stays.
Chained(q, s, m) ==
  /\ s \in {Own, m}
  /\ \A i \in Configs(q) : q[i].mirrorOf \in {Own, m}
  /\ s # Own => \A i \in Configs(q) : q[i].mirrorOf = m
  /\ \A i, j \in Configs(q) : i <= j /\ q[i].mirrorOf # Own => q[j].mirrorOf = m

\* The edit, the source's state and the templates waited for will come.
EditDue == \/ Among(Hello, toWindow) \/ Among(GetChannel, toServer)
           \/ Among(Config(mirrorOf), toWindow) \/ source = mirrorOf
StateDue == \/ Among(Hello, toWindow) \/ Among(Subscribe(source), toServer)
            \/ source \in subs /\ Told(toWindow, source, latest, air[source])
TemplatesDue ==
  \A t \in asked : \/ Among(Hello, toWindow) \/ Among(GetTemplate(t), toServer)
                   \/ Among(Template(t), toWindow)

Dues == /\ edits = 0 => mirrorOf = Own
        /\ Chained(toWindow, source, mirrorOf)
        /\ ~open => toServer = <<>> /\ toWindow = <<>> /\ subs = {}
        /\ open => EditDue /\ StateDue /\ TemplatesDue

\* A step waits for no template that is not asked for.
Waiting == \A s \in player.steps : ~s.loaded => s.tpl \in asked

LEMMA ChainedTail ==
  ASSUME NEW q \in Seq(ToWindow), q # <<>>, NEW s, NEW m, Chained(q, s, m),
         NEW z, z = s \/ (Head(q).type = "config" /\ z = Head(q).mirrorOf)
  PROVE  Chained(Tail(q), z, m)
<1> DEFINE M == Tail(q)
           n == Len(q)
<1>1. /\ n \in Nat \ {0} /\ DOMAIN q = 1 .. n /\ Head(q) = q[1]
      /\ DOMAIN M = 1 .. n - 1
      /\ \A j \in 1 .. n - 1 : M[j] = q[j + 1]
  <2>1. Tail(q) \in Seq(ToWindow) /\ Len(Tail(q)) = n - 1 /\ n \in Nat \ {0}
    OBVIOUS
  <2>. QED
    BY <2>1
<1> HIDE DEF M, n
<1>2. \A j \in Configs(M) :
        j \in Nat /\ j + 1 \in Configs(q) /\ M[j] = q[j + 1] /\ 1 <= j + 1
  BY <1>1 DEF Configs
<1>3. \A i, j \in Configs(M) : i <= j => i + 1 <= j + 1
  BY <1>2
<1>4. Head(q).type = "config" => 1 \in Configs(q)
  BY <1>1 DEF Configs
<1>5. z \in {Own, m}
  BY <1>1, <1>4 DEF Chained
<1>6. z # Own => \A i \in Configs(M) : M[i].mirrorOf = m
  BY <1>1, <1>2, <1>4 DEF Chained
<1>7. /\ \A i \in Configs(M) : M[i].mirrorOf \in {Own, m}
      /\ \A i, j \in Configs(M) : i <= j /\ M[i].mirrorOf # Own => M[j].mirrorOf = m
  BY <1>2, <1>3 DEF Chained
<1>8. Chained(M, z, m)
  BY <1>5, <1>6, <1>7 DEF Chained
<1>. QED
  BY <1>8 DEF M

LEMMA ChainedAppend ==
  ASSUME NEW q \in Seq(ToWindow), NEW s, NEW m, Chained(q, s, m),
         NEW z, z.type = "config" => z.mirrorOf = m
  PROVE  Chained(Append(q, z), s, m)
<1> DEFINE M == Append(q, z)
           n == Len(q)
<1>1. /\ n \in Nat /\ DOMAIN q = 1 .. n /\ DOMAIN M = 1 .. n + 1
      /\ \A i \in 1 .. n : M[i] = q[i]
      /\ M[n + 1] = z
  BY Ends
<1> HIDE DEF M, n
<1>2. \A i \in Configs(M) : \/ i \in Configs(q) /\ M[i] = q[i]
                            \/ i = n + 1 /\ M[i].mirrorOf = m
  BY <1>1 DEF Configs
<1>3. \A i \in Configs(q) : ~(n + 1 <= i)
  BY <1>1 DEF Configs
<1>4. Chained(M, s, m)
  BY <1>2, <1>3 DEF Chained
<1>. QED
  BY <1>4 DEF M

LEMMA ChainedEdit ==
  ASSUME NEW q \in Seq(ToWindow), NEW s, Chained(q, s, Own), NEW m
  PROVE  Chained(q, s, m)
BY DEF Chained

LEMMA ChainedReset ==
  ASSUME NEW q, NEW s, NEW m, Chained(q, s, m), NEW r \in {<<>>, <<Hello>>}
  PROVE  Chained(r, s, m)
<1>1. Configs(r) = {}
  <2>1. Hello.type # "config"
    BY DEF Hello
  <2>2. \A i \in DOMAIN r : r[i] = Hello
    OBVIOUS
  <2>. QED
    BY <2>1, <2>2 DEF Configs
<1>. QED
  BY <1>1 DEF Chained

LEMMA DuesBegin == Init => Dues /\ Waiting
<1> SUFFICES ASSUME Init PROVE Dues /\ Waiting
  OBVIOUS
<1>1. Configs(toWindow) = {} /\ player.steps = {}
  BY DEF Init, InitPlayer, Configs
<1>. QED
  BY <1>1 DEF Init, Dues, Chained, Waiting

\* The messages there are, by kind.
LEMMA Kinds ==
  /\ Hello.type = "hello" /\ GetChannel.type = "get_channel"
  /\ \A m : Config(m).type = "config" /\ Config(m).mirrorOf = m
  /\ \A t : Template(t).type = "template" /\ Template(t).id = t
  /\ \A c : Subscribe(c).type = "subscribe" /\ Subscribe(c).channel = c
  /\ \A t : GetTemplate(t).type = "get_template" /\ GetTemplate(t).id = t
BY DEF Hello, GetChannel, Config, Template, Subscribe, GetTemplate

LEMMA BecomesDues ==
  ASSUME IInv, Dues, NEW c \in Channels, NEW g \in Graphic \cup {None}, Becomes(c, g)
  PROVE  Dues'
<1>1. /\ UNCHANGED <<mirrorOf, edits, subs, open, toServer, source, latest, asked>>
      /\ air' = [air EXCEPT ![c] = g]
      /\ toWindow' = IF c \in subs THEN Append(toWindow, State(c, g)) ELSE toWindow
  BY DEF Becomes, window
<1>2. /\ toWindow \in Seq(ToWindow) /\ source \in Channels
      /\ air \in [Channels -> Graphic \cup {None}] /\ State(c, g) \in ToWindow
  BY DEF IInv, Typed, State, ToWindow
<1>3. \A m : Among(m, toWindow) => Among(m, toWindow')
  BY <1>1, <1>2, AmongAppend
<1>4. Chained(toWindow', source, mirrorOf)
  <2>1. State(c, g).type # "config"
    BY StateFields
  <2>. QED
    BY <1>1, <1>2, <2>1, ChainedAppend DEF Dues
<1>5. ~open => toWindow' = <<>>
  BY <1>1 DEF Dues
<1>6. ASSUME open PROVE EditDue' /\ TemplatesDue'
  BY <1>1, <1>3, <1>6 DEF Dues, EditDue, TemplatesDue
<1>7. ASSUME open PROVE StateDue'
  <2>1. CASE Among(Hello, toWindow) \/ Among(Subscribe(source), toServer)
    BY <1>1, <1>3, <2>1 DEF StateDue
  <2>2. CASE source \in subs /\ Told(toWindow, source, latest, air[source])
    <3>1. Told(toWindow', source, latest, air'[source])
      <4>1. CASE c = source
        BY <1>1, <1>2, <2>2, <4>1, ToldAppend
      <4>2. CASE c # source
        <5>1. air'[source] = air[source]
          BY <1>1, <1>2, <4>2
        <5>2. Told(Append(toWindow, State(c, g)), source, latest, air[source])
          BY <1>2, <2>2, <4>2, StateFields, ToldOther
        <5>. QED
          BY <1>1, <2>2, <5>1, <5>2
      <4>. QED
        BY <4>1, <4>2
    <3>. QED
      BY <1>1, <2>2, <3>1 DEF StateDue
  <2>. QED
    BY <1>7, <2>1, <2>2 DEF Dues, StateDue
<1>. QED
  BY <1>1, <1>4, <1>5, <1>6, <1>7 DEF Dues

LEMMA ConfigureDues ==
  ASSUME IInv, Others, MaxEdits <= 1, Dues, NEW m \in Mirrors, Configure(m)
  PROVE  Dues'
<1>1. /\ UNCHANGED <<air, subs, open, toServer, source, latest, asked>>
      /\ mirrorOf' = m /\ edits' = edits + 1 /\ edits < MaxEdits
      /\ toWindow' = IF open THEN Append(toWindow, Config(m)) ELSE toWindow
  BY DEF Configure, window
<1>2. toWindow \in Seq(ToWindow) /\ edits = 0 /\ edits' # 0
  BY <1>1, WindowAssumption DEF IInv, Typed, Others
<1>3. Chained(toWindow, source, m)
  BY <1>2, ChainedEdit DEF Dues
<1>4. Chained(toWindow', source, m)
  BY <1>1, <1>2, <1>3, Kinds, ChainedAppend
<1>5. \A x : Among(x, toWindow) => Among(x, toWindow')
  BY <1>1, <1>2, AmongAppend
<1>6. ASSUME open PROVE EditDue' /\ StateDue' /\ TemplatesDue'
  <2>1. Among(Config(m), toWindow')
    BY <1>1, <1>2, <1>6, AmongAppend
  <2>2. Told(toWindow, source, latest, air[source]) =>
          Told(toWindow', source, latest, air[source])
    BY <1>1, <1>2, <1>6, Kinds, ToldOther
  <2>. QED
    BY <1>1, <1>5, <1>6, <2>1, <2>2 DEF Dues, EditDue, StateDue, TemplatesDue
<1>. QED
  BY <1>1, <1>2, <1>4, <1>6 DEF Dues

\* The server answers a message: what it asked for is on its way.
LEMMA ServerDues ==
  ASSUME IInv, Dues, ServerHandles
  PROVE  Dues' /\ QueueStep
<1> DEFINE m == Head(toServer)
<1>1. UNCHANGED <<air, mirrorOf, edits, open, source, latest, asked>>
      /\ toServer # <<>> /\ toServer' = Tail(toServer)
  BY DEF ServerHandles, window
<1>2. /\ toWindow \in Seq(ToWindow) /\ toServer \in Seq(ToServer) /\ source \in Channels
      /\ m \in ToServer /\ open /\ mirrorOf \in Channels
      /\ air \in [Channels -> Graphic \cup {None}]
  BY <1>1 DEF IInv, Typed, Dues
<1>3. PICK z \in ToWindow :
        /\ toWindow' = Append(toWindow, z) /\ subs \subseteq subs'
        /\ z.type = "state" => z = State(z.channel, air[z.channel])
        /\ z.type = "config" => z = Config(mirrorOf)
        /\ m = GetChannel => z = Config(mirrorOf)
        /\ \A c : m = Subscribe(c) => z = State(c, air[c]) /\ c \in subs'
        /\ \A t : m = GetTemplate(t) => z = Template(t)
  <2>1. CASE /\ m.type = "subscribe" /\ subs' = subs \cup {m.channel}
             /\ toWindow' = Append(toWindow, State(m.channel, air[m.channel]))
    <3> DEFINE z == State(m.channel, air[m.channel])
    <3>1. m.channel \in Channels
      BY <1>2, <2>1 DEF ToServer
    <3>2. z \in ToWindow
      BY <1>2, <3>1 DEF State, ToWindow
    <3>3. z.type = "state" /\ z.channel = m.channel
      BY StateFields
    <3>. QED
      BY <2>1, <3>2, <3>3, Kinds
  <2>2. CASE m.type = "get_channel" /\ toWindow' = Append(toWindow, Config(mirrorOf))
             /\ subs' = subs
    <3>1. Config(mirrorOf) \in ToWindow
      BY <1>2 DEF Config, ToWindow
    <3>. QED
      BY <2>2, <3>1, Kinds
  <2>3. CASE m.type = "get_template" /\ toWindow' = Append(toWindow, Template(m.id))
             /\ subs' = subs
    <3>1. m.id \in Templates
      BY <1>2, <2>3 DEF ToServer
    <3>2. Template(m.id) \in ToWindow
      BY <3>1 DEF Template, ToWindow
    <3>. QED
      BY <2>3, <3>2, Kinds
  <2>. QED
    BY <2>1, <2>2, <2>3 DEF ServerHandles, Template
<1>4. /\ \A x : Among(x, toWindow) => Among(x, toWindow')
      /\ Among(z, toWindow')
      /\ \A x : Among(x, toServer) => Among(x, toServer') \/ x = m
  BY <1>1, <1>2, <1>3, AmongAppend, AmongTail
<1>5. Chained(toWindow', source, mirrorOf)
  BY <1>2, <1>3, Kinds, ChainedAppend DEF Dues
<1>6. EditDue' /\ TemplatesDue'
  BY <1>1, <1>2, <1>3, <1>4 DEF Dues, EditDue, TemplatesDue
<1>7. StateDue'
  <2>1. CASE Among(Hello, toWindow)
    BY <1>4, <2>1 DEF StateDue
  <2>2. CASE Among(Subscribe(source), toServer')
    BY <1>1, <2>2 DEF StateDue
  <2>3. CASE m = Subscribe(source)
    <3>1. Told(toWindow', source, latest, air[source]) /\ source \in subs'
      BY <1>2, <1>3, <2>3, ToldAppend
    <3>. QED
      BY <1>1, <3>1 DEF StateDue
  <2>4. CASE source \in subs /\ Told(toWindow, source, latest, air[source])
    <3>1. CASE z.type = "state" /\ z.channel = source
      <4>1. Told(toWindow', source, latest, air[source])
        BY <1>2, <1>3, <3>1, ToldAppend
      <4>. QED
        BY <1>1, <1>3, <2>4, <4>1 DEF StateDue
    <3>2. CASE z.type # "state" \/ z.channel # source
      <4>1. Told(toWindow', source, latest, air[source])
        BY <1>2, <1>3, <2>4, <3>2, ToldOther
      <4>. QED
        BY <1>1, <1>3, <2>4, <4>1 DEF StateDue
    <3>. QED
      BY <3>1, <3>2
  <2>. QED
    BY <1>2, <1>4, <2>1, <2>2, <2>3, <2>4 DEF Dues, StateDue
<1>8. QueueStep
  BY <1>3 DEF QueueStep
<1>. QED
  BY <1>1, <1>2, <1>5, <1>6, <1>7, <1>8 DEF Dues

LEMMA SocketDues ==
  ASSUME IInv, Dues, Connect \/ Disconnect
  PROVE  Dues' /\ QueueStep
<1>1. /\ UNCHANGED <<air, mirrorOf, edits, source, latest, asked>>
      /\ toWindow' \in {<<>>, <<Hello>>}
  BY DEF Connect, Disconnect, server, window
<1>2. Chained(toWindow', source, mirrorOf)
  BY <1>1, ChainedReset DEF Dues
<1>3. open' => Among(Hello, toWindow')
  BY DEF Connect, Disconnect, Among
<1>4. ~open' => toServer' = <<>> /\ toWindow' = <<>> /\ subs' = {}
  BY DEF Connect, Disconnect
<1>. QED
  BY <1>1, <1>2, <1>3, <1>4 DEF Dues, EditDue, StateDue, TemplatesDue, QueueStep

\* The source the window accepts changes once, from its own channel.
LEMMA ConfigTurns ==
  ASSUME IInv, Dues, toWindow # <<>>, OnConfig
  PROVE  source' = source \/ (source = Own /\ source' # Own)
<1> DEFINE m == Head(toWindow)
<1>1. toWindow \in Seq(ToWindow) /\ m.type = "config" /\ source' = m.mirrorOf
  BY DEF IInv, Typed, OnConfig
<1>2. 1 \in Configs(toWindow) /\ toWindow[1] = m
  BY <1>1 DEF Configs
<1>. QED
  BY <1>1, <1>2 DEF Dues, Chained

LEMMA HandlesDues ==
  ASSUME IInv, Dues, Waiting, WindowHandles
  PROVE  Dues' /\ Waiting'
<1> DEFINE m == Head(toWindow)
<1>1. /\ UNCHANGED <<air, mirrorOf, edits, subs, open>>
      /\ toWindow # <<>> /\ toWindow' = Tail(toWindow) /\ open
  BY DEF WindowHandles, server, Dues
<1>2. /\ toWindow \in Seq(ToWindow) /\ toServer \in Seq(ToServer) /\ m \in ToWindow
      /\ source \in Channels /\ player \in Player /\ asked \in SUBSET Templates
      /\ toServer' \in Seq(ToServer) /\ player' \in Player
  <2>1. IInv'
    BY HandlesKeeps
  <2>. QED
    BY <1>1, <2>1 DEF IInv, Typed, Sound
<1>3. \A x : Among(x, toWindow) => Among(x, toWindow') \/ x = m
  BY <1>1, <1>2, AmongTail
<1>4. EditDue /\ StateDue /\ TemplatesDue
  BY <1>1 DEF Dues
<1>5. ASSUME Chained(toWindow', source', mirrorOf), EditDue', StateDue', TemplatesDue'
      PROVE  Dues'
  BY <1>1, <1>5 DEF Dues
<1>6. Chained(toWindow', source, mirrorOf)
  BY <1>1, <1>2, ChainedTail DEF Dues
<1>7. Told(toWindow, source, latest, air[source]) =>
        Told(toWindow', source,
             IF m.type = "state" /\ m.channel = source THEN m.state ELSE latest,
             air[source])
  BY <1>1, <1>2, ToldTail
<1>8. CASE OnHello
  <2>1. UNCHANGED <<source, latest, player, asked>>
    BY <1>8 DEF OnHello, window
  <2> DEFINE a == IF source = Own THEN <<Subscribe(Own)>>
                                  ELSE <<Subscribe(Own), Subscribe(source)>>
             b == <<GetChannel>>
             z == SetToSeq({GetTemplate(t) : t \in asked})
  <2>2. /\ a \in Seq(ToServer) /\ b \in Seq(ToServer) /\ z \in Seq(ToServer)
        /\ Among(Subscribe(source), a) /\ Among(GetChannel, b)
        /\ \A t \in asked : Among(GetTemplate(t), z)
    <3>1. Subscribe(Own) \in ToServer /\ Subscribe(source) \in ToServer
          /\ GetChannel \in ToServer
      BY <1>2, WindowAssumption DEF Subscribe, GetChannel, ToServer
    <3>2. b \in Seq(ToServer) /\ Among(GetChannel, b)
      <4>1. b \in Seq(ToServer) /\ 1 \in DOMAIN b /\ b[1] = GetChannel
        BY <3>1
      <4>. QED
        BY <4>1 DEF Among
    <3>3. z \in Seq(ToServer) /\ \A t \in asked : Among(GetTemplate(t), z)
      BY <1>2, Requests, RequestsAll
    <3> HIDE DEF b, z
    <3>4. CASE source = Own
      <4>1. a = <<Subscribe(source)>>
        BY <3>4
      <4>2. <<Subscribe(source)>> \in Seq(ToServer)
            /\ 1 \in DOMAIN <<Subscribe(source)>>
            /\ <<Subscribe(source)>>[1] = Subscribe(source)
        BY <3>1
      <4>3. a \in Seq(ToServer) /\ Among(Subscribe(source), a)
        BY <4>1, <4>2 DEF Among
      <4>. QED
        BY <3>2, <3>3, <4>3
    <3>5. CASE source # Own
      <4>1. a = <<Subscribe(Own), Subscribe(source)>>
        BY <3>5
      <4>2. <<Subscribe(Own), Subscribe(source)>> \in Seq(ToServer)
            /\ 2 \in DOMAIN <<Subscribe(Own), Subscribe(source)>>
            /\ <<Subscribe(Own), Subscribe(source)>>[2] = Subscribe(source)
        BY <3>1
      <4>3. a \in Seq(ToServer) /\ Among(Subscribe(source), a)
        BY <4>1, <4>2 DEF Among
      <4>. QED
        BY <3>2, <3>3, <4>3
    <3>. QED
      BY <3>4, <3>5
  <2>3. toServer' = toServer \o (a \o b \o z)
    BY <1>8 DEF OnHello, Sends, GetChannel
  <2> HIDE DEF a, b, z
  <2>4. /\ a \o b \in Seq(ToServer) /\ a \o b \o z \in Seq(ToServer)
        /\ Among(Subscribe(source), a \o b) /\ Among(GetChannel, a \o b)
    BY <2>2, AmongConcat
  <2>5. /\ Among(Subscribe(source), a \o b \o z) /\ Among(GetChannel, a \o b \o z)
        /\ \A t \in asked : Among(GetTemplate(t), a \o b \o z)
    BY <2>2, <2>4, AmongConcat
  <2>6. /\ Among(Subscribe(source), toServer') /\ Among(GetChannel, toServer')
        /\ \A t \in asked : Among(GetTemplate(t), toServer')
    BY <1>2, <2>3, <2>4, <2>5, AmongConcat
  <2>7. EditDue' /\ StateDue' /\ TemplatesDue'
    BY <2>1, <2>6 DEF EditDue, StateDue, TemplatesDue
  <2>. QED
    BY <1>5, <1>6, <2>1, <2>7 DEF Waiting
<1>9. CASE OnConfig
  <2>1. m.type = "config" /\ UNCHANGED <<latest, player, asked>> /\ source' = m.mirrorOf
        /\ toServer' = toServer \o (IF source' \in {source, Own} THEN <<>>
                                    ELSE <<Subscribe(source')>>)
    BY <1>9 DEF OnConfig, Sends
  <2>2. m # Hello /\ \A t : m # Template(t)
    BY <2>1, Kinds
  <2>3. \A x : Among(x, toServer) => Among(x, toServer')
    <3>1. CASE toServer' = toServer \o <<>>
      BY <1>2, <3>1, AmongConcat
    <3>2. CASE toServer' = toServer \o <<Subscribe(source')>>
      <4>1. source' \in Channels
        BY <1>2, <2>1, States
      <4>2. <<Subscribe(source')>> \in Seq(ToServer)
        BY <4>1 DEF Subscribe, ToServer
      <4>. QED
        BY <1>2, <3>2, <4>2, AmongConcat
    <3>. QED
      BY <2>1, <3>1, <3>2
  <2>4. Chained(toWindow', source', mirrorOf)
    BY <1>1, <1>2, <2>1, ChainedTail DEF Dues
  <2>5. m = Config(mirrorOf) => source' = mirrorOf
    BY <2>1, Kinds
  <2>6. source = mirrorOf => source' = mirrorOf
    <3>1. 1 \in Configs(toWindow) /\ toWindow[1] = m
      BY <1>1, <1>2, <2>1 DEF Configs
    <3>. QED
      BY <2>1, <3>1 DEF Dues, Chained
  <2>7. EditDue'
    BY <1>1, <1>3, <1>4, <2>2, <2>3, <2>5, <2>6 DEF EditDue
  <2>8. TemplatesDue'
    BY <1>3, <1>4, <2>1, <2>2, <2>3 DEF TemplatesDue
  <2>9. StateDue'
    <3>1. CASE source' = source
      BY <1>1, <1>3, <1>4, <1>7, <2>1, <2>2, <2>3, <3>1 DEF StateDue
    <3>2. CASE source = Own /\ source' # Own
      <4>1. toServer' = toServer \o <<Subscribe(source')>>
        BY <2>1, <3>2
      <4>2. source' \in Channels
        BY <1>2, <2>1, States
      <4>3. <<Subscribe(source')>> \in Seq(ToServer)
            /\ 1 \in DOMAIN <<Subscribe(source')>>
            /\ <<Subscribe(source')>>[1] = Subscribe(source')
        BY <4>2 DEF Subscribe, ToServer
      <4>4. Among(Subscribe(source'), <<Subscribe(source')>>)
        BY <4>3 DEF Among
      <4>5. Among(Subscribe(source'), toServer')
        BY <1>2, <4>1, <4>3, <4>4, AmongConcat
      <4>. QED
        BY <4>5 DEF StateDue
    <3>. QED
      BY <1>1, <1>9, <3>1, <3>2, ConfigTurns
  <2>. QED
    BY <1>5, <2>1, <2>4, <2>7, <2>8, <2>9 DEF Waiting
<1>10. CASE OnState
  <2> DEFINE missing == {s.tpl : s \in {x \in player'.steps : ~x.loaded}}
             r == SetToSeq({GetTemplate(t) : t \in missing \ asked})
  <2>1. /\ m.type = "state" /\ m.channel = source /\ latest' = m.state
        /\ source' = source /\ asked' = asked \cup missing
        /\ toServer' = toServer \o r
    BY <1>10 DEF OnState, Sends
  <2>2. m # Hello /\ (\A t : m # Template(t)) /\ m # Config(mirrorOf)
    BY <2>1, Kinds
  <2>3. missing \in SUBSET Templates /\ \A s \in player'.steps : ~s.loaded => s.tpl \in missing
    BY <1>2 DEF Player, Step
  <2> DEFINE new == missing \ asked
  <2>4. new \in SUBSET Templates /\ r \in Seq(ToServer)
        /\ \A t \in new : Among(GetTemplate(t), r)
    BY <2>3, Requests, RequestsAll
  <2>5. \A t \in asked' : t \in asked \/ t \in new
    BY <2>1
  <2> HIDE DEF missing, new, r
  <2>6. /\ \A x : Among(x, toServer) => Among(x, toServer')
        /\ \A t \in new : Among(GetTemplate(t), toServer')
    BY <1>2, <2>1, <2>4, AmongConcat
  <2>7. EditDue'
    BY <1>1, <1>3, <1>4, <2>1, <2>2, <2>6 DEF EditDue
  <2>8. StateDue'
    BY <1>1, <1>3, <1>4, <1>7, <2>1, <2>2, <2>6 DEF StateDue
  <2>9. TemplatesDue'
    BY <1>3, <1>4, <2>2, <2>5, <2>6 DEF TemplatesDue
  <2>10. Waiting'
    BY <2>1, <2>3 DEF Waiting
  <2>. QED
    BY <1>5, <1>6, <2>1, <2>7, <2>8, <2>9, <2>10
<1>11. CASE OnOtherState
  <2>1. /\ m.type = "state" /\ m.channel # source
        /\ UNCHANGED <<toServer, source, latest, player, asked>>
    BY <1>11 DEF OnOtherState, window
  <2>2. m # Hello /\ (\A t : m # Template(t)) /\ m # Config(mirrorOf)
    BY <2>1, Kinds
  <2>3. EditDue' /\ StateDue' /\ TemplatesDue'
    BY <1>1, <1>3, <1>4, <1>7, <2>1, <2>2 DEF EditDue, StateDue, TemplatesDue
  <2>. QED
    BY <1>5, <1>6, <2>1, <2>3 DEF Waiting
<1>12. CASE OnTemplate
  <2>1. /\ m.type = "template" /\ UNCHANGED <<toServer, source, latest>>
        /\ player' = Loaded(player, m.id) /\ asked' = asked \ {m.id}
    BY <1>12 DEF OnTemplate
  <2>2. m # Hello /\ m # Config(mirrorOf) /\ \A t : m = Template(t) => t = m.id
    BY <2>1, Kinds
  <2>3. EditDue' /\ StateDue'
    BY <1>1, <1>3, <1>4, <1>7, <2>1, <2>2 DEF EditDue, StateDue
  <2>4. TemplatesDue'
    BY <1>3, <1>4, <2>1, <2>2 DEF TemplatesDue
  <2>5. m.id \in Templates
    BY <1>2, <2>1, States
  <2>6. Waiting'
    <3> SUFFICES ASSUME NEW z \in player'.steps, ~z.loaded PROVE z.tpl \in asked'
      BY DEF Waiting
    <3>1. \E s \in player.steps : ~s.loaded /\ s.tpl = z.tpl /\ z.tpl # m.id
      BY <1>2, <2>1, <2>5, LoadedSteps
    <3>. QED
      BY <2>1, <3>1 DEF Waiting
  <2>. QED
    BY <1>5, <1>6, <2>1, <2>3, <2>4, <2>6
<1>. QED
  BY <1>8, <1>9, <1>10, <1>11, <1>12 DEF WindowHandles

----------------------------------------------------------------------------
\* The invariant, step by step.

Draws   == Drawn(player, latest, lost)
RestInv == IInv /\ Others /\ Lines /\ Draws /\ Waiting /\ Dues

LEMMA RestBegins == Init => RestInv
<1> SUFFICES ASSUME Init PROVE RestInv
  OBVIOUS
<1>1. Others
  <2>1. open \in BOOLEAN
    BY DEF Init
  <2>. QED
    BY <2>1, WindowAssumption DEF Init, Others
<1>2. Draws
  BY DEF Init, InitPlayer, Draws, Drawn, Fresh, Lit
<1>. QED
  BY <1>1, <1>2, InitHolds, LinesBegin, DuesBegin DEF RestInv

\* The window's stage is not touched.
StageStays == UNCHANGED <<latest, player, lost, asked>>

LEMMA StaysDrawn == Draws /\ Waiting /\ StageStays => Draws' /\ Waiting'
BY DEF StageStays, Draws, Waiting, Drawn, Fresh, Lit, Picture

LEMMA ServerSide ==
  ASSUME RestInv, MaxEdits <= 1,
         \/ \E c \in Used : TakeOn(c) \/ UpdateOn(c) \/ ClearOn(c) \/ SweepOn(c)
         \/ \E m \in Mirrors : Configure(m)
         \/ ServerHandles \/ Connect \/ Disconnect
  PROVE  Lines' /\ Draws' /\ Waiting' /\ Dues'
<1>1. StageStays
  BY DEF TakeOn, UpdateOn, ClearOn, SweepOn, Becomes, Configure, ServerHandles,
     Connect, Disconnect, window, StageStays
<1>2. Draws' /\ Waiting'
  BY <1>1, StaysDrawn DEF RestInv
<1>3. Seen' = Seen
  BY <1>1 DEF StageStays, Seen
<1>4. ASSUME NEW c \in Used, TakeOn(c) \/ UpdateOn(c) \/ ClearOn(c) \/ SweepOn(c)
      PROVE  Lines' /\ Dues'
  <2>1. PICK g \in Graphic \cup {None} : c \in Channels /\ Becomes(c, g) /\ Turns(c, g)
    BY <1>4, TakesTurn DEF RestInv
  <2>. QED
    BY <2>1, BecomesLines, BecomesDues DEF RestInv
<1>5. ASSUME NEW m \in Mirrors, Configure(m) PROVE Lines' /\ Dues'
  <2>1. UNCHANGED <<air, taken, source, latest>>
    BY <1>5 DEF Configure, window
  <2>2. Config(m) \in ToWindow /\ Config(m).type # "state"
    BY WindowAssumption DEF Config, ToWindow
  <2>3. QueueStep
    BY <1>5, <2>2 DEF Configure, QueueStep
  <2>. QED
    BY <1>3, <1>5, <2>1, <2>3, LinesKeep, ConfigureDues DEF RestInv
<1>6. CASE ServerHandles
  <2>1. UNCHANGED <<air, taken, source, latest>>
    BY <1>6 DEF ServerHandles, window
  <2>. QED
    BY <1>2, <1>3, <1>6, <2>1, ServerDues, LinesKeep DEF RestInv
<1>7. CASE Connect \/ Disconnect
  <2>1. UNCHANGED <<air, taken, source, latest>>
    BY <1>7 DEF Connect, Disconnect, server, window
  <2>. QED
    BY <1>2, <1>3, <1>7, <2>1, SocketDues, LinesKeep DEF RestInv
<1>. QED
  BY <1>2, <1>4, <1>5, <1>6, <1>7

LEMMA WindowSide ==
  ASSUME RestInv, WindowHandles
  PROVE  Lines' /\ Draws' /\ Waiting' /\ Dues'
<1> DEFINE m == Head(toWindow)
<1>1. /\ UNCHANGED <<air, taken>> /\ toWindow # <<>> /\ toWindow' = Tail(toWindow)
      /\ QueueStep
  BY DEF WindowHandles, server, QueueStep
<1>2. Dues' /\ Waiting'
  BY HandlesDues DEF RestInv
<1>3. /\ toWindow \in Seq(ToWindow) /\ m \in ToWindow /\ source \in Channels
      /\ player \in Player /\ latest \in Graphic \cup {None}
      /\ Drawn(player, latest, lost)
  BY <1>1 DEF RestInv, IInv, Typed, Sound, Draws
<1>4. CASE OnHello \/ OnOtherState
  <2>1. StageStays /\ source' = source
    BY <1>4 DEF OnHello, OnOtherState, window, StageStays
  <2>2. Seen' = Seen /\ latest' = latest
    BY <2>1 DEF StageStays, Seen
  <2>. QED
    BY <1>1, <1>2, <2>1, <2>2, StaysDrawn, LinesKeep DEF RestInv
<1>5. CASE OnConfig
  <2>1. StageStays /\ m.type = "config" /\ source' = m.mirrorOf
    BY <1>5 DEF OnConfig, StageStays
  <2>2. Seen' = Seen /\ latest' = latest /\ source' \in Channels
    BY <1>3, <2>1, States DEF StageStays, Seen
  <2>3. source' = source \/ (source = Own /\ source' # Own)
    BY <1>1, <1>5, ConfigTurns DEF RestInv
  <2>4. Lines'
    BY <1>1, <2>2, <2>3, LinesKeep, TargetLines DEF RestInv
  <2>. QED
    BY <1>2, <2>1, <2>4, StaysDrawn DEF RestInv
<1>6. CASE OnTemplate
  <2>1. /\ m.type = "template" /\ UNCHANGED <<source, latest, lost>>
        /\ player' = Loaded(player, m.id)
    BY <1>6 DEF OnTemplate
  <2>2. m.id \in Templates
    BY <1>3, <2>1, States
  <2>3. Draws' /\ player'.last = player.last
    BY <1>3, <2>1, <2>2, LoadedDrawn DEF RestInv, Draws
  <2>4. Seen' = Seen
    BY <2>1, <2>3 DEF Seen
  <2>. QED
    BY <1>1, <1>2, <2>1, <2>3, <2>4, LinesKeep DEF RestInv
<1>7. CASE OnState
  <2> DEFINE g == m.state
  <2>1. /\ m.type = "state" /\ m.channel = source /\ latest' = g
        /\ UNCHANGED <<source, lost>>
    BY <1>7 DEF OnState
  <2>2. PICK remount \in BOOLEAN :
          player' = Apply(player, g, g # None /\ g.tpl \in cached, remount)
    BY <1>7 DEF OnState
  <2> DEFINE ready == g # None /\ g.tpl \in cached
  <2>3. g \in Graphic \cup {None} /\ ready \in BOOLEAN
    BY <1>3, <2>1, States
  <2>4. \A t \in Takes : In(g, t) /\ (t \in lost \/ t = player.last) => In(latest, t)
    <3>1. /\ Len(toWindow) \in Nat \ {0} /\ m = toWindow[1]
          /\ DOMAIN Line(source) = 1 .. Len(toWindow) + 1
          /\ Line(source)[1] = toWindow[1]
      <4>1. Len(toWindow) \in Nat \ {0} /\ m = toWindow[1]
        BY <1>1, <1>3
      <4>. QED
        BY <1>3, <4>1, Ends DEF Line
    <3>2. 1 \in Of(Line(source), source) /\ Line(source)[1].state = g /\ 1 <= 1
      BY <2>1, <3>1 DEF Of
    <3>3. Continues(Line(source), source, latest, Seen)
      BY DEF RestInv, Lines, Caught
    <3>4. \A t \in Takes : t \in lost \/ t = player.last => t \in Seen
      BY DEF Seen
    <3> HIDE DEF g
    <3>. QED
      BY <3>2, <3>3, <3>4 DEF Continues
  <2>5. \A t \in Takes : Has(g, t) /\ Has(latest, t) => g.tpl = latest.tpl
    <3>1. PICK f \in [Takes -> Templates \cup {None}] : Agree(f)
      BY DEF RestInv, IInv, Kept
    <3>2. \E j \in DOMAIN toWindow : m = toWindow[j]
      BY <1>1, <1>3, Removed
    <3>3. Fits(f, g) /\ Fits(f, latest)
      BY <2>1, <3>1, <3>2 DEF Agree
    <3>. QED
      BY <3>3 DEF Fits, Has
  <2> HIDE DEF g, ready
  <2>6. player' = Apply(player, g, ready, remount)
    BY <2>2 DEF g, ready
  <2>7. /\ Drawn(player', g, lost)
        /\ player'.last = player.last \/ (g # None /\ player'.last = g.take)
    <3> DEFINE q == Apply(player, g, ready, remount)
    <3>1. Drawn(q, g, lost) /\ (q.last = player.last \/ (g # None /\ q.last = g.take))
      BY <1>3, <2>3, <2>4, <2>5, ApplyDrawn
    <3>. QED
      BY <2>6, <3>1
  <2>8. Draws'
    BY <2>1, <2>7 DEF Draws
  <2>9. Seen' \subseteq Seen \cup {t \in Takes : Has(g, t)}
    BY <2>1, <2>7 DEF Seen, Has
  <2>10. Lines'
    BY <1>1, <2>1, <2>9, StateLines DEF RestInv, g
  <2>. QED
    BY <1>2, <2>8, <2>10
<1>. QED
  BY <1>4, <1>5, <1>6, <1>7 DEF WindowHandles

LEMMA PlayerSide ==
  ASSUME RestInv, MountStep \/ SwapStep \/ OutStep \/ \E t \in Templates : LoadFails(t)
  PROVE  Lines' /\ Draws' /\ Waiting' /\ Dues'
<1>1. /\ UNCHANGED <<air, mirrorOf, edits, taken, subs, open, toServer, toWindow,
                     source, latest>>
      /\ asked' \subseteq asked
  BY DEF MountStep, SwapStep, OutStep, PlayerBecomes, LoadFails, server
<1>2. Dues'
  BY <1>1 DEF RestInv, Dues, EditDue, StateDue, TemplatesDue
<1>3. QueueStep
  BY <1>1 DEF QueueStep
<1>4. player \in Player /\ latest \in Graphic \cup {None} /\ Sound(player, Want(latest))
      /\ Drawn(player, latest, lost)
  BY DEF RestInv, IInv, Typed, Sound, Draws
<1>5. ASSUME Draws', Waiting', Seen' \subseteq Seen
      PROVE  Lines' /\ Draws' /\ Waiting' /\ Dues'
  BY <1>1, <1>2, <1>3, <1>5, LinesKeep DEF RestInv
<1>6. CASE MountStep \/ SwapStep
  <2>1. PICK s \in player.steps :
          \/ player' = Mounted(player, s) /\ s.kind = "load"
          \/ player' = Swapped(player, s) /\ s.kind = "swap"
    BY <1>6 DEF MountStep, SwapStep, CanMount, PlayerBecomes
  <2>2. UNCHANGED <<asked, lost>>
    BY <1>6 DEF MountStep, SwapStep, PlayerBecomes
  <2>3. /\ Drawn(player', latest, lost) /\ player'.last = player.last
        /\ player'.steps = player.steps \ {s}
    BY <1>4, <2>1, GoesDrawn
  <2>. QED
    BY <1>1, <1>5, <2>2, <2>3 DEF RestInv, Draws, Waiting, Seen
<1>7. CASE OutStep
  <2>1. PICK m \in player.retiring : player' = OutEnds(player, m) /\ UNCHANGED <<asked, lost>>
    BY <1>7 DEF OutStep, PlayerBecomes
  <2>2. /\ Drawn(player', latest, lost) /\ player'.last = player.last
        /\ player'.steps = player.steps
    BY <1>4, <2>1, OutDrawn
  <2>. QED
    BY <1>1, <1>5, <2>1, <2>2 DEF RestInv, Draws, Waiting, Seen
<1>8. CASE \E t \in Templates : LoadFails(t)
  <2>1. PICK t \in Templates :
          /\ player' = LoadFailed(player, t) /\ asked' = asked \ {t}
          /\ lost' = lost \cup LostTo(player, t)
    BY <1>8 DEF LoadFails
  <2>2. /\ Drawn(player', latest, lost') /\ player'.last = player.last
        /\ player'.steps = {s \in player.steps : s.loaded \/ s.tpl # t}
        /\ \A n \in LostTo(player, t) : n = player.last
    BY <1>4, <2>1, FailedDrawn, ZenonT(40)
  <2>3. LostTo(player, t) \subseteq Takes
    BY <1>4 DEF Player, Step, LostTo
  <2>4. Seen' \subseteq Seen
    BY <2>1, <2>2, <2>3 DEF Seen
  <2>5. Waiting'
    BY <2>1, <2>2 DEF RestInv, Waiting
  <2>6. Draws'
    BY <1>1, <2>2 DEF Draws
  <2>. QED
    BY <1>5, <2>4, <2>5, <2>6
<1>. QED
  BY <1>6, <1>7, <1>8

LEMMA RestStays == RestInv /\ MaxEdits <= 1 /\ [Next]_vars => RestInv'
<1> SUFFICES ASSUME RestInv, MaxEdits <= 1, [Next]_vars PROVE RestInv'
  OBVIOUS
<1>1. IInv' /\ Others'
  BY Steps, OthersStay DEF RestInv
<1>2. CASE UNCHANGED vars
  <2>1. /\ UNCHANGED <<air, mirrorOf, edits, taken, subs, open, toServer, toWindow,
                       source, latest, lost, asked>>
        /\ player' = player
    BY <1>2 DEF vars, server, window
  <2>2. Draws' /\ Waiting'
    BY <2>1, StaysDrawn DEF RestInv, StageStays
  <2>3. Dues'
    BY <2>1 DEF RestInv, Dues, EditDue, StateDue, TemplatesDue
  <2>4. Lines'
    BY <2>1, LinesKeep DEF RestInv, QueueStep, Seen
  <2>. QED
    BY <1>1, <2>2, <2>3, <2>4 DEF RestInv
<1>3. CASE Next
  BY <1>1, <1>3, ServerSide, WindowSide, PlayerSide DEF Next, RestInv
<1>. QED
  BY <1>2, <1>3

\* At rest nothing is due any longer: the source is the configured one, the
\* state accepted last is the channel's, and the player holds no step.
LEMMA RestShows == RestInv => RestFollows
<1> SUFFICES ASSUME RestInv, AtRest PROVE Follows
  BY DEF RestFollows
<1>1. open /\ (\A m : ~Among(m, toServer)) /\ (\A m : ~Among(m, toWindow))
      /\ \A c : Of(toWindow, c) = {}
  BY DEF AtRest, Among, Of
<1>2. source = mirrorOf /\ latest = air[mirrorOf] /\ asked = {}
  BY <1>1 DEF RestInv, Dues, EditDue, StateDue, TemplatesDue, Told
<1>3. player.steps = {}
  BY <1>2 DEF AtRest, RestInv, Waiting
<1>4. Fresh(player) = {}
  BY <1>3 DEF Fresh
<1> DEFINE g == air[mirrorOf]
<1>5. /\ g \in Graphic \cup {None} /\ Drawn(player, g, lost)
      /\ ~Lit(g) => player.current = None
  <2>1. g \in Graphic \cup {None}
    BY DEF RestInv, IInv, Typed
  <2>2. ~Lit(g) => Want(g) = None
    BY <2>1, Wants DEF Lit, Want, Graphic
  <2>3. Sound(player, Want(g)) /\ Drawn(player, g, lost)
    BY <1>2 DEF RestInv, IInv, Draws
  <2>. QED
    BY <2>1, <2>2, <2>3 DEF Sound
<1>6. Lit(g) => player.current = IF g.take \in lost THEN None ELSE Picture(g)
  BY <1>4, <1>5 DEF Drawn
<1>7. g # None => g.phase \in {"in", "out"}
  BY <1>5 DEF Graphic
<1>. QED
  BY <1>5, <1>6, <1>7 DEF Follows, Lit, Picture

\* A window whose configuration is edited at most once never rests on anything
\* but its source: whatever was dropped, resent or loaded late, once nothing is
\* under way the stage paints the channel as the server has it, or nothing if
\* that take's template did not load (mirrorSubscription.ts hello and retarget,
\* templateLoader.ts, channelPlayer.ts apply).
THEOREM RestsOnSource ==
  ASSUME MaxEdits <= 1
  PROVE  Spec => []RestFollows
<1>1. Init => RestInv
  BY RestBegins
<1>2. RestInv /\ [Next]_vars => RestInv'
  BY RestStays
<1>. QED
  BY <1>1, <1>2, RestShows, PTL DEF Spec

=============================================================================
