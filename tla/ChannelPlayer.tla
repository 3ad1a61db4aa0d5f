--------------------------- MODULE ChannelPlayer ---------------------------
(***************************************************************************)
(* The sequencing of one stage, channelPlayer.ts, as operators on a player *)
(* record.  apply() runs up to its first await; the awaits (a template, an *)
(* out animation) are steps in flight that go on later, in any order.  The *)
(* code tells a step overtaken by a newer state by its generation; here    *)
(* such a step is no longer fresh.                                         *)
(*                                                                         *)
(* A graphic on air is [take, tpl, data, phase].  Takes have distinct      *)
(* identities (takenAt); animations have no duration.                      *)
(***************************************************************************)
EXTENDS Naturals

CONSTANTS MaxTakes,   \* takes of a behaviour
          MaxData,    \* versions of a graphic's field values
          Templates,
          None

Takes == 1 .. MaxTakes
Data  == 1 .. MaxData

Graphic == [take : Takes, tpl : Templates, data : Data, phase : {"in", "out"}]
Mount   == [take : Takes, tpl : Templates, data : Data]

\* A take that awaits its template and the out animation of the mount before
\* it, or the out half of a same-template swap.
Step == [kind : {"load", "swap"}, take : Takes, tpl : Templates,
         after : Takes \cup {None}, loaded : BOOLEAN, fresh : BOOLEAN]

\* current: what is mounted and not going out; last: lastTakenAt; data:
\* latestData; retiring: the mounts going out, by take.
Player == [current : Mount \cup {None}, last : Takes \cup {None},
           data : Data \cup {None}, steps : SUBSET Step,
           retiring : SUBSET Takes]

InitPlayer == [current |-> None, last |-> None, data |-> None, steps |-> {},
               retiring |-> {}]

\* A slip, for comparison: steps in flight are not overtaken.
SameGeneration(p) == p

NewGeneration(p) ==
  [p EXCEPT !.steps = {[s EXCEPT !.fresh = FALSE] : s \in p.steps}]

RetireCurrent(p) ==
  IF p.current = None THEN p
  ELSE [p EXCEPT !.current = None, !.retiring = @ \cup {p.current.take}]

GoDark(p) == RetireCurrent(NewGeneration(p))

\* An update of the take on screen, or on its way there.
Update(p, g) ==
  [p EXCEPT !.data = g.data,
            !.current = IF @ = None THEN None ELSE [@ EXCEPT !.data = g.data]]

RetireAndLoad(p, g, cached) ==
  [RetireCurrent(p) EXCEPT !.steps = @ \cup
     {[kind |-> "load", take |-> g.take, tpl |-> g.tpl,
       after |-> IF p.current = None THEN None ELSE p.current.take,
       loaded |-> cached, fresh |-> TRUE]}]

Swap(p, g) ==
  [p EXCEPT !.steps = @ \cup
     {[kind |-> "swap", take |-> g.take, tpl |-> g.tpl, after |-> None,
       loaded |-> TRUE, fresh |-> TRUE]}]

\* A take not seen before.  remount: a session-start fade is pending.
\* NewTakeStale is a slip, for comparison: latestData is left as it was.
NewTakeStale(p, g, cached, remount) ==
  RetireAndLoad([NewGeneration(p) EXCEPT !.last = g.take], g, cached)

NewTake(p, g, cached, remount) ==
  LET q == [NewGeneration(p) EXCEPT !.last = g.take, !.data = g.data]
  IN CASE g.phase = "out" -> RetireCurrent(q)
       [] /\ g.phase = "in" /\ ~remount
          /\ p.current # None /\ p.current.tpl = g.tpl -> Swap(q, g)
       [] OTHER -> RetireAndLoad(q, g, cached)

Apply(p, g, cached, remount) ==
  CASE g = None                               -> GoDark(p)
    [] g # None /\ g.take # p.last            -> NewTake(p, g, cached, remount)
    [] g # None /\ g.take = p.last /\ g.phase = "out" -> GoDark(p)
    [] OTHER                                  -> Update(p, g)

----------------------------------------------------------------------------
Drop(p, s) == [p EXCEPT !.steps = @ \ {s}]

\* Template t arrives, or its request fails.
Loaded(p, t) ==
  [p EXCEPT !.steps = {IF s.tpl = t THEN [s EXCEPT !.loaded = TRUE] ELSE s
                         : s \in p.steps}]
LoadFailed(p, t) ==
  [p EXCEPT !.steps = {s \in @ : s.loaded \/ s.tpl # t}]

\* A load goes on once its template is there and the mount before it is gone.
CanMount(p, s) == s.kind = "load" /\ s.loaded /\ s.after \notin p.retiring

Mounted(p, s) ==
  IF s.fresh
    THEN [Drop(p, s) EXCEPT !.current =
            [take |-> s.take, tpl |-> s.tpl, data |-> p.data]]
    ELSE Drop(p, s)

\* The out half of a swap is over: the mount carries the new take's data.
\* Fresh, the mount is still the current one.
Swapped(p, s) ==
  IF s.fresh
    THEN [Drop(p, s) EXCEPT !.current =
            [@ EXCEPT !.take = s.take, !.data = p.data]]
    ELSE Drop(p, s)

\* An out animation is over: the mount is destroyed.
OutEnds(p, m) == [p EXCEPT !.retiring = @ \ {m}]

\* The takes that stay off screen because template t did not load.
LostTo(p, t) == {s.take : s \in {x \in p.steps : x.fresh /\ ~x.loaded /\ x.tpl = t}}
=============================================================================
