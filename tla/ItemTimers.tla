----------------------------- MODULE ItemTimers -----------------------------
(***************************************************************************)
(* Countdowns started and ended by takes.  Every take of a row, and every  *)
(* row that leaves a channel, starts a handler that awaits the followed    *)
(* channels, the settings and the row before it acts; handlers of several  *)
(* takes overlap in any order, and with the Planning Center sync.          *)
(*                                                                         *)
(* A channel is reduced to the rows it shows.  The rundown, the settings   *)
(* and the followed channels do not change.                                *)
(***************************************************************************)
EXTENDS PcoSync

CONSTANTS
  Channels,      \* channels other than preview, whose takes do not count
  Followed,      \* those a stage monitor follows
  Timed,         \* rows with a length
  LooksUp,       \* rows whose label needs a further read: songs, graphics
  ShowOf,        \* [Rows -> show]
  Sessions,      \* rows taken as a session: songs, passages, slides
  Clips,         \* rows taken on the media slot
  AutoItemTimer, \* the setting
  MaxTakes       \* takes of a server run

VARIABLES
  air,       \* the rows each channel shows
  takeSeq,   \* takes so far
  newest,    \* latestFollowedSeq and latestFollowedRowId
  takes,     \* onRowTaken calls in flight, each at the read it awaits
  ends       \* onRowEnded calls in flight

takeVars == <<air, takeSeq, newest, takes, ends>>
vars == <<pcoVars, takeVars>>

ASSUME ItemTimersAssumption ==
  /\ Followed \subseteq Channels
  /\ Timed \subseteq Rows /\ LooksUp \subseteq Rows
  /\ Sessions \subseteq Rows /\ Clips \subseteq Rows \ Sessions
  /\ DOMAIN ShowOf = Rows
  /\ AutoItemTimer \in BOOLEAN
  /\ MaxTakes \in Nat /\ MaxGeneration \in Nat /\ MaxStarts \in Nat
  /\ None \notin Rows \cup Shows \cup Items

\* fading: the graphic is animating out on its own (auto-out).
Screen == [graphic : Rows \cup {None}, fading : BOOLEAN, clip : Clips \cup {None}]
Dark   == [graphic |-> None, fading |-> FALSE, clip |-> None]

RowsOnAir(s) ==
  {s.clip, IF s.fading THEN None ELSE s.graphic} \ {None}

\* createItemEndTracker: what ended as screen s became t.  Nothing does while
\* a graphic fades by itself.
Ended(s, t) == IF t.fading THEN {} ELSE RowsOnAir(s) \ RowsOnAir(t)

TakeCalls == [seq : 1 .. MaxTakes, channel : Channels, row : Rows,
              at : {"followed", "settings", "show", "lookup"}]
EndCalls  == [seq : 0 .. MaxTakes, channel : Channels, row : Rows]

Init == /\ PcoInit
        /\ air = [c \in Channels |-> Dark]
        /\ takeSeq = 0
        /\ newest = [seq |-> 0, row |-> None]
        /\ takes = {} /\ ends = {}

----------------------------------------------------------------------------
\* Channel c shows s from take seq on; rows that ended are reported.
Airs(c, s, seq) ==
  /\ air' = [air EXCEPT ![c] = s]
  /\ ends' = ends \cup {[seq |-> seq, channel |-> c, row |-> r]
                          : r \in Ended(air[c], s)}

\* The live-row hook: a take of another show ends the sync, and onRowTaken
\* gives the take its number.
Take(c, r) ==
  /\ takeSeq < MaxTakes
  /\ takeSeq' = takeSeq + 1
  /\ takes' = takes \cup {[seq |-> takeSeq', channel |-> c, row |-> r,
                           at |-> "followed"]}
  /\ Airs(c, IF r \in Clips
                THEN [air[c] EXCEPT !.clip = r]
                ELSE [air[c] EXCEPT !.graphic = r, !.fading = FALSE],
           takeSeq')
  /\ IF Enabled /\ ShowOf[r] # sync.show
       THEN generation < MaxGeneration /\ Stop
       ELSE UNCHANGED pcoVars
  /\ UNCHANGED newest

\* The screen of c changes without a take.
Changes(c, s) ==
  /\ Airs(c, s, takeSeq)
  /\ UNCHANGED <<pcoVars, takeSeq, newest, takes>>

ClearGraphic(c) ==
  /\ air[c].graphic # None /\ ~air[c].fading
  /\ Changes(c, [air[c] EXCEPT !.graphic = None])

\* Auto-out, of a graphic with no session, and the sweep that follows it.
AutoOut(c) ==
  /\ air[c].graphic \in Rows \ Sessions /\ ~air[c].fading
  /\ Changes(c, [air[c] EXCEPT !.fading = TRUE])
Sweep(c) ==
  /\ air[c].fading
  /\ Changes(c, [air[c] EXCEPT !.graphic = None, !.fading = FALSE])

\* A clip is cleared, or finishes.
ClipEnds(c) ==
  /\ air[c].clip # None
  /\ Changes(c, [air[c] EXCEPT !.clip = None])

----------------------------------------------------------------------------
\* onRowTaken, read by read.
At(t, step) == takes' = (takes \ {t}) \cup {[t EXCEPT !.at = step]}
Returns(t)  == takes' = takes \ {t}

SetTimer(v) == /\ timer' = v
               /\ UNCHANGED <<sync, generation, asked, pollDue, starts>>

Superseded(t) == newest.seq > t.seq /\ newest.row # t.row

\* A slip, for comparison: the take whose reads end last counts as newest.
AnyFollowedRead(t) ==
  /\ t.at = "followed"
  /\ IF t.channel \in Followed
       THEN /\ newest' = [seq |-> t.seq, row |-> t.row]
            /\ At(t, "settings")
       ELSE Returns(t) /\ UNCHANGED newest
  /\ UNCHANGED <<pcoVars, air, takeSeq, ends>>

FollowedRead(t) ==
  /\ t.at = "followed"
  /\ IF t.channel \in Followed
       THEN /\ newest' = IF t.seq > newest.seq THEN [seq |-> t.seq, row |-> t.row]
                                               ELSE newest
            /\ At(t, "settings")
       ELSE Returns(t) /\ UNCHANGED newest
  /\ UNCHANGED <<pcoVars, air, takeSeq, ends>>

SettingsRead(t) ==
  /\ t.at = "settings"
  /\ IF AutoItemTimer /\ ~External THEN At(t, "show") ELSE Returns(t)
  /\ UNCHANGED <<pcoVars, air, takeSeq, newest, ends>>

\* The countdown as take t decides it, once all is read.  DecideLate is a
\* slip, for comparison: the sync is not asked again.
DecideLate(t) ==
  IF Superseded(t) THEN timer ELSE Timer("item", t.row)

Decide(t) ==
  IF Superseded(t) \/ External THEN timer ELSE Timer("item", t.row)

ShowRead(t) ==
  /\ t.at = "show"
  /\ \/ /\ Superseded(t) /\ Returns(t) /\ UNCHANGED pcoVars
     \/ /\ ~Superseded(t) /\ t.row \notin Timed
        /\ Returns(t) /\ SetTimer(ClearItem("item"))
     \/ /\ ~Superseded(t) /\ t.row \in Timed \cap LooksUp
        /\ At(t, "lookup") /\ UNCHANGED pcoVars
     \/ /\ ~Superseded(t) /\ t.row \in Timed \ LooksUp
        /\ Returns(t) /\ SetTimer(Decide(t))
  /\ UNCHANGED <<air, takeSeq, newest, ends>>

LookupRead(t) ==
  /\ t.at = "lookup"
  /\ Returns(t) /\ SetTimer(Decide(t))
  /\ UNCHANGED <<air, takeSeq, newest, ends>>

\* onRowEnded, once the followed channels are read.
EndRead(e) ==
  /\ ends' = ends \ {e}
  /\ SetTimer(IF e.channel \in Followed /\ timer = Timer("item", e.row)
                THEN None ELSE timer)
  /\ UNCHANGED <<air, takeSeq, newest, takes>>

TakesNext ==
  \/ \E c \in Channels :
       \/ \E r \in Rows : Take(c, r)
       \/ ClearGraphic(c) \/ AutoOut(c) \/ Sweep(c) \/ ClipEnds(c)
  \/ \E t \in takes : FollowedRead(t) \/ SettingsRead(t) \/ ShowRead(t)
                      \/ LookupRead(t)
  \/ \E e \in ends : EndRead(e)

Next == \/ PcoNext /\ UNCHANGED takeVars
        \/ TakesNext

Spec == Init /\ [][Next]_vars

----------------------------------------------------------------------------
TypeOK ==
  /\ PcoTypeOK
  /\ air \in [Channels -> Screen]
  /\ takeSeq \in 0 .. MaxTakes
  /\ newest \in [seq : 0 .. MaxTakes, row : Rows \cup {None}]
  /\ takes \in SUBSET TakeCalls /\ ends \in SUBSET EndCalls

\* Once every take has been handled, a take-based countdown is that of the
\* newest take on a followed channel, in whatever order their reads ended.
NewestTakeDecides ==
  takes = {} /\ newest.row # None /\ timer # None /\ timer.source = "item"
    => timer.row = newest.row
=============================================================================
