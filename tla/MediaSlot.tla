------------------------------ MODULE MediaSlot ----------------------------
(***************************************************************************)
(* The full-frame media slot under the graphics, and the media-only decks  *)
(* and live folders that play in it.  `t` is the clock reading of the      *)
(* handler, `present` the files the live folder holds at that moment.      *)
(***************************************************************************)
EXTENDS ChannelState

\* The media deck's summary is held back while a graphics-slot deck is live.
PublishLoop(c, summary) ==
  IF c.slides # None THEN c ELSE [c EXCEPT !.st.slides = summary]
PublishLoopNow(c, summary) ==
  IF c.slides # None THEN c ELSE Emit([c EXCEPT !.st.slides = summary])

\* The summary shown once no graphics-slot deck is live.
ShowLoopSummary(c) ==
  [c EXCEPT !.st.slides = IF c.deck = None THEN None ELSE LoopSummary(c.deck)]

DropLoop(c) ==
  IF c.deck = None THEN c ELSE PublishLoop([c EXCEPT !.deck = None], None)
DropLoopNow(c) ==
  IF c.deck = None THEN c ELSE PublishLoopNow([c EXCEPT !.deck = None], None)

LoopOwner(d) == <<"deck", d.row>>

\* A slip, for comparison: another take leaves the deck running.
MediaTakeKeepsDeck(c, m, inShow, t) ==
  LET prev == IF c.st.media = None THEN 0 ELSE c.st.media.at
  IN  Emit([c EXCEPT
        !.st.media = [row |-> m.row, item |-> m.item, kind |-> m.kind,
                      loop |-> m.loop, endAction |-> m.endAction,
                      owner |-> m.owner,
                      at |-> IF t > prev THEN t ELSE prev + 1,
                      status |-> "loading", paused |-> FALSE]])

\* m is the media to show; a deck the take does not belong to stops, and the
\* new take's identity is later than the one it replaces.
MediaTake(c, m, inShow, t) ==
  LET kept == IF c.deck # None /\ m.owner # LoopOwner(c.deck)
                THEN DropLoop(c) ELSE c
      prev == IF c.st.media = None THEN 0 ELSE c.st.media.at
  IN  Emit([kept EXCEPT
        !.st.media = [row |-> m.row, item |-> m.item, kind |-> m.kind,
                      loop |-> m.loop, endAction |-> m.endAction,
                      owner |-> m.owner,
                      at |-> IF t > prev THEN t ELSE prev + 1,
                      status |-> "loading", paused |-> FALSE],
        !.st.liveRow = IF inShow THEN m.row ELSE c.st.liveRow])

MediaClear(c) ==
  LET d == DropLoop(c)
  IN  IF c.st.media = None
        THEN IF c.deck = None THEN d ELSE Emit(d)
        ELSE Emit([d EXCEPT !.st.media = None])

MediaControls == {"play", "pause", "restart", "seek"}
MediaControl(c, at, control) ==
  LET m == c.st.media
  IN  IF m = None \/ (m # None /\ m.at # at) THEN c
      ELSE Emit([c EXCEPT
             !.st.media.paused = CASE control = "pause" -> TRUE
                                   [] control \in {"play", "restart"} -> FALSE
                                   [] OTHER -> m.paused,
             !.st.media.status = IF control = "seek" /\ m.status = "ended"
                                   THEN "paused" ELSE m.status])

----------------------------------------------------------------------------
(***************************************************************************)
(* mediaDeckSession.ts.  The live session is c.deck.                       *)
(***************************************************************************)
IsVideo(file) == FileInfo[file].kind = "video"
AdvancesAtEnd(file) == IsVideo(file) /\ FileInfo[file].onEnd
HoldsFor(file) == FileInfo[file].hold /\ ~AdvancesAtEnd(file)

\* The play order seen so far and the files that play now.
Resolve(row, order, present) ==
  IF LoopInfo[row].folder
    THEN LET next == NextFolderOrder[<<order, present>>]
         IN  [order |-> next, slides |-> FolderSlides[<<next, present>>]]
    ELSE [order |-> order, slides |-> LoopInfo[row].order]

\* A slip, for comparison: a file that failed plays again.
PlayableUnlessGone(d, list, present) ==
  {i \in DOMAIN list : LoopInfo[d.row].folder => list[i] \in present}

\* Indexes of list whose file can still play in session d.
Playable(d, list, present) ==
  {i \in DOMAIN list : /\ list[i] \notin d.failed
                       /\ LoopInfo[d.row].folder => list[i] \in present}

ArmLoop(c) ==
  [c EXCEPT !.deck.armed = /\ c.name # Preview
                           /\ ~c.deck.atEnd /\ ~c.deck.starved
                           /\ HoldsFor(c.deck.slides[c.deck.idx])]

ShowSlide(c, inShow, t) ==
  LET file == c.deck.slides[c.deck.idx]
      armed == ArmLoop([c EXCEPT !.deck.onAir = file,
                                 !.deck.onAirFailed = FALSE,
                                 !.deck.playedOut = FALSE])
      shown == MediaTake(PublishLoop(armed, LoopSummary(armed.deck)),
                 [row |-> c.deck.row, item |-> file,
                  kind |-> FileInfo[file].kind, loop |-> FALSE,
                  endAction |-> "hold", owner |-> LoopOwner(c.deck)],
                 inShow, t)
  IN  [shown EXCEPT !.deck.at = shown.st.media.at]

\* Move to slide i of the session's list and put it on air.
ShowIndex(c, i, t) ==
  ShowSlide([c EXCEPT !.deck.idx = i, !.deck.atEnd = FALSE], FALSE, t)

HoldLoop(c) ==
  LET a == ArmLoop(c) IN PublishLoopNow(a, LoopSummary(a.deck))

IsOnAir(c, file) ==
  /\ c.deck.onAir = file /\ ~c.deck.onAirFailed
  /\ c.st.media # None /\ c.st.media.at = c.deck.at

\* Wrapping onto the slide already up: no new take.
Replay(c) ==
  HoldLoop(IF IsVideo(c.deck.slides[c.deck.idx])
             THEN MediaControl(c, c.deck.at, "restart") ELSE c)

RestartFromTop(c, present, t) ==
  LET d == c.deck
      r == Resolve(d.row, d.order, present)
      play == Playable(d, r.slides, present)
      top == [c EXCEPT !.deck.atEnd = FALSE, !.deck.starved = FALSE,
                       !.deck.order = r.order, !.deck.slides = r.slides,
                       !.deck.idx = Min(play)]
  IN  IF play = {}
        THEN HoldLoop([c EXCEPT !.deck.atEnd = FALSE, !.deck.starved = TRUE])
        ELSE IF IsOnAir(c, r.slides[Min(play)])
               THEN Replay(top) ELSE ShowSlide(top, FALSE, t)

LoopEnd(c) ==
  LET gone == [c EXCEPT !.deck = None]
  IN  MediaClear(IF c.st.media = None THEN PublishLoopNow(gone, None)
                                      ELSE PublishLoop(gone, None))

Forward(c, manual, present, t) ==
  LET d == c.deck
      later == {i \in Playable(d, d.slides, present) : i > d.idx}
  IN  CASE later # {} -> ShowIndex(c, Min(later), t)
        [] later = {} /\ LoopInfo[d.row].loop -> RestartFromTop(c, present, t)
        [] later = {} /\ ~LoopInfo[d.row].loop /\ ~d.atEnd ->
             HoldLoop([c EXCEPT !.deck.atEnd = TRUE])
        [] OTHER -> IF manual THEN LoopEnd(c) ELSE c

Back(c, present, t) ==
  LET d == c.deck
      earlier == {i \in Playable(d, d.slides, present) : i < d.idx}
  IN  CASE earlier # {} ->
             ShowIndex([c EXCEPT !.deck.starved = FALSE], Max(earlier), t)
        [] earlier = {} /\ d.atEnd -> ShowIndex(c, d.idx, t)
        [] OTHER -> c

LoopStep(c, d, present, t) ==
  CASE c.deck = None -> c
    [] c.deck # None /\ d > 0 -> Forward(c, TRUE, present, t)
    [] OTHER -> Back(c, present, t)

LoopStart(c, row, i, present, t) ==
  LET r == Resolve(row, LoopInfo[row].order, present)
  IN  IF i \notin DOMAIN r.slides THEN c
      ELSE ShowSlide([DropLoop(c) EXCEPT !.deck =
             [row |-> row, inShow |-> LoopInfo[row].inShow,
              order |-> r.order, slides |-> r.slides, idx |-> i,
              atEnd |-> FALSE, starved |-> FALSE, failed |-> {}, at |-> 0,
              onAir |-> None, onAirFailed |-> FALSE, playedOut |-> FALSE,
              armed |-> FALSE]], LoopInfo[row].inShow, t)

\* Going to a slide by hand retries it even if it failed before.
LoopGoTo(c, i, present, t) ==
  IF c.deck = None \/ (c.deck # None /\ i \notin DOMAIN c.deck.slides) THEN c
  ELSE LET retried == [c EXCEPT !.deck.failed = @ \ {c.deck.slides[i]}]
       IN  IF i \notin Playable(retried.deck, retried.deck.slides, present)
             THEN retried
             ELSE ShowIndex([retried EXCEPT !.deck.starved = FALSE], i, t)

LoopTimer(c, present, t) ==
  Forward([c EXCEPT !.deck.armed = FALSE], FALSE, present, t)

\* Files appeared: a starved live-folder session starts again.
LoopFolderChange(c, present, t) ==
  IF \/ present = {} \/ c.deck = None
     \/ c.deck # None /\ (~c.deck.starved \/ ~LoopInfo[c.deck.row].folder)
    THEN c
    ELSE RestartFromTop([c EXCEPT !.deck.failed = {}], present, t)

\* The file that failed to play.
Failing(d) == IF d.onAir = None THEN d.slides[d.idx] ELSE d.onAir

\* Renderer reports about the take `at`.
IsLoopTake(c, at) == c.deck # None /\ c.name # Preview /\ c.deck.at = at

LoopMediaEnded(c, at, present, t) ==
  IF /\ IsLoopTake(c, at)
     /\ ~c.deck.atEnd /\ ~c.deck.starved /\ ~c.deck.playedOut
     /\ AdvancesAtEnd(c.deck.slides[c.deck.idx])
    THEN Forward([c EXCEPT !.deck.playedOut = TRUE], FALSE, present, t)
    ELSE c

LoopMediaPlaying(c, at) ==
  IF c.deck # None /\ c.deck.at = at
    THEN [c EXCEPT !.deck.playedOut = FALSE] ELSE c

LoopMediaFailed(c, at, present, t) ==
  IF IsLoopTake(c, at) /\ ~c.deck.starved
    THEN Forward([c EXCEPT !.deck.failed = @ \cup {Failing(c.deck)},
                           !.deck.onAirFailed = TRUE], FALSE, present, t)
    ELSE c

\* A slip, for comparison: it resumes where it was, whatever became of the file.
PromotedLoopAsIs(from, present) ==
  [from.deck EXCEPT !.starved = FALSE, !.at = 0, !.onAir = None, !.armed = FALSE]

\* The session to[.deck] gets when from's deck is promoted; None when nothing
\* of it can play.
PromotedLoop(from, present) ==
  LET d == [from.deck EXCEPT !.starved = FALSE, !.at = 0, !.onAir = None,
                             !.armed = FALSE]
      here == Playable(d, d.slides, present)
      onward == {i \in here : i >= d.idx}
      r == Resolve(d.row, d.order, present)
      anew == Playable(d, r.slides, present)
      At(i) == [d EXCEPT !.idx = i, !.atEnd = d.atEnd /\ i = d.idx]
  IN  CASE onward # {} -> At(Min(onward))
        [] onward = {} /\ here # {} -> At(Min(here))
        [] here = {} /\ anew # {} ->
             [At(Min(anew)) EXCEPT !.order = r.order, !.slides = r.slides]
        [] OTHER -> None

\* Preview to program: <<from, to>> afterwards.
LoopPromote(from, to, present, t) ==
  IF from.deck = None \/ PromotedLoop(from, present) = None THEN <<from, to>>
  ELSE LET d == PromotedLoop(from, present)
       IN  <<LoopEnd(from),
             ShowSlide([DropLoop(to) EXCEPT !.deck = d], d.inShow, t)>>
=============================================================================
