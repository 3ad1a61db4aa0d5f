---------------------------- MODULE GraphicsSlot ---------------------------
(***************************************************************************)
(* The graphics slot of a channel and the three sessions that draw in it:  *)
(* songs (songSession.ts), scripture (scriptureSession.ts) and slides      *)
(* decks (slidesSession.ts), with the takes and clears of channels.ts they *)
(* all go through.  An operator is what one call does to the channel.      *)
(***************************************************************************)
EXTENDS MediaSlot

CancelAutoOut(c) == [c EXCEPT !.autoOut = None]

\* Slips, for comparison: no sweep, or none while an older one is pending.
OutForGood(c) == Emit([c EXCEPT !.st.active.phase = "out"])
OutSweptOnce(c) ==
  Emit([c EXCEPT !.st.active.phase = "out",
                 !.sweeps = IF @ = {} THEN {c.st.active.at} ELSE @])

\* The graphic starts its out animation; 1.5 s later it is swept to null.
Out(c) ==
  Emit([c EXCEPT !.st.active.phase = "out", !.sweeps = @ \cup {c.st.active.at}])

\* Clear that keeps every session: the blank of songs and slides.
ClearInternal(c) ==
  LET unowned == [CancelAutoOut(c) EXCEPT !.source = None]
  IN  IF c.st.active = None THEN unowned ELSE Out(unowned)

\* A slip, for comparison: the published queue stays.
DropSongQueueUnpublished(c) == [c EXCEPT !.songQ = None]

DropSongQueue(c) ==
  IF c.songQ = None THEN c ELSE [c EXCEPT !.songQ = None, !.st.songQ = None]
DropScriptureQueue(c) ==
  IF c.scrQ = None THEN c ELSE [c EXCEPT !.scrQ = None, !.st.scrQ = None]
DropScriptureLive(c) ==
  IF c.scr = None THEN c ELSE [c EXCEPT !.scr = None, !.st.scr = None]
DropScripture(c) ==
  [c EXCEPT !.scr = None, !.st.scr = None, !.scrQ = None, !.st.scrQ = None]

\* A slip, for comparison: the timer is left to fire.
TearDownSongOnly(c) ==
  IF c.song = None THEN c ELSE [c EXCEPT !.song = None, !.st.song = None, !.heard = 0]

\* The song session, its speech-to-text timer and its matcher binding.
TearDownSong(c) ==
  IF c.song = None THEN c
  ELSE [c EXCEPT !.song = None, !.st.song = None, !.stt = None, !.heard = 0]

\* A slides deck's photo and video slides air in the media slot.
Owns(c, row) == c.st.media # None /\ c.st.media.owner = <<"slides", row>>
\* A slip, for comparison.
ReleasesNothing(c, row) == c
ReleaseMedia(c, row) == IF Owns(c, row) THEN MediaClear(c) ELSE c
OwnsMediaOn(c) == c.slides # None /\ Owns(c, c.slides.row)

\* A slip, for comparison: the media deck underneath is not shown again.
SlidesDropAllBlank(c) ==
  IF c.slides = None THEN c
  ELSE [ReleaseMedia([c EXCEPT !.slides = None], c.slides.row) EXCEPT
          !.st.slides = None]

SlidesDropAll(c) ==
  IF c.slides = None THEN c
  ELSE ShowLoopSummary(ReleaseMedia([c EXCEPT !.slides = None], c.slides.row))

----------------------------------------------------------------------------
(***************************************************************************)
(* channels.ts: takes, clears and updates.                                 *)
(***************************************************************************)
\* A slip, for comparison: the passage stays live.
ClearSlotKeepsScripture(c, keepQueued) ==
  LET decks == SlidesDropAll(c)
  IN  ClearInternal(IF keepQueued THEN decks
                    ELSE DropSongQueue(DropScriptureQueue(decks)))

\* clear() once the song session is gone.  With nothing on screen it emits
\* only for a queue or a deck it dropped.
ClearSlot(c, keepQueued) ==
  LET decks == SlidesDropAll(DropScriptureLive(c))
      queues == IF keepQueued THEN decks
                              ELSE DropSongQueue(DropScriptureQueue(decks))
      told == \/ c.slides # None
              \/ ~keepQueued /\ (c.songQ # None \/ c.scrQ # None)
  IN  IF c.st.active = None /\ told THEN Emit(ClearInternal(queues))
                                    ELSE ClearInternal(queues)

\* Slips, for comparison: a song that is not seen is ended without telling, or
\* a song is not ended at all.
EndLiveSongUntold(c) ==
  IF c.song = None THEN c ELSE ClearSlot(TearDownSong(c), FALSE)
EndsNoSong(c) == c

EndLiveSong(c) ==
  LET cleared == ClearSlot(TearDownSong(c), FALSE)
  IN  CASE c.song = None -> c
        [] c.song # None /\ cleared.st.active = None -> Emit(cleared)
        [] OTHER -> cleared

Clear(c, keepQueued) == ClearSlot(EndLiveSong(c), keepQueued)

Mount(c, tpl, ctx, shows, t) ==
  [CancelAutoOut(c) EXCEPT !.st.active =
     [tpl |-> tpl, at |-> t, phase |-> "in", ctx |-> ctx, shows |-> shows]]

\* A take from outside the sessions.  m says what is taken, for which row (or
\* none), and what scripture it leaves live or queued.
Take(c, m, t) ==
  IF RefusesDraft(c, m.tpl) THEN c
  ELSE LET free == SlidesDropAll(DropSongQueue(TearDownSong(c)))
           up == Mount(DropScripture(free), m.tpl, m.ctx, m.shows, t)
       IN  Emit([up EXCEPT
             !.st.scr = m.scr, !.st.scrQ = m.scrQ, !.source = m.row,
             !.st.liveRow = IF m.row = None THEN c.st.liveRow ELSE m.row,
             !.lookups = IF m.scr = None /\ m.tpl \in AutoOut
                           THEN @ \cup {[tpl |-> m.tpl, at |-> t]} ELSE @])

TakeGraphic(c, tpl, row, ctx, t) ==
  Take(c, [tpl |-> tpl, ctx |-> ctx, shows |-> Says(row, 0, 0), row |-> row,
           scr |-> None, scrQ |-> None], t)

\* A song or slides session's take: only scripture gives way to it.
TakeInternal(c, tpl, shows, t) ==
  IF RefusesDraft(c, tpl) THEN c
  ELSE Emit(Mount(DropScripture(c), tpl, "none", shows, t))

Update(c, shows) ==
  IF c.st.active = None THEN c ELSE Emit([c EXCEPT !.st.active.shows = shows])

\* A slip, for comparison: an edit counts as a take of the same graphic.
EditFieldsAfresh(c) ==
  IF c.st.active = None THEN c
  ELSE Update(CancelAutoOut(c), [c.st.active.shows EXCEPT !.edited = TRUE])

\* The operator edits the fields of what is up.
EditFields(c) ==
  IF c.st.active = None THEN c
  ELSE Update(c, [c.st.active.shows EXCEPT !.edited = TRUE])

\* The template read answers: the timer starts if its take is still active.
AutoOutAnswer(c, ref) ==
  LET a == c.st.active
      read == [c EXCEPT !.lookups = @ \ {ref}]
  IN  IF a # None /\ a.tpl = ref.tpl /\ a.at = ref.at
        THEN [read EXCEPT !.autoOut = ref] ELSE read

AutoOutFires(c) ==
  LET a == c.st.active
      fired == CancelAutoOut(c)
  IN  IF a # None /\ a.tpl = c.autoOut.tpl /\ a.at = c.autoOut.at
        THEN Clear(fired, TRUE) ELSE fired

Sweep(c, at) ==
  LET fired == [c EXCEPT !.sweeps = @ \ {at}]
      a == c.st.active
  IN  IF a # None /\ a.phase = "out" /\ a.at = at
        THEN Emit([fired EXCEPT !.st.active = None]) ELSE fired

----------------------------------------------------------------------------
(***************************************************************************)
(* songSession.ts and the ws handlers that drive it.                       *)
(***************************************************************************)
\* A session's fresh state on row `row`.
NewSong(row, arr, cur, trust) ==
  [row |-> row, arr |-> arr, cur |-> cur, blanked |-> FALSE, trust |-> trust]

\* A slip, for comparison: a forced mount does not look whether it is blanked.
RenderSongThroughBlank(c, force, t) ==
  LET s == c.song
      text == Says(s.row, s.cur.sec, s.cur.slide)
      told == Emit([c EXCEPT !.st.song = s])
  IN  IF ~force /\ s.blanked THEN ClearInternal(told)
      ELSE TakeInternal(told, SongInfo[s.row].lyric, text, t)

RenderSong(c, force, t) ==
  LET s == c.song
      lyric == SongInfo[s.row].lyric
      text == Says(s.row, s.cur.sec, s.cur.slide)
      told == Emit([c EXCEPT !.st.song = s])
  IN  CASE s.blanked -> ClearInternal(told)
        [] ~s.blanked /\ ~OnSlide(SongInfo[s.row].song, s.arr, s.cur) -> told
        [] OTHER -> IF ~force /\ OnScreen(c) /\ c.st.active.tpl = lyric
                      THEN Update(told, text)
                      ELSE TakeInternal(told, lyric, text, t)

SongStart(c, row, arr, cur, t) ==
  RenderSong([SlidesDropAll(DropSongQueue(c)) EXCEPT
                !.song = NewSong(row, arr, cur, SongInfo[row].trust),
                !.heard = Len(arr)], TRUE, t)

SongTake(c, row, t) ==
  SetLiveRow(SongStart(c, row, SongInfo[row].arr, FirstSlide, t), row)

SongTo(c, cur, t) == RenderSong([c EXCEPT !.song.cur = cur], TRUE, t)

SongAdvance(c, d, t) ==
  LET s == c.song
      next == StepCursor(SongInfo[s.row].song, s.arr, s.cur, d)
  IN  CASE c.song = None /\ c.songQ # None /\ d > 0 ->
             SongStart(c, c.songQ, SongInfo[c.songQ].arr, FirstSlide, t)
        [] c.song # None /\ next # s.cur -> SongTo(c, next, t)
        [] OTHER -> c

\* A jump to a section the arrangement lacks appends it.
SongJump(c, section, slide, t) ==
  LET row == IF c.song = None THEN c.songQ ELSE c.song.row
      arr == IF c.song = None THEN SongInfo[row].arr ELSE c.song.arr
      found == OccurrenceFor(arr, section,
                             IF c.song = None THEN 0 ELSE c.song.cur.sec)
      target == IF found = 0 THEN Append(arr, section) ELSE arr
      cur == [sec |-> IF found = 0 THEN Len(arr) + 1 ELSE found,
              slide |-> slide]
  IN  CASE row = None -> c
        [] row # None /\ found = 0
             /\ section \notin DOMAIN SlideCount[SongInfo[row].song] -> c
        [] OTHER -> IF c.song = None THEN SongStart(c, row, target, cur, t)
                    ELSE SongTo([c EXCEPT !.song.arr = target], cur, t)

ClearQueuedSong(c) == IF c.songQ = None THEN c ELSE Emit(DropSongQueue(c))

SongBlank(c, t) ==
  IF c.song = None THEN ClearQueuedSong(c)
  ELSE RenderSong([c EXCEPT !.song.blanked = ~@], FALSE, t)

SongTrust(c, trust) ==
  LET s == [c.song EXCEPT !.trust = trust]
  IN  IF c.song = None THEN c ELSE Emit([c EXCEPT !.song = s, !.st.song = s])

SongEnd(c) == IF c.song = None THEN ClearQueuedSong(c) ELSE EndLiveSong(c)

SongIntro(c, row, t) ==
  Emit([TakeGraphic(c, SongInfo[row].intro, row, "intro", t) EXCEPT
          !.songQ = row, !.st.songQ = row])

SongOutro(c, row, t) == TakeGraphic(c, SongInfo[row].outro, row, "outro", t)

SongLyrics(c, row, t) ==
  SetLiveRow(IF c.song # None /\ c.song.row = row
               THEN SongAdvance(c, 1, t)
               ELSE SongStart(c, row, SongInfo[row].arr, FirstSlide, t), row)

\* song_take_pvw_to_pgm: <<from, to>> afterwards.
SongPromote(from, to, row, t) ==
  LET src == from.song
      reuse == src # None /\ SongInfo[src.row].song = SongInfo[row].song
      arr == IF reuse THEN src.arr ELSE SongInfo[row].arr
      up == [DropSongQueue(to) EXCEPT
               !.song = NewSong(row, arr, IF reuse THEN src.cur ELSE FirstSlide,
                          IF reuse THEN src.trust ELSE SongInfo[row].trust),
               !.heard = Len(arr)]
  IN  <<EndLiveSong(from), SetLiveRow(RenderSong(up, TRUE, t), row)>>

\* Slides the matcher can propose: those about the cursor and the first one
\* of each section, in the arrangement it was bound to.
Matchable(c) ==
  LET song == SongInfo[c.song.row].song
      arr == SubSeq(c.song.arr, 1, c.heard)
      near == {c.song.cur} \cup {StepCursor(song, arr, c.song.cur, d) : d \in {-1, 1}}
      openings == {[sec |-> i, slide |-> 1] : i \in DOMAIN arr}
  IN  {p \in near \cup openings : OnSlide(song, arr, p)}

\* A hypothesis matched slide p, or none, surely enough to act on it or not.
Hypothesis(c, p, sure) ==
  LET told == [c EXCEPT !.match = p]
      acts == /\ sure /\ c.song.trust
              /\ p # None /\ (p # None => IsForward(p, c.song.cur))
  IN  CASE c.song = None -> c
        [] c.song # None /\ acts -> [told EXCEPT !.stt = p]
        [] OTHER -> told

\* A slip, for comparison: the new slide is published but not mounted.
SttFiresUnmounted(c, t) ==
  LET s == [c.song EXCEPT !.cur = c.stt]
  IN  IF c.song # None /\ IsForward(c.stt, c.song.cur)
        THEN Emit([c EXCEPT !.stt = None, !.song = s, !.st.song = s])
        ELSE [c EXCEPT !.stt = None]

SttFires(c, t) ==
  LET fired == [c EXCEPT !.stt = None]
  IN  IF c.song # None /\ IsForward(c.stt, c.song.cur)
        THEN SongTo(fired, c.stt, t) ELSE fired

----------------------------------------------------------------------------
(***************************************************************************)
(* scriptureSession.ts.                                                    *)
(***************************************************************************)
ScriptureIntro(c, row, t) ==
  [Take(c, [tpl |-> ScriptureInfo[row].intro, ctx |-> "scrIntro",
            shows |-> Says(row, 0, 0), row |-> row,
            scr |-> None, scrQ |-> row], t) EXCEPT !.scrQ = row]

ScriptureSlide(c, row, i, t) ==
  LET session == [row |-> row, slide |-> i]
  IN  IF i \notin 1..ScriptureInfo[row].count THEN c
      ELSE [Take(c, [tpl |-> ScriptureInfo[row].tpl, ctx |-> "scrSlide",
                     shows |-> Says(row, 0, i), row |-> row,
                     scr |-> session, scrQ |-> None], t) EXCEPT
              !.scr = session]

ScriptureAdvance(c, d, t) ==
  CASE c.scr # None -> ScriptureSlide(c, c.scr.row, c.scr.slide + d, t)
    [] c.scr = None /\ c.scrQ # None /\ d > 0 ->
         ScriptureSlide(c, c.scrQ, 1, t)
    [] OTHER -> c

ScriptureGoTo(c, i, t) ==
  CASE c.scr # None -> ScriptureSlide(c, c.scr.row, i, t)
    [] c.scr = None /\ c.scrQ # None -> ScriptureSlide(c, c.scrQ, i, t)
    [] OTHER -> c

ScriptureEnd(c) ==
  CASE c.scr # None -> Clear(c, FALSE)
    [] c.scr = None /\ c.scrQ # None -> Emit(DropScriptureQueue(c))
    [] OTHER -> c

----------------------------------------------------------------------------
(***************************************************************************)
(* slidesSession.ts.  The live session is c.slides.                        *)
(***************************************************************************)
Slides(row) == DeckInfo[row].slides
Airing(c) == Slides(c.slides.row)[c.slides.idx]
AdvancesOnEnd(slide) == slide.kind = "video" /\ slide.onEnd

\* (Re)start the hold of the slide the session is on.
ArmSlides(c) ==
  [c EXCEPT !.slides.armed = /\ c.name # Preview
                             /\ ~c.slides.blanked /\ ~c.slides.atEnd
                             /\ ~AdvancesOnEnd(Airing(c)) /\ Airing(c).hold]

PublishSlides(c) == [c EXCEPT !.st.slides = DeckSummary(c.slides)]

\* A slip, for comparison: the deck's graphic stays over the photo.
RenderMediaSlideOver(c, t) ==
  LET s == c.slides
      taken == MediaTake(DropScripture(c),
                 [row |-> s.row, item |-> s.idx, kind |-> Airing(c).kind,
                  loop |-> FALSE, endAction |-> "hold",
                  owner |-> <<"slides", s.row>>], FALSE, t)
  IN  [taken EXCEPT !.slides.mediaAt = taken.st.media.at,
                    !.slides.playedOut = FALSE]

\* A photo or video slide airs beneath the graphics; the deck's graphic goes.
RenderMediaSlide(c, t) ==
  LET s == c.slides
      taken == MediaTake(DropScripture(c),
                 [row |-> s.row, item |-> s.idx, kind |-> Airing(c).kind,
                  loop |-> FALSE, endAction |-> "hold",
                  owner |-> <<"slides", s.row>>], FALSE, t)
      noted == [taken EXCEPT !.slides.mediaAt = taken.st.media.at,
                             !.slides.playedOut = FALSE]
  IN  IF OnScreen(noted) THEN ClearInternal(noted) ELSE noted

RenderSlides(c, force, t) ==
  LET slide == Airing(c)
      text == Says(c.slides.row, 0, c.slides.idx)
      told == PublishSlides(c)
      free == ReleaseMedia(told, c.slides.row)
  IN  CASE c.slides.blanked -> Emit(ClearInternal(free))
        [] ~c.slides.blanked /\ slide.kind # "graphic" ->
             RenderMediaSlide(told, t)
        [] OTHER ->
             IF ~force /\ OnScreen(free) /\ free.st.active.tpl = slide.tpl
               THEN Update(free, text)
               ELSE TakeInternal(free, slide.tpl, text, t)

\* A slip, for comparison: the old deck's photo stays up.
ReplacedKeepsMedia(c, slide) == c

\* A new session showing `slide` first takes over from the channel's old one.
Replaced(c, slide) ==
  IF c.slides = None \/ slide.kind # "graphic" THEN c
  ELSE ReleaseMedia(c, c.slides.row)

NewDeck(row, i, atEnd) ==
  [row |-> row, idx |-> i, blanked |-> FALSE, atEnd |-> atEnd,
   autoEnded |-> FALSE, armed |-> FALSE, mediaAt |-> None,
   playedOut |-> FALSE, failed |-> {}]

SlidesUp(c, deck, t) ==
  SetLiveRow(RenderSlides(ArmSlides([Replaced(c, Slides(deck.row)[deck.idx])
                            EXCEPT !.slides = deck]), TRUE, t), deck.row)

SlidesStart(c, row, i, t) ==
  LET noSong == IF c.song = None THEN c ELSE Emit(TearDownSong(c))
  IN  IF i \notin DOMAIN Slides(row) THEN c
      ELSE SlidesUp(ClearQueuedSong(noSong), NewDeck(row, i, FALSE), t)

SlidesEnd(c) ==
  LET gone == ShowLoopSummary([c EXCEPT !.slides = None])
      cleared == Clear(ReleaseMedia(gone, c.slides.row), FALSE)
  IN  CASE c.slides = None -> c
        [] c.slides # None /\ cleared.st.active = None -> Emit(cleared)
        [] OTHER -> cleared

\* By hand to slide i, which shows it again if the deck was blanked.
SlidesTo(c, i, t) ==
  RenderSlides(ArmSlides([c EXCEPT !.slides.idx = i, !.slides.atEnd = FALSE,
                 !.slides.blanked = FALSE, !.slides.autoEnded = FALSE]),
               c.slides.blanked, t)

SlidesAdvance(c, d, t) ==
  LET s == c.slides
      last == Len(Slides(s.row))
      loop == DeckInfo[s.row].loop
      ended == [c EXCEPT !.slides.atEnd = TRUE, !.slides.autoEnded = FALSE,
                         !.slides.armed = FALSE]
  IN  IF c.slides = None THEN c
      ELSE CASE d > 0 /\ s.idx < last -> SlidesTo(c, s.idx + 1, t)
             [] d > 0 /\ s.idx = last /\ loop -> SlidesTo(c, 1, t)
             [] d > 0 /\ s.idx = last /\ ~loop /\ ~s.atEnd ->
                  Emit(PublishSlides(ended))
             [] d > 0 /\ s.idx = last /\ ~loop /\ s.atEnd -> SlidesEnd(c)
             [] d < 0 /\ (s.idx > 1 \/ s.atEnd) ->
                  SlidesTo(c, IF s.idx > 1 THEN s.idx - 1 ELSE 1, t)
             [] OTHER -> [c EXCEPT !.slides.autoEnded = FALSE]

\* Going to a slide by hand retries it even if it failed before.
SlidesGoTo(c, i, t) ==
  IF c.slides = None \/ (c.slides # None /\ i \notin DOMAIN Slides(c.slides.row))
    THEN c ELSE SlidesTo([c EXCEPT !.slides.failed = @ \ {i}], i, t)

SlidesBlank(c, t) ==
  IF c.slides = None THEN c
  ELSE RenderSlides(ArmSlides([c EXCEPT !.slides.blanked = ~@]), TRUE, t)

\* How far ahead each slide is that auto-advance may show, wrapping a loop.
StepsAhead(s) ==
  LET n == Len(Slides(s.row))
  IN  {k \in 1..n : /\ s.idx + k <= n \/ DeckInfo[s.row].loop
                    /\ ((s.idx - 1 + k) % n) + 1 \notin s.failed}

SlidesAutoAdvance(c, t) ==
  LET s == c.slides
      next == ((s.idx - 1 + Min(StepsAhead(s))) % Len(Slides(s.row))) + 1
  IN  IF StepsAhead(s) = {}
        THEN Emit(PublishSlides([c EXCEPT !.slides.atEnd = TRUE,
                    !.slides.autoEnded = TRUE, !.slides.armed = FALSE]))
        ELSE RenderSlides(ArmSlides([c EXCEPT !.slides.idx = next]), FALSE, t)

SlidesTimer(c, t) == SlidesAutoAdvance([c EXCEPT !.slides.armed = FALSE], t)

\* Renderer reports about the media take `at` count once per playthrough.
MovesOnEnd(c, at) ==
  /\ c.slides # None /\ c.name # Preview
  /\ ~c.slides.blanked /\ ~c.slides.atEnd /\ ~c.slides.playedOut
  /\ AdvancesOnEnd(Airing(c)) /\ c.slides.mediaAt = at

SlidesMediaEnded(c, at, t) ==
  IF MovesOnEnd(c, at)
    THEN SlidesAutoAdvance([c EXCEPT !.slides.playedOut = TRUE], t) ELSE c

SlidesMediaFailed(c, at, t) ==
  IF MovesOnEnd(c, at)
    THEN SlidesAutoAdvance([c EXCEPT !.slides.playedOut = TRUE,
                              !.slides.failed = @ \cup {c.slides.idx}], t)
    ELSE c

SlidesMediaPlaying(c, at) ==
  IF c.slides # None /\ c.slides.mediaAt = at
    THEN [c EXCEPT !.slides.playedOut = FALSE] ELSE c

----------------------------------------------------------------------------
(***************************************************************************)
(* What spans both slots: PVW to PGM, renderer reports, the panic clear.   *)
(***************************************************************************)
SlidesPromote(from, to, t) ==
  <<SlidesEnd(from),
    SlidesUp(to, NewDeck(from.slides.row, from.slides.idx, from.slides.atEnd), t)>>

\* The graphic alone goes to program; only an intro brings its queue along.
PromoteGraphic(from, to, t) ==
  LET g == from.st.active
      songQ == IF g.ctx = "intro" THEN from.songQ ELSE None
      scrQ == IF g.ctx = "scrIntro" THEN from.scrQ ELSE None
      free == SlidesDropAll(DropScriptureLive(
                [CancelAutoOut(to) EXCEPT !.songQ = songQ, !.st.songQ = songQ]))
      up == [free EXCEPT
               !.scrQ = scrQ, !.st.scrQ = scrQ,
               !.st.active = [g EXCEPT !.phase = "in", !.at = t],
               !.st.liveRow = IF from.source = None THEN @ ELSE from.source,
               !.source = from.source,
               !.lookups = IF g.tpl \in AutoOut
                             THEN @ \cup {[tpl |-> g.tpl, at |-> t]} ELSE @]
      sent == IF songQ = None THEN from ELSE DropSongQueue(from)
      left == IF scrQ = None THEN sent ELSE DropScriptureQueue(sent)
  IN  <<Clear(left, FALSE), Emit(up)>>

PromoteMedia(from, to, t) ==
  LET m == from.st.media
  IN  <<MediaClear(from),
        MediaTake(to, [row |-> m.row, item |-> m.item, kind |-> m.kind,
                       loop |-> m.loop, endAction |-> m.endAction,
                       owner |-> None], from.st.liveRow = m.row, t)>>

\* Graphic g, if any, is a draft that may not go up.  GateOpen is a slip, for
\* comparison: takes are gated and promotions are not.
GateOpen(to, g) == FALSE
GateRefuses(to, g) == g # None /\ RefusesDraft(to, g.tpl)

\* take_pvw_to_pgm: <<from, to>> afterwards.
TakePvwToPgm(from, to, present, t) ==
  LET moved == LoopPromote(from, to, present, t)
      cued == /\ from.deck = None
              /\ from.st.media # None /\ ~OwnsMediaOn(from)
      pair == IF cued THEN PromoteMedia(moved[1], moved[2], t) ELSE moved
      src == pair[1]
      g == src.st.active
      deckUp == src.slides # None /\ (g # None \/ OwnsMediaOn(src))
      dest == EndLiveSong(pair[2])
  IN  CASE g = None /\ ~deckUp -> pair
        [] GateRefuses(to, g) -> pair
        [] deckUp /\ ~GateRefuses(to, g) ->
             SlidesPromote(src, dest, t)
        [] OTHER -> PromoteGraphic(src, dest, t)

Reports == {"playing", "ended", "error"}

\* media_status of the take `at`; a photo has no end.
MediaStatus(c, at, status, present, t) ==
  LET m == c.st.media
      told == Emit([c EXCEPT !.st.media.status = status])
      ended == CASE m.loop -> Emit([c EXCEPT !.st.media.status = "playing",
                                             !.st.media.paused = FALSE])
                 [] ~m.loop /\ m.endAction = "clear" -> MediaClear(c)
                 [] OTHER -> Emit([told EXCEPT !.st.media.paused = TRUE])
  IN  IF m = None \/ (m # None /\ m.at # at) THEN c
      ELSE CASE status = "ended" /\ m.kind = "image" -> c
             [] status = "ended" /\ m.kind # "image" ->
                  SlidesMediaEnded(LoopMediaEnded(ended, at, present, t), at, t)
             [] status = "error" ->
                  SlidesMediaFailed(LoopMediaFailed(told, at, present, t), at, t)
             [] OTHER -> SlidesMediaPlaying(LoopMediaPlaying(told, at), at)

\* clear_all_channels; a media deck stops even when its media stays up.
ClearAll(c, cut) ==
  LET cleared == DropLoopNow(Clear(c, FALSE))
  IN  IF cut THEN MediaClear(cleared) ELSE cleared
=============================================================================
