--------------------------- MODULE LiveSafety_proof ---------------------------
(***************************************************************************)
(* Between the sessions, the published state and the screen: what every    *)
(* channel promises its clients after every handler, for every rundown,    *)
(* set of channels and bound (Good).  A handler is a composition of steps  *)
(* that break and restore parts of Good; one lemma per step says which     *)
(* fields it leaves alone and which parts hold afterwards.                 *)
(***************************************************************************)
EXTENDS MediaSlot_proof

\* The published sessions and queues of the graphics slot are the live ones,
\* an auto-advance has a song, and a deck that ended by itself is at its end.
SongMirrored(c) ==
  c.st.song = c.song /\ (c.stt # None => c.song # None)
QueuesMirrored(c) == c.st.songQ = c.songQ /\ c.st.scrQ = c.scrQ
EndsAtEnd(c) == c.slides # None => (c.slides.autoEnded => c.slides.atEnd)
Mirrors(c) == /\ SongMirrored(c) /\ QueuesMirrored(c)
              /\ c.st.scr = c.scr /\ EndsAtEnd(c)

\* What the screen shows for each session, and for none.
ScriptureShown(c) ==
  c.scr # None /\ c.song = None =>
    Displays(c, ScriptureInfo[c.scr.row].tpl, Says(c.scr.row, 0, c.scr.slide))
DeckAlone(c) == c.slides # None => c.scr = None
DarkIfBlank(c) ==
  c.song # None /\ c.slides = None => (c.song.blanked => ~OnScreen(c))
SongShown(c) ==
  c.song # None /\ c.slides = None =>
    (~c.song.blanked /\ SongIsOnSlide(c) =>
      Displays(c, SongInfo[c.song.row].lyric,
               Says(c.song.row, c.song.cur.sec, c.song.cur.slide)))
SlidesShown(c) ==
  c.slides # None /\ c.song = None =>
    (~c.slides.blanked =>
      IF Airing(c).kind = "graphic"
        THEN Displays(c, Airing(c).tpl, Says(c.slides.row, 0, c.slides.idx))
        ELSE ~OnScreen(c))
Screen(c) == /\ ScriptureShown(c) /\ DeckAlone(c) /\ DarkIfBlank(c)
             /\ SongShown(c) /\ SlidesShown(c) /\ AutoOutPending(c)

Good(c) == MediaGood(c) /\ Told(c) /\ Mirrors(c) /\ Screen(c)

\* No session in the graphics slot and nothing on screen.
Idle(c) == c.song = None /\ c.scr = None /\ c.slides = None /\ ~OnScreen(c)

\* No media of a graphics-slot deck is up, or only of the deck of row `row`.
NoSlideMedia(c) == c.st.media # None => c.st.media.owner \notin SlideMedia
OnlyOf(c, row) ==
  c.st.media # None =>
    (c.st.media.owner \in SlideMedia => c.st.media.owner = <<"slides", row>>)

\* Fields that go together: what is on screen, the sessions of the graphics
\* slot, and both kinds of deck with the media slot.
KeepsScreen(c, d) ==
  d.st.active = c.st.active /\ d.autoOut = c.autoOut /\ d.lookups = c.lookups
KeepsSong(c, d) == d.song = c.song /\ d.stt = c.stt /\ d.st.song = c.st.song
KeepsQueues(c, d) == /\ d.songQ = c.songQ /\ d.st.songQ = c.st.songQ
                     /\ d.scrQ = c.scrQ /\ d.st.scrQ = c.st.scrQ
KeepsPassage(c, d) == d.scr = c.scr /\ d.st.scr = c.st.scr
KeepsDecks(c, d) == /\ d.slides = c.slides /\ d.st.slides = c.st.slides
                    /\ d.deck = c.deck /\ d.st.media = c.st.media
KeepsSessions(c, d) == /\ d.name = c.name
                       /\ KeepsSong(c, d) /\ KeepsQueues(c, d)
                       /\ KeepsPassage(c, d) /\ KeepsDecks(c, d)

----------------------------------------------------------------------------
(***************************************************************************)
(* What the parts of Good depend on.                                       *)
(***************************************************************************)
\* The decks and the media slot are good as long as they are left alone.
LEMMA DecksKeepMedia ==
  ASSUME NEW c, NEW d, KeepsDecks(c, d)
  PROVE  /\ MediaGood(c) => MediaGood(d)
         /\ LoopOwns(c) => LoopOwns(d)
         /\ LoopRests(c) => LoopRests(d)
         /\ DeckShown(c) => DeckShown(d)
         /\ NoStray(c) => NoStray(d)
         /\ NoSlideMedia(c) => NoSlideMedia(d)
         /\ EndsAtEnd(c) => EndsAtEnd(d)
<1>1. LoopOwns(c) => LoopOwns(d) BY DEF KeepsDecks, LoopOwns
<1>2. LoopRests(c) => LoopRests(d) BY DEF KeepsDecks, LoopRests
<1>3. DeckShown(c) => DeckShown(d) BY DEF KeepsDecks, DeckShown
<1>4. NoStray(c) => NoStray(d) BY DEF KeepsDecks, NoStray
<1>5. LoopShown(c) => LoopShown(d) BY DEF KeepsDecks, LoopShown
<1>6. NoSlideMedia(c) => NoSlideMedia(d) BY DEF KeepsDecks, NoSlideMedia
<1>7. EndsAtEnd(c) => EndsAtEnd(d) BY DEF KeepsDecks, EndsAtEnd
<1> QED BY <1>1, <1>2, <1>3, <1>4, <1>5, <1>6, <1>7 DEF MediaGood, Framed

\* The summaries mirror the sessions as long as both are left alone.
LEMMA SessionsKeepMirrors ==
  ASSUME NEW c, NEW d, KeepsSessions(c, d), Mirrors(c)
  PROVE  Mirrors(d)
BY DecksKeepMedia
DEF KeepsSessions, KeepsSong, KeepsQueues, KeepsPassage, KeepsDecks, Mirrors,
    SongMirrored, QueuesMirrored, EndsAtEnd

\* A channel whose screen, songs, passage and deck are left alone shows what
\* it showed.
LEMMA ScreenKept ==
  ASSUME NEW c, NEW d, KeepsScreen(c, d),
         d.song = c.song, d.scr = c.scr, d.slides = c.slides, Screen(c)
  PROVE  Screen(d)
<1>1. OnScreen(d) <=> OnScreen(c) BY DEF KeepsScreen, OnScreen
<1>2. \A tpl, text : Displays(c, tpl, text) => Displays(d, tpl, text)
  BY <1>1 DEF KeepsScreen, Displays
<1>3. ScriptureShown(d) BY <1>2 DEF Screen, ScriptureShown
<1>4. DeckAlone(d) BY DEF Screen, DeckAlone
<1>5. DarkIfBlank(d) BY <1>1 DEF Screen, DarkIfBlank
<1>6. SongShown(d) BY <1>2 DEF Screen, SongShown, SongIsOnSlide
<1>7. SlidesShown(d) BY <1>1, <1>2 DEF Screen, SlidesShown, Airing
<1>8. AutoOutPending(d) BY <1>1 DEF Screen, AutoOutPending, KeepsScreen
<1> QED BY <1>3, <1>4, <1>5, <1>6, <1>7, <1>8 DEF Screen

\* A handler's step in the media slot keeps a channel good.
LEMMA MediaStepGood ==
  ASSUME NEW c, NEW d, Good(c), MediaStep(c, d)
  PROVE  Good(d)
<1>1. SameGraphics(c, d) /\ MediaGood(d) /\ Told(d)
  BY DEF Good, MediaStep, Tells
<1>2. Mirrors(d)
  BY <1>1 DEF Good, SameGraphics, Mirrors, SongMirrored, QueuesMirrored, EndsAtEnd
<1>3. KeepsScreen(c, d) BY <1>1 DEF SameGraphics, KeepsScreen
<1>4. Screen(d) BY <1>1, <1>3, ScreenKept DEF Good, SameGraphics
<1> QED BY <1>1, <1>2, <1>4 DEF Good

\* An idle channel has nothing to show.
LEMMA IdleScreen ==
  ASSUME NEW c, Idle(c) PROVE Screen(c)
BY DEF Idle, Screen, ScriptureShown, DeckAlone, DarkIfBlank, SongShown,
       SlidesShown, AutoOutPending

\* Deck media is only ever the live deck's.
LEMMA StrayMedia ==
  ASSUME NEW c, NoStray(c)
  PROVE  /\ c.slides = None => NoSlideMedia(c)
         /\ c.slides # None => OnlyOf(c, c.slides.row)
<1>1. \A o \in SlideMedia : o = <<"slides", o[2]>> BY DEF SlideMedia
<1> QED BY <1>1 DEF NoStray, NoSlideMedia, OnlyOf

\* Channels start good.
LEMMA InitGood ==
  ASSUME NEW k \in Channels PROVE Good(InitChannel(k))
<1> DEFINE c == InitChannel(k)
<1>1. /\ c.song = None /\ c.scr = None /\ c.slides = None /\ c.deck = None
      /\ c.songQ = None /\ c.scrQ = None /\ c.stt = None
      /\ c.st = EmptyState /\ c.sent = EmptyState
      /\ c.st.active = None /\ c.st.song = None /\ c.st.scr = None
      /\ c.st.songQ = None /\ c.st.scrQ = None
      /\ c.st.slides = None /\ c.st.media = None
  BY DEF InitChannel, EmptyState
<1> HIDE DEF c
<1>2. Screen(c) BY <1>1, IdleScreen DEF Idle, OnScreen
<1>3. MediaGood(c)
  BY <1>1 DEF MediaGood, Framed, DeckShown, LoopOwns, NoStray, LoopShown, LoopRests
<1>4. Mirrors(c)
  BY <1>1 DEF Mirrors, SongMirrored, QueuesMirrored, EndsAtEnd
<1> QED BY <1>1, <1>2, <1>3, <1>4 DEF Good, Told, c

----------------------------------------------------------------------------
(***************************************************************************)
(* The steps every clear and take is made of.                              *)
(***************************************************************************)
\* clearInternal() takes the graphic off the screen, and its auto-out with
\* it; every session stays.
LEMMA ClearInternalDoes ==
  ASSUME NEW k, NEW c \in Sound(k)
  PROVE  LET d == ClearInternal(c)
         IN  /\ KeepsSessions(c, d) /\ ~OnScreen(d) /\ d.autoOut = None
             /\ d.st.active = None <=> c.st.active = None
             /\ Tells(c, d)
             /\ c.st.active # None => Told(d)
<1>c. c \in Channel /\ c.st \in State BY Parts
<1> DEFINE u == [CancelAutoOut(c) EXCEPT !.source = None]
           d == ClearInternal(c)
<1>1. /\ KeepsSessions(c, u) /\ u.autoOut = None /\ u.st = c.st
      /\ u.sent = c.sent /\ u \in Channel
  <2>1. CancelAutoOut(c) \in Channel BY <1>c, ChannelPut DEF CancelAutoOut
  <2>2. u \in Channel BY <2>1, ChannelPut
  <2>3. /\ KeepsSessions(c, u) /\ u.autoOut = None /\ u.st = c.st
        /\ u.sent = c.sent
    BY <1>c
    DEF CancelAutoOut, Channel, KeepsSessions, KeepsSong, KeepsQueues,
        KeepsPassage, KeepsDecks
  <2> QED BY <2>2, <2>3
<1>2. CASE c.st.active = None
  <2>1. d = u BY <1>2 DEF ClearInternal
  <2> HIDE DEF u, d
  <2> QED BY <1>1, <1>2, <2>1 DEF OnScreen, Tells, Told, d
<1>3. CASE c.st.active # None
  <2>1. d = Out(u) BY <1>3 DEF ClearInternal
  <2>2. c.st.active \in Graphic BY <1>3, StParts DEF Airable
  <2> DEFINE g == [c.st.active EXCEPT !.phase = "out"]
             w == u.sweeps \cup {c.st.active.at}
             p == [u EXCEPT !.st.active = g, !.sweeps = w]
  <2>3. g \in Graphic /\ g.phase = "out" BY <2>2 DEF Graphic
  <2>4. g # None BY <2>3, NoneAssumption
  <2> HIDE DEF u
  <2>5. d = Emit(p)
    <3>1. u.st.active = c.st.active BY <1>1
    <3>2. Out(u) = Emit([u EXCEPT !.st.active.phase = "out", !.sweeps = w])
      BY <3>1 DEF Out
    <3>3. [u EXCEPT !.st.active.phase = "out", !.sweeps = w]
            = [u EXCEPT !.st.active = [u.st.active EXCEPT !.phase = "out"],
                        !.sweeps = w]
      OBVIOUS
    <3> QED BY <2>1, <3>1, <3>2, <3>3
  <2> HIDE DEF g, w, d
  <2>6. KeepsSessions(u, p) /\ p.autoOut = u.autoOut /\ p.st.active = g
    BY <1>1
    DEF Channel, State, KeepsSessions, KeepsSong, KeepsQueues, KeepsPassage,
        KeepsDecks
  <2>p. DOMAIN p = DOMAIN u BY <1>1 DEF Channel
  <2>u. DOMAIN u = DOMAIN c BY <1>1, <1>c DEF Channel
  <2> HIDE DEF p
  <2>7. /\ KeepsSessions(p, d) /\ d.autoOut = p.autoOut /\ d.st = p.st
        /\ Told(d)
    <3>1. d = [p EXCEPT !.sent = p.st] BY <2>5 DEF Emit
    <3>2. "sent" \in DOMAIN p BY <1>c, <2>p, <2>u DEF Channel
    <3> QED BY <3>1, <3>2
      DEF KeepsSessions, KeepsSong, KeepsQueues, KeepsPassage, KeepsDecks, Told
  <2>8. KeepsSessions(c, d)
    BY <1>1, <2>6, <2>7
    DEF KeepsSessions, KeepsSong, KeepsQueues, KeepsPassage, KeepsDecks
  <2> QED BY <1>1, <1>3, <2>3, <2>4, <2>6, <2>7, <2>8 DEF OnScreen, Tells, d
<1> QED BY <1>2, <1>3

\* Emitting a channel changes nothing but what was sent.
LEMMA EmitKeeps ==
  ASSUME NEW k, NEW c \in Sound(k)
  PROVE  LET d == Emit(c)
         IN  /\ d \in Sound(k) /\ KeepsSessions(c, d) /\ KeepsScreen(c, d)
             /\ Told(d) /\ d.st = c.st
<1>1. Emit(c) \in Sound(k) BY EmitSound
<1> QED BY <1>1, Parts, EmitDoes
  DEF KeepsSessions, KeepsSong, KeepsQueues, KeepsPassage, KeepsDecks,
      KeepsScreen, SameGraphics, SameMedia

\* Sessions of the graphics slot, queued or live, dropped from the maps and
\* from the published state together.
LEMMA DropsDo ==
  ASSUME NEW k, NEW c \in Sound(k)
  PROVE  /\ LET d == DropSongQueue(c)
            IN  /\ d.name = c.name /\ KeepsScreen(c, d) /\ KeepsSong(c, d)
                /\ KeepsPassage(c, d) /\ KeepsDecks(c, d)
                /\ d.songQ = None /\ d.scrQ = c.scrQ
                /\ d.st.scrQ = c.st.scrQ
                /\ c.st.songQ = c.songQ => d.st.songQ = None
                /\ c.songQ = None => d = c
         /\ LET d == DropScriptureQueue(c)
            IN  /\ d.name = c.name /\ KeepsScreen(c, d) /\ KeepsSong(c, d)
                /\ KeepsPassage(c, d) /\ KeepsDecks(c, d)
                /\ d.scrQ = None /\ d.songQ = c.songQ
                /\ d.st.songQ = c.st.songQ
                /\ c.st.scrQ = c.scrQ => d.st.scrQ = None
                /\ c.scrQ = None => d = c
         /\ LET d == DropScriptureLive(c)
            IN  /\ d.name = c.name /\ KeepsScreen(c, d) /\ KeepsSong(c, d)
                /\ KeepsQueues(c, d) /\ KeepsDecks(c, d)
                /\ d.scr = None
                /\ c.st.scr = c.scr => d.st.scr = None
                /\ c.scr = None => d = c
         /\ LET d == DropScripture(c)
            IN  /\ d.name = c.name /\ KeepsScreen(c, d) /\ KeepsSong(c, d)
                /\ KeepsDecks(c, d) /\ d.songQ = c.songQ
                /\ d.st.songQ = c.st.songQ
                /\ d.scr = None /\ d.st.scr = None
                /\ d.scrQ = None /\ d.st.scrQ = None
         /\ LET d == TearDownSong(c)
            IN  /\ d.name = c.name /\ KeepsScreen(c, d) /\ KeepsQueues(c, d)
                /\ KeepsPassage(c, d) /\ KeepsDecks(c, d)
                /\ d.song = None
                /\ SongMirrored(c) => SongMirrored(d)
                /\ c.song = None => d = c
<1>c. c \in Channel BY Parts
<1>1. LET d == [c EXCEPT !.songQ = None, !.st.songQ = None]
      IN  /\ d.name = c.name /\ KeepsScreen(c, d) /\ KeepsSong(c, d)
          /\ KeepsPassage(c, d) /\ KeepsDecks(c, d)
          /\ d.songQ = None /\ d.scrQ = c.scrQ
          /\ d.st.scrQ = c.st.scrQ /\ d.st.songQ = None
  BY <1>c DEF Channel, State, KeepsScreen, KeepsSong, KeepsPassage, KeepsDecks
<1>2. LET d == [c EXCEPT !.scrQ = None, !.st.scrQ = None]
      IN  /\ d.name = c.name /\ KeepsScreen(c, d) /\ KeepsSong(c, d)
          /\ KeepsPassage(c, d) /\ KeepsDecks(c, d)
          /\ d.scrQ = None /\ d.songQ = c.songQ
          /\ d.st.songQ = c.st.songQ /\ d.st.scrQ = None
  BY <1>c DEF Channel, State, KeepsScreen, KeepsSong, KeepsPassage, KeepsDecks
<1>3. LET d == [c EXCEPT !.scr = None, !.st.scr = None]
      IN  /\ d.name = c.name /\ KeepsScreen(c, d) /\ KeepsSong(c, d)
          /\ KeepsQueues(c, d) /\ KeepsDecks(c, d)
          /\ d.scr = None /\ d.st.scr = None
  BY <1>c DEF Channel, State, KeepsScreen, KeepsSong, KeepsQueues, KeepsDecks
<1>4. LET d == DropScripture(c)
      IN  /\ d.name = c.name /\ KeepsScreen(c, d) /\ KeepsSong(c, d)
          /\ KeepsDecks(c, d) /\ d.songQ = c.songQ
          /\ d.st.songQ = c.st.songQ
          /\ d.scr = None /\ d.st.scr = None
          /\ d.scrQ = None /\ d.st.scrQ = None
  BY <1>c DEF DropScripture, Channel, State, KeepsScreen, KeepsSong, KeepsDecks
<1>5. LET d == [c EXCEPT !.song = None, !.st.song = None, !.stt = None, !.heard = 0]
      IN  /\ d.name = c.name /\ KeepsScreen(c, d) /\ KeepsQueues(c, d)
          /\ KeepsPassage(c, d) /\ KeepsDecks(c, d)
          /\ d.song = None /\ d.st.song = None /\ d.stt = None
  BY <1>c DEF Channel, State, KeepsScreen, KeepsPassage, KeepsQueues, KeepsDecks
<1>6. /\ KeepsScreen(c, c) /\ KeepsSong(c, c) /\ KeepsQueues(c, c)
      /\ KeepsPassage(c, c) /\ KeepsDecks(c, c)
  BY DEF KeepsScreen, KeepsSong, KeepsPassage, KeepsQueues, KeepsDecks
<1>7. LET d == DropSongQueue(c)
      IN  /\ d.name = c.name /\ KeepsScreen(c, d) /\ KeepsSong(c, d)
          /\ KeepsPassage(c, d) /\ KeepsDecks(c, d)
          /\ d.songQ = None /\ d.scrQ = c.scrQ
          /\ d.st.scrQ = c.st.scrQ
          /\ c.st.songQ = c.songQ => d.st.songQ = None
          /\ c.songQ = None => d = c
  BY <1>1, <1>6 DEF DropSongQueue
<1>8. LET d == DropScriptureQueue(c)
      IN  /\ d.name = c.name /\ KeepsScreen(c, d) /\ KeepsSong(c, d)
          /\ KeepsPassage(c, d) /\ KeepsDecks(c, d)
          /\ d.scrQ = None /\ d.songQ = c.songQ
          /\ d.st.songQ = c.st.songQ
          /\ c.st.scrQ = c.scrQ => d.st.scrQ = None
          /\ c.scrQ = None => d = c
  BY <1>2, <1>6 DEF DropScriptureQueue
<1>9. LET d == DropScriptureLive(c)
      IN  /\ d.name = c.name /\ KeepsScreen(c, d) /\ KeepsSong(c, d)
          /\ KeepsQueues(c, d) /\ KeepsDecks(c, d)
          /\ d.scr = None
          /\ c.st.scr = c.scr => d.st.scr = None
          /\ c.scr = None => d = c
  BY <1>3, <1>6 DEF DropScriptureLive
<1>10. LET d == TearDownSong(c)
       IN  /\ d.name = c.name /\ KeepsScreen(c, d) /\ KeepsQueues(c, d)
           /\ KeepsPassage(c, d) /\ KeepsDecks(c, d)
           /\ d.song = None
           /\ SongMirrored(c) => SongMirrored(d)
           /\ c.song = None => d = c
  BY <1>5, <1>6 DEF TearDownSong, SongMirrored
<1> QED BY <1>4, <1>7, <1>8, <1>9, <1>10

\* releaseMedia() clears media the deck of row `row` put up, and tells.
LEMMA ReleaseMediaDoes ==
  ASSUME NEW k, NEW c \in Sound(k), NEW row
  PROVE  LET d == ReleaseMedia(c, row)
         IN  /\ d \in Sound(k) /\ SameGraphics(c, d) /\ Tells(c, d)
             /\ DeckShown(c) => DeckShown(d)
             /\ LoopShown(c) => LoopShown(d)
             /\ LoopOwns(c) => LoopOwns(d)
             /\ LoopRests(c) => LoopRests(d)
             /\ MediaGood(c) => MediaGood(d)
             /\ OnlyOf(c, row) => NoSlideMedia(d)
<1> DEFINE d == ReleaseMedia(c, row)
<1>1. d \in Sound(k) BY ReleaseMediaSound
<1>2. CASE Owns(c, row)
  <2>1. d = MediaClear(c) BY <1>2 DEF ReleaseMedia
  <2>2. d.st.media = None BY <2>1, MediaClearDoes
  <2> QED BY <1>1, <2>1, <2>2, MediaClearDoes DEF NoSlideMedia
<1>3. CASE ~Owns(c, row)
  <2>1. d = c BY <1>3 DEF ReleaseMedia
  <2>2. OnlyOf(c, row) => NoSlideMedia(c)
    BY <1>3 DEF OnlyOf, NoSlideMedia, Owns
  <2> QED BY <1>1, <2>1, <2>2 DEF SameGraphics, Tells
<1> QED BY <1>2, <1>3

\* What a slides deck leaves when it is gone: nothing in the media slot, and
\* the media deck's summary again.
LEMMA SlidesDropAllDoes ==
  ASSUME NEW k, NEW c \in Sound(k), MediaGood(c)
  PROVE  LET d == SlidesDropAll(c)
         IN  /\ d \in Sound(k) /\ d.name = c.name
             /\ KeepsScreen(c, d) /\ KeepsSong(c, d)
             /\ KeepsQueues(c, d) /\ KeepsPassage(c, d)
             /\ d.slides = None /\ MediaGood(d)
             /\ c.slides = None => d = c
<1> DEFINE g == [c EXCEPT !.slides = None]
           f == ReleaseMedia(g, c.slides.row)
           d == SlidesDropAll(c)
<1>c. c \in Channel BY Parts
<1>1. CASE c.slides = None
  <2>1. d = c BY <1>1 DEF SlidesDropAll
  <2> QED BY <1>1, <2>1
    DEF KeepsScreen, KeepsSong, KeepsQueues, KeepsPassage
<1>2. CASE c.slides # None
  <2>d. d = ShowLoopSummary(f) BY <1>2 DEF SlidesDropAll
  <2>1. /\ g \in Sound(k) /\ g.name = c.name /\ g.slides = None
        /\ KeepsScreen(c, g) /\ KeepsSong(c, g) /\ KeepsQueues(c, g)
        /\ KeepsPassage(c, g) /\ g.deck = c.deck /\ g.st = c.st
    BY <1>c, Put DEF Channel, KeepsScreen, KeepsSong, KeepsQueues, KeepsPassage
  <2> HIDE DEF g
  <2>2. /\ LoopOwns(g) /\ LoopRests(g) /\ OnlyOf(g, c.slides.row)
    <3>1. OnlyOf(c, c.slides.row)
      BY <1>2, StrayMedia DEF MediaGood, Framed
    <3> QED BY <2>1, <3>1 DEF MediaGood, Framed, LoopOwns, LoopRests, OnlyOf
  <2>3. /\ f \in Sound(k) /\ SameGraphics(g, f)
        /\ LoopOwns(f) /\ LoopRests(f) /\ NoSlideMedia(f)
    BY <2>1, <2>2, ReleaseMediaDoes
  <2> HIDE DEF f
  <2>4. /\ d \in Sound(k) /\ SameGraphics(f, d) /\ SameMedia(f, d)
        /\ d.st.slides = IF f.deck # None THEN LoopSummary(f.deck) ELSE None
    BY <2>d, <2>3, ShowLoopSummarySound, ShowLoopSummaryDoes
  <2> HIDE DEF d
  <2>5. SameGraphics(g, d) BY <2>3, <2>4, SameGraphicsTrans
  <2>6. d.slides = None /\ LoopShown(d) /\ DeckShown(d)
    BY <2>1, <2>4, <2>5 DEF SameGraphics, SameMedia, LoopShown, DeckShown
  <2>7. LoopOwns(d) /\ LoopRests(d) /\ NoStray(d)
    BY <2>3, <2>4 DEF SameMedia, LoopOwns, LoopRests, NoStray, NoSlideMedia
  <2>8. /\ d.name = c.name /\ KeepsScreen(c, d) /\ KeepsSong(c, d)
        /\ KeepsQueues(c, d) /\ KeepsPassage(c, d)
    BY <2>1, <2>5
    DEF SameGraphics, KeepsScreen, KeepsSong, KeepsQueues, KeepsPassage
  <2> QED BY <1>2, <2>4, <2>6, <2>7, <2>8 DEF MediaGood, Framed, d
<1> QED BY <1>1, <1>2

----------------------------------------------------------------------------
(***************************************************************************)
(* channels.ts: clears.                                                    *)
(***************************************************************************)
\* clear() once the song is gone leaves no other session of the slot; it is
\* silent only about a passage that had nothing on screen.
LEMMA ClearSlotDoes ==
  ASSUME NEW k, NEW c \in Sound(k), NEW keep \in BOOLEAN,
         MediaGood(c), Mirrors(c)
  PROVE  LET d == ClearSlot(c, keep)
         IN  /\ d \in Sound(k) /\ MediaGood(d) /\ Mirrors(d)
             /\ KeepsSong(c, d) /\ d.scr = None /\ d.slides = None
             /\ ~OnScreen(d)
             /\ ~keep => d.songQ = None /\ d.scrQ = None
             /\ d.st.active = None <=> c.st.active = None
             /\ c.st.active # None => Told(d)
             /\ c.scr = None => Tells(c, d)
<1> DEFINE p == DropScriptureLive(c)
           f == SlidesDropAll(p)
           s == DropScriptureQueue(f)
           q == IF keep THEN f ELSE DropSongQueue(s)
           told == \/ c.slides # None
                   \/ ~keep /\ (c.songQ # None \/ c.scrQ # None)
           z == ClearInternal(q)
           d == ClearSlot(c, keep)
<1>d. d = IF c.st.active = None /\ told THEN Emit(z) ELSE z
  BY DEF ClearSlot
<1>1. /\ p \in Sound(k) /\ KeepsScreen(c, p) /\ KeepsSong(c, p)
      /\ KeepsQueues(c, p) /\ KeepsDecks(c, p) /\ p.name = c.name
      /\ p.scr = None /\ p.st.scr = None
      /\ c.scr = None => p = c
  BY DropsSound, DropsDo DEF Mirrors
<1> HIDE DEF p
<1>2. MediaGood(p) BY <1>1, DecksKeepMedia
<1>3. /\ f \in Sound(k) /\ f.name = p.name
      /\ KeepsScreen(p, f) /\ KeepsSong(p, f) /\ KeepsQueues(p, f)
      /\ KeepsPassage(p, f) /\ f.slides = None /\ MediaGood(f)
      /\ p.slides = None => f = p
  BY <1>1, <1>2, SlidesDropAllDoes
<1> HIDE DEF f
<1>4. /\ s \in Sound(k) /\ s.name = f.name /\ KeepsScreen(f, s)
      /\ KeepsSong(f, s) /\ KeepsPassage(f, s) /\ KeepsDecks(f, s)
      /\ s.scrQ = None /\ s.songQ = f.songQ /\ s.st.songQ = f.st.songQ
      /\ f.st.scrQ = f.scrQ => s.st.scrQ = None
      /\ f.scrQ = None => s = f
  BY <1>3, DropsSound, DropsDo
<1> HIDE DEF s
<1>5. LET r == DropSongQueue(s)
      IN  /\ r \in Sound(k) /\ r.name = s.name /\ KeepsScreen(s, r)
          /\ KeepsSong(s, r) /\ KeepsPassage(s, r) /\ KeepsDecks(s, r)
          /\ r.songQ = None /\ r.scrQ = s.scrQ /\ r.st.scrQ = s.st.scrQ
          /\ s.st.songQ = s.songQ => r.st.songQ = None
          /\ s.songQ = None => r = s
  BY <1>4, DropsSound, DropsDo
<1>6. /\ q \in Sound(k) /\ KeepsScreen(c, q) /\ KeepsSong(c, q)
      /\ q.scr = None /\ q.st.scr = None /\ q.slides = None
      /\ QueuesMirrored(q)
      /\ ~keep => q.songQ = None /\ q.scrQ = None
  BY <1>1, <1>3, <1>4, <1>5
  DEF KeepsScreen, KeepsSong, KeepsQueues, KeepsPassage, KeepsDecks,
      Mirrors, QueuesMirrored
<1>7. MediaGood(q)
  <2>1. MediaGood(s) BY <1>3, <1>4, DecksKeepMedia
  <2>2. MediaGood(DropSongQueue(s)) BY <2>1, <1>5, DecksKeepMedia
  <2> QED BY <1>3, <2>2
<1>8. c.scr = None /\ ~told => q = c
  BY <1>1, <1>3, <1>4, <1>5 DEF KeepsQueues
<1>9. Mirrors(q) BY <1>6 DEF Mirrors, SongMirrored, EndsAtEnd, KeepsSong
<1> HIDE DEF q, told
<1>10. /\ z \in Sound(k) /\ KeepsSessions(q, z) /\ ~OnScreen(z)
       /\ z.st.active = None <=> q.st.active = None
       /\ Tells(q, z)
       /\ q.st.active # None => Told(z)
  BY <1>6, ClearInternalSound, ClearInternalDoes
<1> HIDE DEF z, d
<1>11. /\ d \in Sound(k) /\ KeepsSessions(z, d) /\ d.st = z.st
       /\ c.st.active = None /\ told => Told(d)
       /\ ~(c.st.active = None /\ told) => d = z
  BY <1>d, <1>10, EmitKeeps
  DEF KeepsSessions, KeepsSong, KeepsQueues, KeepsPassage, KeepsDecks
<1>12. MediaGood(d) /\ Mirrors(d)
  BY <1>7, <1>9, <1>10, <1>11, DecksKeepMedia, SessionsKeepMirrors DEF KeepsSessions
<1>13. /\ KeepsSong(c, d) /\ d.scr = None /\ d.slides = None
       /\ ~keep => d.songQ = None /\ d.scrQ = None
  BY <1>6, <1>10, <1>11
  DEF KeepsSessions, KeepsSong, KeepsQueues, KeepsPassage, KeepsDecks
<1>14. ~OnScreen(d) /\ (d.st.active = None <=> c.st.active = None)
  BY <1>6, <1>10, <1>11 DEF KeepsScreen, OnScreen
<1>15. c.st.active # None => Told(d) BY <1>6, <1>10, <1>11 DEF KeepsScreen
<1>16. c.scr = None => Tells(c, d)
  BY <1>8, <1>10, <1>11, <1>15 DEF Tells
<1> QED BY <1>11, <1>12, <1>13, <1>14, <1>15, <1>16 DEF d

\* songSession.end() of a live song clears the slot and tells.
LEMMA EndLiveSongDoes ==
  ASSUME NEW k, NEW c \in Sound(k), MediaGood(c), Mirrors(c)
  PROVE  LET d == EndLiveSong(c)
         IN  /\ d \in Sound(k) /\ MediaGood(d) /\ Mirrors(d) /\ d.song = None
             /\ c.song = None => d = c
             /\ c.song # None => Idle(d) /\ Told(d)
<1> DEFINE t == TearDownSong(c)
           z == ClearSlot(t, FALSE)
           d == EndLiveSong(c)
<1>1. CASE c.song = None BY <1>1 DEF EndLiveSong
<1>2. CASE c.song # None
  <2>1. /\ t \in Sound(k) /\ t.song = None /\ SongMirrored(t)
        /\ KeepsQueues(c, t) /\ KeepsPassage(c, t) /\ KeepsDecks(c, t)
    BY DropsSound, DropsDo DEF Mirrors
  <2>2. MediaGood(t) /\ EndsAtEnd(t) BY <2>1, DecksKeepMedia DEF Mirrors
  <2>3. Mirrors(t)
    BY <2>1, <2>2 DEF Mirrors, QueuesMirrored, KeepsQueues, KeepsPassage
  <2> HIDE DEF t
  <2>4. /\ z \in Sound(k) /\ MediaGood(z) /\ Mirrors(z) /\ KeepsSong(t, z)
        /\ z.scr = None /\ z.slides = None /\ ~OnScreen(z)
        /\ z.st.active # None => Told(z)
    BY <2>1, <2>2, <2>3, ClearSlotDoes
  <2>5. d = IF z.st.active = None THEN Emit(z) ELSE z
    BY <1>2 DEF EndLiveSong, t
  <2> HIDE DEF z, d
  <2>6. Idle(z) BY <2>1, <2>4 DEF Idle, KeepsSong
  <2>7. /\ d \in Sound(k) /\ KeepsSessions(z, d) /\ KeepsScreen(z, d)
        /\ Told(d)
    BY <2>4, <2>5, EmitKeeps
    DEF KeepsSessions, KeepsSong, KeepsQueues, KeepsPassage, KeepsDecks,
        KeepsScreen
  <2>8. MediaGood(d) /\ Mirrors(d)
    BY <2>4, <2>7, DecksKeepMedia, SessionsKeepMirrors DEF KeepsSessions
  <2>9. Idle(d)
    BY <2>6, <2>7
    DEF Idle, OnScreen, KeepsSessions, KeepsSong, KeepsPassage, KeepsDecks,
        KeepsScreen
  <2> QED BY <1>2, <2>7, <2>8, <2>9 DEF Idle, d
<1> QED BY <1>1, <1>2

\* clear() leaves the channel idle, and told unless it had a passage live with
\* nothing on screen.
LEMMA ClearDoes ==
  ASSUME NEW k, NEW c \in Sound(k), NEW keep \in BOOLEAN,
         MediaGood(c), Mirrors(c)
  PROVE  LET d == Clear(c, keep)
         IN  /\ d \in Sound(k) /\ MediaGood(d) /\ Mirrors(d) /\ Idle(d)
             /\ d.st.active # None => Told(d)
             /\ Told(c) /\ ScriptureShown(c) => Told(d)
             /\ c.song = None /\ c.st.active # None => Told(d)
<1> DEFINE e == EndLiveSong(c)
           d == Clear(c, keep)
<1>d. d = ClearSlot(e, keep) BY DEF Clear
<1>1. /\ e \in Sound(k) /\ MediaGood(e) /\ Mirrors(e) /\ e.song = None
      /\ c.song = None => e = c
      /\ c.song # None => Idle(e) /\ Told(e)
  BY EndLiveSongDoes
<1> HIDE DEF e, d
<1>2. /\ d \in Sound(k) /\ MediaGood(d) /\ Mirrors(d) /\ KeepsSong(e, d)
      /\ d.scr = None /\ d.slides = None /\ ~OnScreen(d)
      /\ d.st.active = None <=> e.st.active = None
      /\ e.st.active # None => Told(d)
      /\ e.scr = None => Tells(e, d)
  BY <1>d, <1>1, ClearSlotDoes
<1>3. Idle(d) BY <1>1, <1>2 DEF Idle, KeepsSong
<1>4. Told(c) /\ ScriptureShown(c) => Told(d)
  <2>1. c.song # None => Told(d) BY <1>1, <1>2 DEF Idle, Tells
  <2>2. c.song = None /\ c.scr = None /\ Told(c) => Told(d)
    BY <1>1, <1>2 DEF Tells
  <2>3. c.song = None /\ c.scr # None /\ ScriptureShown(c) => Told(d)
    BY <1>1, <1>2 DEF ScriptureShown, Displays, OnScreen
  <2> QED BY <2>1, <2>2, <2>3
<1> QED BY <1>1, <1>2, <1>3, <1>4 DEF d

\* clear() and the end of a live song keep a channel good.
LEMMA ClearGood ==
  ASSUME NEW k, NEW c \in Sound(k), Good(c)
  PROVE  /\ \A keep \in BOOLEAN : Good(Clear(c, keep))
         /\ Good(EndLiveSong(c))
<1>1. MediaGood(c) /\ Mirrors(c) /\ Told(c) /\ ScriptureShown(c)
  BY DEF Good, Screen
<1>2. ASSUME NEW keep \in BOOLEAN PROVE Good(Clear(c, keep))
  <2>1. LET d == Clear(c, keep)
        IN  MediaGood(d) /\ Mirrors(d) /\ Idle(d) /\ Told(d)
    BY <1>1, ClearDoes
  <2> QED BY <2>1, IdleScreen DEF Good
<1>3. Good(EndLiveSong(c))
  <2>1. LET d == EndLiveSong(c)
        IN  /\ MediaGood(d) /\ Mirrors(d)
            /\ c.song = None => d = c
            /\ c.song # None => Idle(d) /\ Told(d)
    BY <1>1, EndLiveSongDoes
  <2> QED BY <2>1, IdleScreen DEF Good
<1> QED BY <1>2, <1>3

\* A dropped queue or a queue that is told.
LEMMA ClearQueuedSongGood ==
  ASSUME NEW k, NEW c \in Sound(k)
  PROVE  LET d == ClearQueuedSong(c)
         IN  /\ d \in Sound(k) /\ Tells(c, d)
             /\ KeepsScreen(c, d) /\ KeepsSong(c, d) /\ KeepsPassage(c, d)
             /\ KeepsDecks(c, d)
             /\ QueuesMirrored(c) => QueuesMirrored(d)
             /\ Good(c) => Good(d)
<1> DEFINE p == DropSongQueue(c)
           d == ClearQueuedSong(c)
<1>1. CASE c.songQ = None
  BY <1>1 DEF ClearQueuedSong, Tells, KeepsScreen, KeepsSong, KeepsPassage, KeepsDecks
<1>2. CASE c.songQ # None
  <2>d. d = Emit(p) BY <1>2 DEF ClearQueuedSong
  <2>1. /\ p \in Sound(k) /\ KeepsScreen(c, p) /\ KeepsSong(c, p)
        /\ KeepsPassage(c, p) /\ KeepsDecks(c, p)
        /\ p.songQ = None /\ p.scrQ = c.scrQ /\ p.st.scrQ = c.st.scrQ
        /\ c.st.songQ = c.songQ => p.st.songQ = None
    BY DropsSound, DropsDo
  <2> HIDE DEF p, d
  <2>2. d \in Sound(k) /\ KeepsSessions(p, d) /\ KeepsScreen(p, d) /\ Told(d)
    BY <2>d, <2>1, EmitKeeps
  <2>3. /\ KeepsScreen(c, d) /\ KeepsSong(c, d) /\ KeepsPassage(c, d)
        /\ KeepsDecks(c, d)
        /\ QueuesMirrored(c) => QueuesMirrored(d)
    BY <2>1, <2>2
    DEF KeepsSessions, KeepsScreen, KeepsSong, KeepsQueues, KeepsPassage,
        KeepsDecks, QueuesMirrored
  <2>4. Good(c) => Good(d)
    <3> SUFFICES ASSUME Good(c) PROVE Good(d) OBVIOUS
    <3>1. MediaGood(d) /\ EndsAtEnd(d)
      BY <2>3, DecksKeepMedia DEF Good, Mirrors
    <3>2. Screen(d)
      BY <2>3, ScreenKept DEF Good, KeepsSong, KeepsPassage, KeepsDecks
    <3>3. Mirrors(d)
      BY <2>3, <3>1 DEF Good, Mirrors, SongMirrored, KeepsSong, KeepsPassage
    <3> QED BY <2>2, <3>1, <3>2, <3>3 DEF Good
  <2> QED BY <2>2, <2>3, <2>4 DEF Tells, d
<1> QED BY <1>1, <1>2

----------------------------------------------------------------------------
(***************************************************************************)
(* channels.ts: takes, updates, auto-out and sweeps.                       *)
(***************************************************************************)
\* What a take mounts is a graphic.
LEMMA MountedIsSome ==
  ASSUME NEW tpl \in Templates, NEW ctx \in Contexts, NEW shows \in Text,
         NEW t \in Nat
  PROVE  [tpl |-> tpl, at |-> t, phase |-> "in", ctx |-> ctx,
          shows |-> shows] # None
BY NoneAssumption DEF Graphic

\* A take puts its graphic up and forgets the auto-out of the one before.
LEMMA MountDoes ==
  ASSUME NEW k, NEW c \in Sound(k), NEW tpl, NEW ctx, NEW shows, NEW t
  PROVE  LET d == Mount(c, tpl, ctx, shows, t)
         IN  /\ KeepsSessions(c, d) /\ d.lookups = c.lookups
             /\ d.st.active = [tpl |-> tpl, at |-> t, phase |-> "in",
                               ctx |-> ctx, shows |-> shows]
<1>c. c \in Channel BY Parts
<1> DEFINE g == [tpl |-> tpl, at |-> t, phase |-> "in", ctx |-> ctx,
                 shows |-> shows]
<1> HIDE DEF g
<1>1. LET d == [CancelAutoOut(c) EXCEPT !.st.active = g]
      IN  /\ KeepsSessions(c, d) /\ d.lookups = c.lookups
          /\ d.st.active = g
  BY <1>c
  DEF CancelAutoOut, Channel, State, KeepsSessions, KeepsSong, KeepsQueues,
      KeepsPassage, KeepsDecks
<1> QED BY <1>1 DEF Mount, g

\* A song or slides session's take ends scripture, shows its text and tells.
LEMMA TakeInternalDoes ==
  ASSUME NEW k, NEW c \in Sound(k), NEW tpl \in Templates \ Drafts,
         NEW shows \in Text, NEW t \in Nat
  PROVE  LET d == TakeInternal(c, tpl, shows, t)
         IN  /\ KeepsSong(c, d) /\ KeepsDecks(c, d) /\ d.name = c.name
             /\ d.songQ = c.songQ /\ d.st.songQ = c.st.songQ
             /\ d.scr = None /\ d.st.scr = None
             /\ d.scrQ = None /\ d.st.scrQ = None
             /\ Displays(d, tpl, shows) /\ Told(d)
<1> DEFINE b == DropScripture(c)
           m == Mount(b, tpl, "none", shows, t)
           d == TakeInternal(c, tpl, shows, t)
<1>1. d = Emit(m) BY DEF TakeInternal, RefusesDraft
<1>2. /\ b \in Sound(k) /\ KeepsSong(c, b) /\ KeepsDecks(c, b) /\ b.name = c.name
      /\ b.songQ = c.songQ /\ b.st.songQ = c.st.songQ
      /\ b.scr = None /\ b.st.scr = None
      /\ b.scrQ = None /\ b.st.scrQ = None
  BY DropsSound, DropsDo
<1> HIDE DEF b
<1>3. m \in Sound(k) BY <1>2, MountSound DEF Contexts
<1>4. /\ KeepsSessions(b, m)
      /\ m.st.active = [tpl |-> tpl, at |-> t, phase |-> "in",
                        ctx |-> "none", shows |-> shows]
  BY <1>2, MountDoes
<1>5. m.st.active # None BY <1>4, MountedIsSome DEF Contexts
<1>6. Displays(m, tpl, shows) BY <1>4, <1>5 DEF Displays, OnScreen
<1> HIDE DEF m, d
<1>7. KeepsSessions(m, d) /\ KeepsScreen(m, d) /\ Told(d)
  BY <1>1, <1>3, EmitKeeps
<1>8. Displays(d, tpl, shows) BY <1>6, <1>7 DEF Displays, OnScreen, KeepsScreen
<1> QED BY <1>2, <1>4, <1>7, <1>8
  DEF KeepsSessions, KeepsSong, KeepsQueues, KeepsPassage, KeepsDecks, d

\* update() changes what the graphic says and tells.
LEMMA UpdateDoes ==
  ASSUME NEW k, NEW c \in Sound(k), c.st.active # None, NEW shows \in Text
  PROVE  LET d == Update(c, shows)
         IN  /\ KeepsSessions(c, d) /\ Told(d)
             /\ d.autoOut = c.autoOut /\ d.lookups = c.lookups
             /\ OnScreen(d) <=> OnScreen(c)
             /\ d.st.active # None
             /\ d.st.active.tpl = c.st.active.tpl
             /\ d.st.active.at = c.st.active.at
             /\ d.st.active.shows = shows
<1>c. c \in Channel BY Parts
<1> DEFINE g == [c.st.active EXCEPT !.shows = shows]
           p == [c EXCEPT !.st.active = g]
           d == Update(c, shows)
<1>1. c.st.active \in Graphic BY StParts DEF Airable
<1>2. /\ g \in Graphic /\ g.tpl = c.st.active.tpl /\ g.at = c.st.active.at
      /\ g.phase = c.st.active.phase /\ g.shows = shows
  BY <1>1 DEF Graphic
<1>3. g # None BY <1>2, NoneAssumption
<1>4. d = Emit(p) BY DEF Update
<1> HIDE DEF g
<1>5. /\ KeepsSessions(c, p) /\ p.autoOut = c.autoOut
      /\ p.lookups = c.lookups /\ p.st.active = g
  BY <1>c
  DEF Channel, State, KeepsSessions, KeepsSong, KeepsQueues, KeepsPassage,
      KeepsDecks
<1>6. /\ KeepsSessions(p, Emit(p)) /\ KeepsScreen(p, Emit(p)) /\ Told(Emit(p))
  BY <1>c
  DEF Channel, Emit, KeepsSessions, KeepsSong, KeepsQueues, KeepsPassage,
      KeepsDecks, KeepsScreen, Told
<1> HIDE DEF p, d
<1>7. d.st.active = g /\ d.autoOut = c.autoOut /\ d.lookups = c.lookups
  BY <1>4, <1>5, <1>6 DEF KeepsScreen
<1>8. KeepsSessions(c, d)
  BY <1>4, <1>5, <1>6
  DEF KeepsSessions, KeepsSong, KeepsQueues, KeepsPassage, KeepsDecks
<1> QED BY <1>2, <1>3, <1>4, <1>6, <1>7, <1>8 DEF OnScreen, d

\* The take m at time t is up, its auto-out is being looked up, and the
\* published passage and queue are those it leaves.
Aired(d, m, t) ==
  /\ d.st.scr = m.scr /\ d.st.scrQ = m.scrQ
  /\ OnScreen(d) /\ d.st.active.tpl = m.tpl
  /\ d.st.active.at = t /\ d.st.active.shows = m.shows
  /\ m.scr = None /\ m.tpl \in AutoOut
       => [tpl |-> m.tpl, at |-> t] \in d.lookups

\* take() ends whatever the slot held; the session maps of scripture are the
\* caller's to set.
LEMMA TakeDoes ==
  ASSUME NEW k, NEW c \in Sound(k), NEW m \in TakePick, NEW t \in Nat,
         ~RefusesDraft(c, m.tpl), MediaGood(c), Mirrors(c)
  PROVE  LET d == Take(c, m, t)
         IN  /\ d \in Sound(k) /\ MediaGood(d) /\ Told(d) /\ SongMirrored(d)
             /\ d.song = None /\ d.slides = None
             /\ d.songQ = None /\ d.st.songQ = None
             /\ d.scr = None /\ d.scrQ = None /\ Aired(d, m, t)
<1> DEFINE n == TearDownSong(c)
           q == DropSongQueue(n)
           free == SlidesDropAll(q)
           b == DropScripture(free)
           up == Mount(b, m.tpl, m.ctx, m.shows, t)
           row == IF m.row = None THEN c.st.liveRow ELSE m.row
           reads == IF m.scr = None /\ m.tpl \in AutoOut
                      THEN up.lookups \cup {[tpl |-> m.tpl, at |-> t]}
                      ELSE up.lookups
           aired == [up EXCEPT !.st.scr = m.scr, !.st.scrQ = m.scrQ,
                       !.source = m.row, !.st.liveRow = row, !.lookups = reads]
           d == Take(c, m, t)
<1>d. d = Emit(aired) BY DEF Take
<1>0. d \in Sound(k) BY TakeSound
<1>1. /\ n \in Sound(k) /\ n.song = None /\ KeepsQueues(c, n)
      /\ KeepsDecks(c, n) /\ SongMirrored(n) /\ n.name = c.name
  BY DropsSound, DropsDo DEF Mirrors
<1> HIDE DEF n
<1>2. /\ q \in Sound(k) /\ KeepsSong(n, q) /\ KeepsDecks(n, q)
      /\ q.songQ = None /\ q.name = n.name
      /\ n.st.songQ = n.songQ => q.st.songQ = None
  BY <1>1, DropsSound, DropsDo
<1> HIDE DEF q
<1>3. q.st.songQ = None BY <1>1, <1>2 DEF Mirrors, QueuesMirrored, KeepsQueues
<1>4. MediaGood(q) BY <1>1, <1>2, DecksKeepMedia
<1>5. /\ free \in Sound(k) /\ KeepsSong(q, free) /\ KeepsQueues(q, free)
      /\ free.slides = None /\ MediaGood(free) /\ free.name = q.name
  BY <1>2, <1>4, SlidesDropAllDoes
<1> HIDE DEF free
<1>6. /\ b \in Sound(k) /\ KeepsSong(free, b) /\ KeepsDecks(free, b)
      /\ b.songQ = free.songQ /\ b.st.songQ = free.st.songQ
      /\ b.scr = None /\ b.scrQ = None
  BY <1>5, DropsSound, DropsDo
<1> HIDE DEF b
<1>7. MediaGood(b) BY <1>5, <1>6, DecksKeepMedia
<1>8. up \in Sound(k)
  <2>1. k # Preview => m.tpl \notin Drafts BY Parts DEF RefusesDraft
  <2> QED BY <1>6, <2>1, MountSound DEF TakePick
<1>9. /\ KeepsSessions(b, up)
      /\ up.st.active = [tpl |-> m.tpl, at |-> t, phase |-> "in",
                         ctx |-> m.ctx, shows |-> m.shows]
  BY <1>6, MountDoes
<1>10. up.st.active # None /\ OnScreen(up) BY <1>9, MountedIsSome DEF OnScreen, TakePick
<1> HIDE DEF up, row
<1>11. m.scr = None /\ m.tpl \in AutoOut
         => [tpl |-> m.tpl, at |-> t] \in reads
  OBVIOUS
<1> HIDE DEF reads
<1>c. up \in Channel BY <1>8, Parts
<1>12. /\ KeepsSong(up, aired) /\ KeepsDecks(up, aired)
       /\ aired.songQ = up.songQ /\ aired.st.songQ = up.st.songQ
       /\ aired.scr = up.scr /\ aired.scrQ = up.scrQ
       /\ aired.st.scr = m.scr /\ aired.st.scrQ = m.scrQ
       /\ aired.st.active = up.st.active /\ aired.lookups = reads
       /\ Told(Emit(aired)) /\ Emit(aired).st = aired.st
       /\ KeepsSong(up, Emit(aired)) /\ KeepsDecks(up, Emit(aired))
       /\ Emit(aired).songQ = up.songQ
       /\ Emit(aired).scr = up.scr /\ Emit(aired).scrQ = up.scrQ
       /\ Emit(aired).lookups = reads
  BY <1>c DEF Channel, State, KeepsSong, KeepsDecks, Emit, Told
<1> HIDE DEF aired, d
<1>13. d.st.active = up.st.active BY <1>d, <1>12
<1>14. OnScreen(d) BY <1>10, <1>13 DEF OnScreen
<1>15. MediaGood(d)
  <2>1. MediaGood(up) BY <1>7, <1>9, DecksKeepMedia DEF KeepsSessions
  <2> QED BY <2>1, <1>d, <1>12, DecksKeepMedia
<1>16. SongMirrored(d) /\ d.song = None
  BY <1>1, <1>2, <1>5, <1>6, <1>9, <1>d, <1>12
  DEF SongMirrored, KeepsSessions, KeepsSong
<1>17. /\ d.songQ = None /\ d.st.songQ = None /\ d.scr = None /\ d.scrQ = None
       /\ d.slides = None
  BY <1>2, <1>3, <1>5, <1>6, <1>9, <1>d, <1>12
  DEF KeepsSessions, KeepsQueues, KeepsPassage, KeepsDecks
<1>18. /\ d.st.active.tpl = m.tpl /\ d.st.active.at = t
       /\ d.st.active.shows = m.shows
  BY <1>9, <1>13
<1>19. /\ d.st.scr = m.scr /\ d.st.scrQ = m.scrQ /\ d.lookups = reads /\ Told(d)
  BY <1>d, <1>12
<1>20. Aired(d, m, t) BY <1>11, <1>14, <1>18, <1>19 DEF Aired
<1> QED BY <1>0, <1>15, <1>16, <1>17, <1>19, <1>20 DEF d

\* A graphic on its own: only its auto-out is owed.
LEMMA AloneScreen ==
  ASSUME NEW c, c.song = None, c.scr = None, c.slides = None, OnScreen(c),
         c.st.active.tpl \in AutoOut
           => [tpl |-> c.st.active.tpl, at |-> c.st.active.at] \in c.lookups
  PROVE  Screen(c)
<1>1. /\ ScriptureShown(c) /\ DeckAlone(c) /\ DarkIfBlank(c)
      /\ SongShown(c) /\ SlidesShown(c)
  BY DEF ScriptureShown, DeckAlone, DarkIfBlank, SongShown, SlidesShown
<1>2. AutoOutPending(c) BY DEF AutoOutPending, OnScreen
<1> QED BY <1>1, <1>2 DEF Screen

\* A take of a graphic, an intro or an outro.
LEMMA TakeGraphicGood ==
  ASSUME NEW k, NEW c \in Sound(k), NEW tpl \in Templates,
         NEW row \in Rows \cup {None}, NEW ctx \in Contexts, NEW t \in Nat,
         Good(c)
  PROVE  LET d == TakeGraphic(c, tpl, row, ctx, t)
         IN  /\ Good(d)
             /\ tpl \notin Drafts => /\ d.song = None /\ d.slides = None
                                     /\ d.scr = None
<1> DEFINE m == [tpl |-> tpl, ctx |-> ctx, shows |-> Says(row, 0, 0),
                 row |-> row, scr |-> None, scrQ |-> None]
           d == TakeGraphic(c, tpl, row, ctx, t)
<1>d. d = Take(c, m, t) BY DEF TakeGraphic
<1>1. m \in TakePick BY SaysType DEF TakePick
<1>2. m.tpl = tpl /\ m.scr = None /\ m.scrQ = None OBVIOUS
<1> HIDE DEF m, d
<1>3. CASE RefusesDraft(c, m.tpl)
  BY <1>d, <1>2, <1>3 DEF Take, RefusesDraft, d
<1>4. CASE ~RefusesDraft(c, m.tpl)
  <2>1. /\ MediaGood(d) /\ Told(d) /\ SongMirrored(d)
        /\ d.song = None /\ d.slides = None
        /\ d.songQ = None /\ d.st.songQ = None
        /\ d.scr = None /\ d.scrQ = None /\ Aired(d, m, t)
    BY <1>d, <1>1, <1>4, TakeDoes DEF Good
  <2>2. Mirrors(d)
    BY <1>2, <2>1 DEF Mirrors, QueuesMirrored, EndsAtEnd, Aired
  <2>3. Screen(d) BY <1>2, <2>1, AloneScreen DEF Aired
  <2> QED BY <2>1, <2>2, <2>3 DEF Good, d
<1> QED BY <1>3, <1>4

\* The rundown row a handler names is published at once.
LEMMA SetLiveRowGood ==
  ASSUME NEW k, NEW c \in Sound(k), Good(c), NEW row
  PROVE  Good(SetLiveRow(c, row))
<1>c. c \in Channel BY Parts
<1> DEFINE d == SetLiveRow(c, row)
<1>1. KeepsSessions(c, d) /\ KeepsScreen(c, d) /\ Told(d)
  BY <1>c
  DEF SetLiveRow, Emit, Channel, State, KeepsSessions, KeepsSong, KeepsQueues,
      KeepsPassage, KeepsDecks, KeepsScreen, Told
<1> HIDE DEF d
<1>2. MediaGood(d) /\ Mirrors(d)
  BY <1>1, DecksKeepMedia, SessionsKeepMirrors DEF Good, KeepsSessions
<1>3. Screen(d)
  BY <1>1, ScreenKept DEF Good, KeepsSessions, KeepsSong, KeepsPassage, KeepsDecks
<1> QED BY <1>1, <1>2, <1>3 DEF Good, d

\* An operator's edit marks the text edited, and the screen still shows it.
LEMMA EditFieldsGood ==
  ASSUME NEW k, NEW c \in Sound(k), Good(c)
  PROVE  Good(EditFields(c))
<1> DEFINE x == [c.st.active.shows EXCEPT !.edited = TRUE]
           d == EditFields(c)
<1>1. CASE c.st.active = None BY <1>1 DEF EditFields
<1>2. CASE c.st.active # None
  <2>d. d = Update(c, x) BY <1>2 DEF EditFields
  <2>1. c.st.active.shows \in Text BY <1>2, StParts DEF Airable, Graphic
  <2>2. x \in Text BY <2>1 DEF Text
  <2>3. /\ KeepsSessions(c, d) /\ Told(d)
        /\ d.autoOut = c.autoOut /\ d.lookups = c.lookups
        /\ OnScreen(d) <=> OnScreen(c)
        /\ d.st.active # None
        /\ d.st.active.tpl = c.st.active.tpl
        /\ d.st.active.at = c.st.active.at
        /\ d.st.active.shows = x
    BY <1>2, <2>d, <2>2, UpdateDoes
  <2> HIDE DEF d
  <2>4. MediaGood(d) /\ Mirrors(d)
    BY <2>3, DecksKeepMedia, SessionsKeepMirrors DEF Good, KeepsSessions
  <2>5. ASSUME NEW tpl, NEW row, NEW sec, NEW slide,
               Displays(c, tpl, Says(row, sec, slide))
        PROVE  Displays(d, tpl, Says(row, sec, slide))
    <3>1. x = [Says(row, sec, slide) EXCEPT !.edited = TRUE]
      BY <2>5 DEF Displays, Says
    <3> QED BY <2>3, <2>5, <3>1 DEF Displays
  <2>6. /\ d.song = c.song /\ d.scr = c.scr /\ d.slides = c.slides
    BY <2>3 DEF KeepsSessions, KeepsSong, KeepsPassage, KeepsDecks
  <2>7. ScriptureShown(d) BY <2>5, <2>6 DEF Good, Screen, ScriptureShown
  <2>8. DeckAlone(d) BY <2>6 DEF Good, Screen, DeckAlone
  <2>9. DarkIfBlank(d) BY <2>3, <2>6 DEF Good, Screen, DarkIfBlank
  <2>10. SongShown(d)
    BY <2>5, <2>6 DEF Good, Screen, SongShown, SongIsOnSlide
  <2>11. SlidesShown(d)
    BY <2>3, <2>5, <2>6 DEF Good, Screen, SlidesShown, Airing
  <2>12. AutoOutPending(d) BY <2>3, <2>6 DEF Good, Screen, AutoOutPending
  <2> QED BY <2>3, <2>4, <2>7, <2>8, <2>9, <2>10, <2>11, <2>12
    DEF Good, Screen, d
<1> QED BY <1>1, <1>2

\* The template read answers: what it was pending for now has its timer.
LEMMA AutoOutAnswerGood ==
  ASSUME NEW k, NEW c \in Sound(k), Good(c), NEW ref \in TakeRef
  PROVE  Good(AutoOutAnswer(c, ref))
<1>c. c \in Channel BY Parts
<1> DEFINE a == c.st.active
           read == [c EXCEPT !.lookups = @ \ {ref}]
           d == AutoOutAnswer(c, ref)
<1>1. /\ KeepsSessions(c, read) /\ read.st = c.st /\ read.sent = c.sent
      /\ read.lookups = c.lookups \ {ref} /\ read.autoOut = c.autoOut
  BY <1>c
  DEF Channel, KeepsSessions, KeepsSong, KeepsQueues, KeepsPassage, KeepsDecks
<1>2. LET e == [read EXCEPT !.autoOut = ref]
      IN  /\ KeepsSessions(c, e) /\ e.st = c.st /\ e.sent = c.sent
          /\ e.lookups = c.lookups \ {ref} /\ e.autoOut = ref
  BY <1>c
  DEF Channel, KeepsSessions, KeepsSong, KeepsQueues, KeepsPassage, KeepsDecks
<1>d. d = IF a # None /\ a.tpl = ref.tpl /\ a.at = ref.at
            THEN [read EXCEPT !.autoOut = ref] ELSE read
  BY DEF AutoOutAnswer
<1> HIDE DEF read, d
<1>3. /\ KeepsSessions(c, d) /\ d.st = c.st /\ d.sent = c.sent
      /\ d.lookups = c.lookups \ {ref}
      /\ d.autoOut = IF a # None /\ a.tpl = ref.tpl /\ a.at = ref.at
                       THEN ref ELSE c.autoOut
  BY <1>1, <1>2, <1>d
<1>4. MediaGood(d) /\ Mirrors(d)
  BY <1>3, DecksKeepMedia, SessionsKeepMirrors DEF Good, KeepsSessions
<1>5. d.song = c.song /\ d.scr = c.scr /\ d.slides = c.slides
  BY <1>3 DEF KeepsSessions, KeepsSong, KeepsPassage, KeepsDecks
<1>6. OnScreen(d) <=> OnScreen(c) BY <1>3 DEF OnScreen
<1>7. \A tpl, text : Displays(c, tpl, text) => Displays(d, tpl, text)
  BY <1>3, <1>6 DEF Displays
<1>8. ScriptureShown(d) BY <1>5, <1>7 DEF Good, Screen, ScriptureShown
<1>9. DeckAlone(d) BY <1>5 DEF Good, Screen, DeckAlone
<1>10. DarkIfBlank(d) BY <1>5, <1>6 DEF Good, Screen, DarkIfBlank
<1>11. SongShown(d) BY <1>5, <1>7 DEF Good, Screen, SongShown, SongIsOnSlide
<1>12. SlidesShown(d)
  BY <1>5, <1>6, <1>7 DEF Good, Screen, SlidesShown, Airing
<1>13. AutoOutPending(d)
  <2> DEFINE mine == [tpl |-> a.tpl, at |-> a.at]
  <2>1. CASE a # None /\ a.tpl = ref.tpl /\ a.at = ref.at
    <3>1. mine = ref BY <2>1 DEF TakeRef
    <3> QED BY <1>3, <2>1, <3>1 DEF AutoOutPending
  <2>2. CASE ~(a # None /\ a.tpl = ref.tpl /\ a.at = ref.at)
    <3>1. a # None => mine # ref BY <2>2
    <3>2. d.autoOut = c.autoOut BY <1>3, <2>2
    <3>3. a # None => (mine \in c.lookups => mine \in d.lookups)
      BY <1>3, <3>1
    <3>4. AutoOutPending(c) BY DEF Good, Screen
    <3>5. OnScreen(c) => a # None BY DEF OnScreen
    <3> HIDE DEF mine
    <3>6. d.st.active = a BY <1>3
    <3> HIDE DEF a
    <3> QED BY <1>5, <1>6, <3>2, <3>3, <3>4, <3>5, <3>6
      DEF AutoOutPending, mine, a
  <2> QED BY <2>1, <2>2
<1> QED BY <1>3, <1>4, <1>8, <1>9, <1>10, <1>11, <1>12, <1>13
  DEF Good, Screen, Told, d

\* The auto-out timer takes down the graphic it was set for, or nothing.
LEMMA AutoOutFiresGood ==
  ASSUME NEW k, NEW c \in Sound(k), Good(c), c.autoOut # None
  PROVE  Good(AutoOutFires(c))
<1>c. c \in Channel BY Parts
<1> DEFINE a == c.st.active
           f == CancelAutoOut(c)
           d == AutoOutFires(c)
<1>1. /\ f \in Sound(k) /\ KeepsSessions(c, f) /\ f.st = c.st /\ f.sent = c.sent
      /\ f.lookups = c.lookups
  BY <1>c, CancelAutoOutSound
  DEF CancelAutoOut, Channel, KeepsSessions, KeepsSong, KeepsQueues,
      KeepsPassage, KeepsDecks
<1>d. d = IF a # None /\ a.tpl = c.autoOut.tpl /\ a.at = c.autoOut.at
            THEN Clear(f, TRUE) ELSE f
  BY DEF AutoOutFires
<1> HIDE DEF f, d
<1>2. MediaGood(f) /\ Mirrors(f) /\ Told(f)
  BY <1>1, DecksKeepMedia, SessionsKeepMirrors DEF Good, KeepsSessions, Told
<1>3. f.song = c.song /\ f.scr = c.scr /\ f.slides = c.slides
  BY <1>1 DEF KeepsSessions, KeepsSong, KeepsPassage, KeepsDecks
<1>4. OnScreen(f) <=> OnScreen(c) BY <1>1 DEF OnScreen
<1>5. \A tpl, text : Displays(c, tpl, text) => Displays(f, tpl, text)
  BY <1>1, <1>4 DEF Displays
<1>6. ScriptureShown(f) BY <1>3, <1>5 DEF Good, Screen, ScriptureShown
<1>7. CASE a # None /\ a.tpl = c.autoOut.tpl /\ a.at = c.autoOut.at
  <2>1. /\ MediaGood(d) /\ Mirrors(d) /\ Idle(d) /\ Told(d)
    BY <1>1, <1>2, <1>6, <1>7, <1>d, ClearDoes
  <2> QED BY <2>1, IdleScreen DEF Good, d
<1>8. CASE ~(a # None /\ a.tpl = c.autoOut.tpl /\ a.at = c.autoOut.at)
  <2>1. d = f BY <1>8, <1>d
  <2>2. /\ DeckAlone(f) /\ DarkIfBlank(f)
    BY <1>3, <1>4 DEF Good, Screen, DeckAlone, DarkIfBlank
  <2>3. SongShown(f) BY <1>3, <1>5 DEF Good, Screen, SongShown, SongIsOnSlide
  <2>4. SlidesShown(f)
    BY <1>3, <1>4, <1>5 DEF Good, Screen, SlidesShown, Airing
  <2>5. OnScreen(c) => c.autoOut # [tpl |-> a.tpl, at |-> a.at]
    BY <1>8 DEF OnScreen
  <2>6. AutoOutPending(f)
    <3>1. AutoOutPending(c) BY DEF Good, Screen
    <3> QED BY <1>1, <1>3, <1>4, <2>5, <3>1 DEF AutoOutPending
  <2> QED BY <1>2, <1>6, <2>1, <2>2, <2>3, <2>4, <2>6 DEF Good, Screen, d
<1> QED BY <1>7, <1>8

\* A sweep drops only what has left the screen.
LEMMA SweepGood ==
  ASSUME NEW k, NEW c \in Sound(k), Good(c), NEW at
  PROVE  Good(Sweep(c, at))
<1>c. c \in Channel BY Parts
<1> DEFINE a == c.st.active
           f == [c EXCEPT !.sweeps = @ \ {at}]
           g == [f EXCEPT !.st.active = None]
           d == Sweep(c, at)
<1>1. /\ KeepsSessions(c, f) /\ KeepsScreen(c, f) /\ f.st = c.st
      /\ f.sent = c.sent
  BY <1>c
  DEF Channel, KeepsSessions, KeepsSong, KeepsQueues, KeepsPassage, KeepsDecks,
      KeepsScreen
<1>2. LET e == Emit(g)
      IN  KeepsSessions(c, e) /\ e.st.active = None /\ Told(e)
  BY <1>c
  DEF Channel, State, Emit, Told, KeepsSessions, KeepsSong, KeepsQueues,
      KeepsPassage, KeepsDecks
<1>d. d = IF a # None /\ a.phase = "out" /\ a.at = at THEN Emit(g) ELSE f
  BY DEF Sweep
<1> HIDE DEF f, g, d
<1>3. KeepsSessions(c, d) /\ Told(d)
  BY <1>1, <1>2, <1>d DEF Good, Told
<1>4. MediaGood(d) /\ Mirrors(d)
  BY <1>3, DecksKeepMedia, SessionsKeepMirrors DEF Good, KeepsSessions
<1>5. d.song = c.song /\ d.scr = c.scr /\ d.slides = c.slides
  BY <1>3 DEF KeepsSessions, KeepsSong, KeepsPassage, KeepsDecks
<1>6. CASE a # None /\ a.phase = "out" /\ a.at = at
  <2>1. ~OnScreen(c) BY <1>6 DEF OnScreen
  <2>2. ~OnScreen(d) BY <1>2, <1>6, <1>d DEF OnScreen
  <2>3. \A tpl, text : ~Displays(c, tpl, text) BY <2>1 DEF Displays
  <2>4. ScriptureShown(d) BY <1>5, <2>3 DEF Good, Screen, ScriptureShown
  <2>5. DeckAlone(d) /\ DarkIfBlank(d)
    BY <1>5, <2>2 DEF Good, Screen, DeckAlone, DarkIfBlank
  <2>6. SongShown(d) BY <1>5, <2>3 DEF Good, Screen, SongShown, SongIsOnSlide
  <2>7. SlidesShown(d)
    BY <1>5, <2>2, <2>3 DEF Good, Screen, SlidesShown, Airing
  <2>8. AutoOutPending(d) BY <2>2 DEF AutoOutPending
  <2> QED BY <1>3, <1>4, <2>4, <2>5, <2>6, <2>7, <2>8 DEF Good, Screen, d
<1>7. CASE ~(a # None /\ a.phase = "out" /\ a.at = at)
  <2>1. Screen(d) BY <1>1, <1>5, <1>7, <1>d, ScreenKept DEF Good
  <2> QED BY <1>3, <1>4, <2>1 DEF Good, d
<1> QED BY <1>6, <1>7

----------------------------------------------------------------------------
(***************************************************************************)
(* songSession.ts.                                                         *)
(***************************************************************************)
\* render() publishes the session and shows its slide, nothing, or the slide
\* that was up: whatever the channel showed before.
LEMMA RenderSongGood ==
  ASSUME NEW k, NEW c \in Sound(k), c.song \in SongSession, NEW force \in BOOLEAN,
         NEW t \in Nat, MediaGood(c), QueuesMirrored(c), c.st.scr = c.scr,
         EndsAtEnd(c), DeckAlone(c)
  PROVE  Good(RenderSong(c, force, t))
<1>c. c \in Channel BY Parts
<1> DEFINE s == c.song
           lyric == SongInfo[s.row].lyric
           text == Says(s.row, s.cur.sec, s.cur.slide)
           told == Emit([c EXCEPT !.st.song = s])
           d == RenderSong(c, force, t)
<1>1. lyric \in Templates \ Drafts BY SongPut, SongsAssumption
<1>2. text \in Text BY SongPut, SongParts, SaysType DEF Cursor
<1>3. told \in Sound(k) BY StPut, EmitSound
<1>4. /\ told.name = c.name /\ told.song = s /\ told.st.song = s
      /\ KeepsQueues(c, told) /\ KeepsPassage(c, told) /\ KeepsDecks(c, told)
      /\ told.st.active = c.st.active /\ Told(told)
  BY <1>c
  DEF Channel, State, Emit, Told, KeepsQueues, KeepsPassage, KeepsDecks
<1>d. d = CASE s.blanked -> ClearInternal(told)
            [] ~s.blanked /\ ~OnSlide(SongInfo[s.row].song, s.arr, s.cur) -> told
            [] OTHER -> IF ~force /\ OnScreen(c) /\ c.st.active.tpl = lyric
                          THEN Update(told, text)
                          ELSE TakeInternal(told, lyric, text, t)
  BY DEF RenderSong
<1>n. s # None /\ s.blanked \in BOOLEAN BY NoneAssumption, SongPut
<1> HIDE DEF told, lyric, text, d
<1>5. /\ MediaGood(told) /\ EndsAtEnd(told) BY <1>4, DecksKeepMedia
<1>6. Mirrors(told)
  BY <1>4, <1>5, <1>n
  DEF Mirrors, SongMirrored, QueuesMirrored, KeepsQueues, KeepsPassage
<1>7. DeckAlone(told) BY <1>4 DEF DeckAlone, KeepsPassage, KeepsDecks
<1>8. ASSUME NEW e, e.song = s, DeckAlone(e), s.blanked => ~OnScreen(e),
             ~s.blanked /\ OnSlide(SongInfo[s.row].song, s.arr, s.cur)
               => Displays(e, lyric, text)
      PROVE  Screen(e)
  <2>1. ScriptureShown(e) /\ SlidesShown(e) /\ AutoOutPending(e)
    BY <1>8, <1>n DEF ScriptureShown, SlidesShown, AutoOutPending
  <2>2. DarkIfBlank(e) BY <1>8 DEF DarkIfBlank
  <2>3. SongShown(e) BY <1>8 DEF SongShown, SongIsOnSlide, lyric, text
  <2> QED BY <1>8, <2>1, <2>2, <2>3 DEF Screen
<1>9. CASE s.blanked
  <2>1. d = ClearInternal(told) BY <1>9, <1>d
  <2>2. KeepsSessions(told, d) /\ ~OnScreen(d) /\ Told(d)
    BY <1>3, <1>4, <2>1, ClearInternalDoes DEF Tells
  <2>3. MediaGood(d) /\ Mirrors(d)
    BY <1>5, <1>6, <2>2, DecksKeepMedia, SessionsKeepMirrors DEF KeepsSessions
  <2>4. d.song = s /\ DeckAlone(d)
    BY <1>4, <1>7, <2>2
    DEF KeepsSessions, KeepsSong, KeepsPassage, KeepsDecks, DeckAlone
  <2> QED BY <1>8, <1>9, <2>2, <2>3, <2>4 DEF Good, d
<1>10. CASE ~s.blanked /\ ~OnSlide(SongInfo[s.row].song, s.arr, s.cur)
  <2>1. d = told BY <1>10, <1>d
  <2> QED BY <1>4, <1>5, <1>6, <1>7, <1>8, <1>10, <2>1 DEF Good, d
<1>11. CASE ~s.blanked /\ OnSlide(SongInfo[s.row].song, s.arr, s.cur)
  <2>1. CASE ~force /\ OnScreen(c) /\ c.st.active.tpl = lyric
    <3>1. d = Update(told, text) BY <1>11, <1>d, <2>1
    <3>2. told.st.active # None /\ OnScreen(told)
      BY <1>4, <2>1 DEF OnScreen
    <3>3. /\ KeepsSessions(told, d) /\ Told(d) /\ OnScreen(d)
          /\ d.st.active.tpl = lyric /\ d.st.active.shows = text
      BY <1>2, <1>3, <1>4, <2>1, <3>1, <3>2, UpdateDoes
    <3>4. MediaGood(d) /\ Mirrors(d)
      BY <1>5, <1>6, <3>3, DecksKeepMedia, SessionsKeepMirrors DEF KeepsSessions
    <3>5. d.song = s /\ DeckAlone(d)
      BY <1>4, <1>7, <3>3
      DEF KeepsSessions, KeepsSong, KeepsPassage, KeepsDecks, DeckAlone
    <3>6. Displays(d, lyric, text) BY <3>3 DEF Displays
    <3> QED BY <1>8, <1>11, <3>3, <3>4, <3>5, <3>6 DEF Good, d
  <2>2. CASE ~(~force /\ OnScreen(c) /\ c.st.active.tpl = lyric)
    <3>1. d = TakeInternal(told, lyric, text, t) BY <1>11, <1>d, <2>2
    <3>2. /\ KeepsSong(told, d) /\ KeepsDecks(told, d)
          /\ d.songQ = told.songQ /\ d.st.songQ = told.st.songQ
          /\ d.scr = None /\ d.st.scr = None
          /\ d.scrQ = None /\ d.st.scrQ = None
          /\ Displays(d, lyric, text) /\ Told(d)
      BY <1>1, <1>2, <1>3, <3>1, TakeInternalDoes
    <3>3. MediaGood(d) /\ EndsAtEnd(d) BY <1>5, <3>2, DecksKeepMedia
    <3>4. Mirrors(d)
      BY <1>6, <3>2, <3>3 DEF Mirrors, SongMirrored, QueuesMirrored, KeepsSong
    <3>5. d.song = s /\ DeckAlone(d)
      BY <1>4, <3>2 DEF KeepsSong, DeckAlone
    <3> QED BY <1>8, <1>11, <3>2, <3>3, <3>4, <3>5 DEF Good, d
  <2> QED BY <2>1, <2>2
<1> QED BY <1>9, <1>10, <1>11, <1>n

\* A session's fields change and it is rendered.
LEMMA SongRenderGood ==
  ASSUME NEW k, NEW c \in Sound(k), NEW s \in SongSession, NEW force \in BOOLEAN,
         NEW t \in Nat, MediaGood(c), QueuesMirrored(c), c.st.scr = c.scr,
         EndsAtEnd(c), DeckAlone(c)
  PROVE  /\ Good(RenderSong([c EXCEPT !.song = s], force, t))
         /\ \A n \in Nat :
              Good(RenderSong([c EXCEPT !.song = s, !.heard = n], force, t))
<1>c. c \in Channel BY Parts
<1>1. ASSUME NEW d \in Sound(k), d.song = s, KeepsQueues(c, d),
             KeepsPassage(c, d), KeepsDecks(c, d)
      PROVE  Good(RenderSong(d, force, t))
  <2>1. MediaGood(d) /\ EndsAtEnd(d) BY <1>1, DecksKeepMedia
  <2>2. QueuesMirrored(d) /\ d.st.scr = d.scr /\ DeckAlone(d)
    BY <1>1
    DEF QueuesMirrored, DeckAlone, KeepsQueues, KeepsPassage, KeepsDecks
  <2> QED BY <1>1, <2>1, <2>2, RenderSongGood
<1>2. LET d == [c EXCEPT !.song = s]
      IN  /\ d \in Sound(k) /\ d.song = s
          /\ KeepsQueues(c, d) /\ KeepsPassage(c, d) /\ KeepsDecks(c, d)
  <2>1. [c EXCEPT !.song = s] \in Sound(k) BY Put
  <2> QED BY <1>c, <2>1 DEF Channel, KeepsQueues, KeepsPassage, KeepsDecks
<1>3. ASSUME NEW n \in Nat
      PROVE  LET d == [c EXCEPT !.song = s, !.heard = n]
             IN  /\ d \in Sound(k) /\ d.song = s
                 /\ KeepsQueues(c, d) /\ KeepsPassage(c, d) /\ KeepsDecks(c, d)
  <2>1. [c EXCEPT !.song = s, !.heard = n] \in Sound(k) BY Put
  <2> QED BY <1>c, <2>1 DEF Channel, KeepsQueues, KeepsPassage, KeepsDecks
<1> QED BY <1>1, <1>2, <1>3

\* start() takes the slot from whatever held it.
LEMMA SongStartGood ==
  ASSUME NEW k, NEW c \in Sound(k), Good(c), NEW row \in SongRows,
         NEW arr \in Seq(Sections), NEW cur \in Cursor, NEW t \in Nat
  PROVE  Good(SongStart(c, row, arr, cur, t))
<1> DEFINE s == NewSong(row, arr, cur, SongInfo[row].trust)
           q == DropSongQueue(c)
           free == SlidesDropAll(q)
<1>1. s \in SongSession BY SongParts, NewSongType
<1>2. /\ q \in Sound(k) /\ KeepsPassage(c, q) /\ KeepsDecks(c, q)
      /\ q.songQ = None /\ q.scrQ = c.scrQ /\ q.st.scrQ = c.st.scrQ
      /\ c.st.songQ = c.songQ => q.st.songQ = None
  BY DropsSound, DropsDo
<1>s. SongStart(c, row, arr, cur, t)
        = RenderSong([free EXCEPT !.song = s, !.heard = Len(arr)], TRUE, t)
  BY DEF SongStart
<1> HIDE DEF s, q
<1>3. MediaGood(q) BY <1>2, DecksKeepMedia DEF Good
<1>4. /\ free \in Sound(k) /\ KeepsQueues(q, free) /\ KeepsPassage(q, free)
      /\ free.slides = None /\ MediaGood(free)
  BY <1>2, <1>3, SlidesDropAllDoes
<1> HIDE DEF free
<1>5. /\ QueuesMirrored(free) /\ free.st.scr = free.scr
      /\ EndsAtEnd(free) /\ DeckAlone(free)
  BY <1>2, <1>4
  DEF Good, Mirrors, QueuesMirrored, KeepsQueues, KeepsPassage, EndsAtEnd,
      DeckAlone
<1>6. Len(arr) \in Nat OBVIOUS
<1>7. TRUE \in BOOLEAN OBVIOUS
<1>8. \A n \in Nat :
        Good(RenderSong([free EXCEPT !.song = s, !.heard = n], TRUE, t))
  BY <1>1, <1>4, <1>5, <1>7, SongRenderGood
<1> QED BY <1>6, <1>8, <1>s

\* The song_take message.
LEMMA SongTakeGood ==
  ASSUME NEW k, NEW c \in Sound(k), Good(c), NEW row \in SongRows, NEW t \in Nat
  PROVE  Good(SongTake(c, row, t))
<1> DEFINE d == SongStart(c, row, SongInfo[row].arr, FirstSlide, t)
<1>1. Good(d) /\ d \in Sound(k)
  BY SongParts, FirstSlideType, SongStartGood, SongStartSound
<1> HIDE DEF d
<1>2. Good(SetLiveRow(d, row)) BY <1>1, SetLiveRowGood
<1> QED BY <1>2 DEF SongTake, d

\* Moving the cursor of a live song, whatever else of its session changed.
LEMMA SongToGood ==
  ASSUME NEW k, NEW c \in Sound(k), c.song \in SongSession, NEW cur \in Cursor,
         NEW t \in Nat, MediaGood(c), QueuesMirrored(c), c.st.scr = c.scr,
         EndsAtEnd(c), DeckAlone(c)
  PROVE  Good(SongTo(c, cur, t))
<1> DEFINE s == [c.song EXCEPT !.cur = cur]
<1>1. s \in SongSession BY SongPut
<1>2. SongTo(c, cur, t) = RenderSong([c EXCEPT !.song = s], TRUE, t)
  BY DEF SongTo
<1> HIDE DEF s
<1> QED BY <1>1, <1>2, SongRenderGood, ZenonT(40)

\* songSession.advance(), a queued song included.
LEMMA SongAdvanceGood ==
  ASSUME NEW k, NEW c \in Sound(k), Good(c), NEW d \in {-1, 1}, NEW t \in Nat
  PROVE  Good(SongAdvance(c, d, t))
<1> DEFINE next == StepCursor(SongInfo[c.song.row].song, c.song.arr, c.song.cur, d)
<1>1. c.song # None => c.song \in SongSession /\ next \in Cursor
  BY Parts, SongPut, SongParts, StepCursorType
<1>2. c.song # None => Good(SongTo(c, next, t))
  BY <1>1, SongToGood DEF Good, Mirrors, Screen
<1>3. c.songQ # None =>
        Good(SongStart(c, c.songQ, SongInfo[c.songQ].arr, FirstSlide, t))
  BY Parts, SongParts, FirstSlideType, SongStartGood
<1> HIDE DEF next
<1> QED BY <1>2, <1>3 DEF SongAdvance, next

\* songSession.jump(), an appended section included.
LEMMA SongJumpGood ==
  ASSUME NEW k, NEW c \in Sound(k), Good(c), NEW section \in Sections,
         NEW slide \in Nat, NEW t \in Nat
  PROVE  Good(SongJump(c, section, slide, t))
<1>c. c \in Channel BY Parts
<1> DEFINE row == IF c.song = None THEN c.songQ ELSE c.song.row
           arr == IF c.song = None THEN SongInfo[row].arr ELSE c.song.arr
           i == IF c.song = None THEN 0 ELSE c.song.cur.sec
           found == OccurrenceFor(arr, section, i)
           target == IF found = 0 THEN Append(arr, section) ELSE arr
           cur == [sec |-> IF found = 0 THEN Len(arr) + 1 ELSE found,
                   slide |-> slide]
           s == [c.song EXCEPT !.arr = target]
           put == [c EXCEPT !.song = s]
<1>1. CASE row = None BY <1>1 DEF SongJump
<1>2. CASE row # None
  <2>1. row \in SongRows /\ (c.song # None => c.song \in SongSession)
    BY <1>2, Parts, SongPut
  <2>2. arr \in Seq(Sections) /\ i \in Nat
    BY <2>1, SongParts, SongPut DEF Cursor
  <2> HIDE DEF arr, i
  <2>3. found \in Nat BY <2>2, OccurrenceForType
  <2> HIDE DEF found
  <2>4. target \in Seq(Sections) /\ Len(arr) \in Nat BY <2>2
  <2>5. cur \in Cursor BY <2>3, <2>4 DEF Cursor
  <2> HIDE DEF cur, target, row
  <2>6. Good(SongStart(c, row, target, cur, t))
    BY <2>1, <2>4, <2>5, SongStartGood
  <2>7. c.song # None => Good(SongTo(put, cur, t))
    <3> SUFFICES ASSUME c.song # None PROVE Good(SongTo(put, cur, t)) OBVIOUS
    <3>1. s \in SongSession BY <2>1, <2>4, SongPut
    <3> HIDE DEF s
    <3>2. /\ put \in Sound(k) /\ put.song = s
          /\ KeepsQueues(c, put) /\ KeepsPassage(c, put) /\ KeepsDecks(c, put)
      <4>1. put \in Sound(k) BY <3>1, Put
      <4> QED BY <1>c, <4>1 DEF Channel, KeepsQueues, KeepsPassage, KeepsDecks
    <3> HIDE DEF put
    <3>3. MediaGood(put) /\ EndsAtEnd(put)
      BY <3>2, DecksKeepMedia DEF Good, Mirrors
    <3>4. QueuesMirrored(put) /\ put.st.scr = put.scr /\ DeckAlone(put)
      BY <3>2
      DEF Good, Mirrors, Screen, QueuesMirrored, DeckAlone, KeepsQueues,
          KeepsPassage, KeepsDecks
    <3> QED BY <2>5, <3>1, <3>2, <3>3, <3>4, SongToGood
  <2>8. SongJump(c, section, slide, t) =
          CASE row = None -> c
            [] row # None /\ found = 0
                 /\ section \notin DOMAIN SlideCount[SongInfo[row].song] -> c
            [] OTHER -> IF c.song = None THEN SongStart(c, row, target, cur, t)
                        ELSE SongTo([c EXCEPT !.song.arr = target], cur, t)
    BY Zenon DEF SongJump, cur, target, row, found, arr, i
  <2>9. [c EXCEPT !.song.arr = target] = put OBVIOUS
  <2> HIDE DEF put
  <2> QED BY <1>2, <2>6, <2>7, <2>8, <2>9
<1> QED BY <1>1, <1>2

\* songSession.blank() blanks, and mounts again.
LEMMA SongBlankGood ==
  ASSUME NEW k, NEW c \in Sound(k), Good(c), NEW t \in Nat
  PROVE  Good(SongBlank(c, t))
<1> DEFINE s == [c.song EXCEPT !.blanked = ~@]
<1>1. CASE c.song = None BY <1>1, ClearQueuedSongGood DEF SongBlank
<1>2. CASE c.song # None
  <2>1. s \in SongSession BY <1>2, Parts, SongPut
  <2> HIDE DEF s
  <2>2. Good(RenderSong([c EXCEPT !.song = s], FALSE, t))
    BY <2>1, SongRenderGood DEF Good, Mirrors, Screen
  <2> QED BY <1>2, <2>2 DEF SongBlank, s
<1> QED BY <1>1, <1>2

\* setTrust() changes what speech may do and nothing that is shown.
LEMMA SongTrustGood ==
  ASSUME NEW k, NEW c \in Sound(k), Good(c), NEW trust \in BOOLEAN
  PROVE  Good(SongTrust(c, trust))
<1>c. c \in Channel BY Parts
<1> DEFINE s == [c.song EXCEPT !.trust = trust]
           put == [c EXCEPT !.song = s, !.st.song = s]
           d == SongTrust(c, trust)
<1>1. CASE c.song = None BY <1>1 DEF SongTrust
<1>2. CASE c.song # None
  <2>1. c.song \in SongSession BY <1>2, Parts
  <2>2. /\ s \in SongSession /\ s.row = c.song.row /\ s.arr = c.song.arr
        /\ s.cur = c.song.cur /\ s.blanked = c.song.blanked
    BY <2>1 DEF SongSession
  <2>3. s # None BY <2>2, NoneAssumption
  <2>d. d = Emit(put) BY <1>2 DEF SongTrust
  <2> HIDE DEF s
  <2>4. LET e == Emit(put)
        IN  /\ e.song = s /\ e.st.song = s /\ e.stt = c.stt /\ Told(e)
            /\ KeepsQueues(c, e) /\ KeepsPassage(c, e) /\ KeepsDecks(c, e)
            /\ KeepsScreen(c, e)
    BY <1>c
    DEF Channel, State, Emit, Told, KeepsQueues, KeepsPassage, KeepsDecks,
        KeepsScreen
  <2> HIDE DEF put, d
  <2>5. /\ d.song = s /\ d.st.song = s /\ d.stt = c.stt /\ Told(d)
        /\ KeepsQueues(c, d) /\ KeepsPassage(c, d) /\ KeepsDecks(c, d)
        /\ KeepsScreen(c, d)
    BY <2>d, <2>4
  <2>6. MediaGood(d) /\ EndsAtEnd(d) BY <2>5, DecksKeepMedia DEF Good, Mirrors
  <2>7. Mirrors(d)
    BY <2>3, <2>5, <2>6
    DEF Good, Mirrors, SongMirrored, QueuesMirrored, KeepsQueues, KeepsPassage
  <2>8. OnScreen(d) <=> OnScreen(c) BY <2>5 DEF KeepsScreen, OnScreen
  <2>9. \A tpl, text : Displays(c, tpl, text) => Displays(d, tpl, text)
    BY <2>5, <2>8 DEF KeepsScreen, Displays
  <2>10. ScriptureShown(d) /\ SlidesShown(d) /\ AutoOutPending(d)
    BY <2>3, <2>5 DEF ScriptureShown, SlidesShown, AutoOutPending
  <2>11. DeckAlone(d) /\ DarkIfBlank(d)
    BY <1>2, <2>2, <2>5, <2>8
    DEF Good, Screen, DeckAlone, DarkIfBlank, KeepsPassage, KeepsDecks
  <2>12. SongShown(d)
    BY <1>2, <2>2, <2>5, <2>9
    DEF Good, Screen, SongShown, SongIsOnSlide, KeepsDecks
  <2> QED BY <2>5, <2>6, <2>7, <2>10, <2>11, <2>12 DEF Good, Screen, d
<1> QED BY <1>1, <1>2

\* songSession.end(), of a live or a queued song.
LEMMA SongEndGood ==
  ASSUME NEW k, NEW c \in Sound(k), Good(c) PROVE Good(SongEnd(c))
BY ClearQueuedSongGood, ClearGood DEF SongEnd

\* take_song_sub: an intro queues its song beside it.
LEMMA SubTakesGood ==
  ASSUME NEW k, NEW c \in Sound(k), Good(c), NEW row \in SongRows, NEW t \in Nat
  PROVE  /\ Good(SongIntro(c, row, t))
         /\ Good(SongOutro(c, row, t))
         /\ Good(SongLyrics(c, row, t))
<1> DEFINE up == TakeGraphic(c, SongInfo[row].intro, row, "intro", t)
           d == SongIntro(c, row, t)
<1>1. /\ Good(up) /\ up \in Sound(k)
      /\ Good(TakeGraphic(c, SongInfo[row].outro, row, "outro", t))
  BY SongParts, TakeGraphicGood, TakeGraphicSound DEF Contexts
<1>2. Good(d)
  <2>d. d = Emit([up EXCEPT !.songQ = row, !.st.songQ = row])
    BY DEF SongIntro
  <2> HIDE DEF up, d
  <2>1. up \in Channel BY <1>1, Parts
  <2>2. LET e == Emit([up EXCEPT !.songQ = row, !.st.songQ = row])
        IN  /\ KeepsScreen(up, e) /\ KeepsSong(up, e) /\ KeepsPassage(up, e)
            /\ KeepsDecks(up, e) /\ e.songQ = row /\ e.st.songQ = row
            /\ e.scrQ = up.scrQ /\ e.st.scrQ = up.st.scrQ /\ Told(e)
    BY <2>1
    DEF Channel, State, Emit, Told, KeepsScreen, KeepsSong, KeepsPassage,
        KeepsDecks
  <2>3. /\ KeepsScreen(up, d) /\ KeepsSong(up, d) /\ KeepsPassage(up, d)
        /\ KeepsDecks(up, d) /\ QueuesMirrored(d) /\ Told(d)
    BY <1>1, <2>d, <2>2 DEF Good, Mirrors, QueuesMirrored
  <2>4. MediaGood(d) /\ EndsAtEnd(d)
    BY <1>1, <2>3, DecksKeepMedia DEF Good, Mirrors
  <2>5. Mirrors(d)
    BY <1>1, <2>3, <2>4 DEF Good, Mirrors, SongMirrored, KeepsSong, KeepsPassage
  <2>6. Screen(d)
    BY <1>1, <2>3, ScreenKept DEF Good, KeepsSong, KeepsPassage, KeepsDecks
  <2> QED BY <2>3, <2>4, <2>5, <2>6 DEF Good
<1>3. Good(SongLyrics(c, row, t))
  <2> DEFINE s == SongStart(c, row, SongInfo[row].arr, FirstSlide, t)
             a == SongAdvance(c, 1, t)
  <2>1. Good(s) /\ s \in Sound(k)
    BY SongParts, FirstSlideType, SongStartGood, SongStartSound
  <2>2. Good(a) /\ a \in Sound(k) BY SongAdvanceGood, SongAdvanceSound
  <2> HIDE DEF s, a
  <2>3. Good(SetLiveRow(s, row)) /\ Good(SetLiveRow(a, row))
    BY <2>1, <2>2, SetLiveRowGood
  <2> QED BY <2>3 DEF SongLyrics, s, a
<1> QED BY <1>1, <1>2, <1>3 DEF SongOutro

\* promoteTo(): the preview's song ends and program's starts where it was.
LEMMA SongPromoteGood ==
  ASSUME NEW j, NEW from \in Sound(j), Good(from),
         NEW k, NEW to \in Sound(k), Good(to),
         NEW row \in SongRows, NEW t \in Nat
  PROVE  /\ Good(SongPromote(from, to, row, t)[1])
         /\ Good(SongPromote(from, to, row, t)[2])
<1> DEFINE src == from.song
           reuse == src # None /\ SongInfo[src.row].song = SongInfo[row].song
           arr == IF reuse THEN src.arr ELSE SongInfo[row].arr
           cur == IF reuse THEN src.cur ELSE FirstSlide
           trust == IF reuse THEN src.trust ELSE SongInfo[row].trust
           s == NewSong(row, arr, cur, trust)
           free == DropSongQueue(to)
           up == [free EXCEPT !.song = s, !.heard = Len(arr)]
           d == RenderSong(up, TRUE, t)
<1>1. arr \in Seq(Sections) /\ cur \in Cursor /\ trust \in BOOLEAN
  BY Parts, SongPut, SongParts, FirstSlideType
<1>p. SongPromote(from, to, row, t) = <<EndLiveSong(from), SetLiveRow(d, row)>>
  BY DEF SongPromote
<1> HIDE DEF arr, cur, trust
<1>2. s \in SongSession /\ Len(arr) \in Nat BY <1>1, NewSongType
<1> HIDE DEF s
<1>3. /\ free \in Sound(k) /\ KeepsPassage(to, free) /\ KeepsDecks(to, free)
      /\ free.songQ = None /\ free.scrQ = to.scrQ
      /\ free.st.scrQ = to.st.scrQ
      /\ to.st.songQ = to.songQ => free.st.songQ = None
  BY DropsSound, DropsDo
<1> HIDE DEF free
<1>4. MediaGood(free) /\ EndsAtEnd(free)
  BY <1>3, DecksKeepMedia DEF Good, Mirrors
<1>5. QueuesMirrored(free) /\ free.st.scr = free.scr /\ DeckAlone(free)
  BY <1>3
  DEF Good, Mirrors, Screen, QueuesMirrored, DeckAlone, KeepsPassage, KeepsDecks
<1>6. Good(d) BY <1>2, <1>3, <1>4, <1>5, SongRenderGood
<1>7. d \in Sound(k)
  <2>1. up \in Sound(k) BY <1>2, <1>3, Put
  <2>2. up.song = s BY <1>3, Parts DEF Channel
  <2> HIDE DEF up
  <2> QED BY <1>2, <2>1, <2>2, RenderSongSound
<1> HIDE DEF d
<1>8. Good(SetLiveRow(d, row)) BY <1>6, <1>7, SetLiveRowGood
<1>9. Good(EndLiveSong(from)) BY ClearGood
<1> QED BY <1>8, <1>9, <1>p

\* A hypothesis is heard, matched or timed; nothing shown changes.
LEMMA HypothesisGood ==
  ASSUME NEW k, NEW c \in Sound(k), Good(c), NEW p, NEW sure
  PROVE  Good(Hypothesis(c, p, sure))
<1>c. c \in Channel BY Parts
<1> DEFINE told == [c EXCEPT !.match = p]
           timed == [told EXCEPT !.stt = p]
           d == Hypothesis(c, p, sure)
<1>1. CASE c.song = None BY <1>1 DEF Hypothesis
<1>2. CASE c.song # None
  <2>1. d = timed \/ d = told BY <1>2 DEF Hypothesis
  <2>2. \A e \in {timed, told} :
          /\ e.song = c.song /\ e.st = c.st /\ e.sent = c.sent
          /\ KeepsQueues(c, e) /\ KeepsPassage(c, e) /\ KeepsDecks(c, e)
          /\ KeepsScreen(c, e)
    BY <1>c
    DEF Channel, KeepsQueues, KeepsPassage, KeepsDecks, KeepsScreen
  <2> HIDE DEF told, timed, d
  <2>3. /\ d.song = c.song /\ d.st = c.st /\ d.sent = c.sent
        /\ KeepsQueues(c, d) /\ KeepsPassage(c, d) /\ KeepsDecks(c, d)
        /\ KeepsScreen(c, d)
    BY <2>1, <2>2
  <2>4. MediaGood(d) /\ EndsAtEnd(d) BY <2>3, DecksKeepMedia DEF Good, Mirrors
  <2>5. Mirrors(d)
    BY <1>2, <2>3, <2>4
    DEF Good, Mirrors, SongMirrored, QueuesMirrored, KeepsQueues, KeepsPassage
  <2>6. Screen(d)
    BY <2>3, ScreenKept DEF Good, KeepsPassage, KeepsDecks
  <2> QED BY <2>3, <2>4, <2>5, <2>6 DEF Good, Told, d
<1> QED BY <1>1, <1>2

\* The auto-advance timer moves the song it finds, or nothing.
LEMMA SttFiresGood ==
  ASSUME NEW k, NEW c \in Sound(k), Good(c), c.stt # None, NEW t \in Nat
  PROVE  Good(SttFires(c, t))
<1>c. c \in Channel BY Parts
<1> DEFINE f == [c EXCEPT !.stt = None]
<1>1. /\ f \in Sound(k) /\ f.song = c.song /\ f.stt = None /\ f.st = c.st
      /\ f.sent = c.sent /\ KeepsQueues(c, f) /\ KeepsPassage(c, f)
      /\ KeepsDecks(c, f) /\ KeepsScreen(c, f)
  <2>1. f \in Sound(k) BY Put
  <2> QED BY <1>c, <2>1
    DEF Channel, KeepsQueues, KeepsPassage, KeepsDecks, KeepsScreen
<1> HIDE DEF f
<1>2. MediaGood(f) /\ EndsAtEnd(f) BY <1>1, DecksKeepMedia DEF Good, Mirrors
<1>3. Mirrors(f)
  BY <1>1, <1>2
  DEF Good, Mirrors, SongMirrored, QueuesMirrored, KeepsQueues, KeepsPassage
<1>4. Screen(f) BY <1>1, ScreenKept DEF Good, KeepsPassage, KeepsDecks
<1>5. Good(f) BY <1>1, <1>2, <1>3, <1>4 DEF Good, Told
<1>6. c.stt \in Cursor BY Parts
<1>7. c.song # None => Good(SongTo(f, c.stt, t))
  BY <1>1, <1>2, <1>3, <1>4, <1>6, Parts, SongToGood DEF Mirrors, Screen
<1> QED BY <1>5, <1>7 DEF SttFires, f

----------------------------------------------------------------------------
(***************************************************************************)
(* scriptureSession.ts.                                                    *)
(***************************************************************************)
\* An intro takes the slot and queues its row.
LEMMA ScriptureIntroGood ==
  ASSUME NEW k, NEW c \in Sound(k), Good(c), NEW row \in ScriptureRows, NEW t \in Nat
  PROVE  Good(ScriptureIntro(c, row, t))
<1> DEFINE m == [tpl |-> ScriptureInfo[row].intro, ctx |-> "scrIntro",
                 shows |-> Says(row, 0, 0), row |-> row,
                 scr |-> None, scrQ |-> row]
           up == Take(c, m, t)
           d == [up EXCEPT !.scrQ = row]
<1>1. m \in TakePick /\ m.tpl \notin Drafts
  BY ScriptureAssumption, SaysType DEF TakePick, Contexts, Rows
<1>2. m.scr = None /\ m.scrQ = row OBVIOUS
<1>3. ScriptureIntro(c, row, t) = d BY DEF ScriptureIntro
<1> HIDE DEF m
<1>4. /\ up \in Sound(k) /\ MediaGood(up) /\ Told(up) /\ SongMirrored(up)
      /\ up.song = None /\ up.slides = None
      /\ up.songQ = None /\ up.st.songQ = None
      /\ up.scr = None /\ Aired(up, m, t)
  BY <1>1, TakeDoes DEF Good, RefusesDraft
<1>a. /\ up.st.scr = None /\ up.st.scrQ = row /\ OnScreen(up)
      /\ up.st.active.tpl = m.tpl /\ up.st.active.at = t
      /\ m.tpl \in AutoOut => [tpl |-> m.tpl, at |-> t] \in up.lookups
  BY <1>2, <1>4 DEF Aired
<1> HIDE DEF up
<1>c. up \in Channel BY <1>4, Parts
<1>5. /\ d.scrQ = row /\ d.songQ = up.songQ /\ d.st = up.st /\ d.sent = up.sent
      /\ KeepsScreen(up, d) /\ KeepsSong(up, d) /\ KeepsPassage(up, d)
      /\ KeepsDecks(up, d)
  BY <1>c DEF Channel, KeepsScreen, KeepsSong, KeepsPassage, KeepsDecks
<1> HIDE DEF d
<1>6. MediaGood(d) /\ Told(d) BY <1>4, <1>5, DecksKeepMedia DEF Told
<1>7. Mirrors(d)
  BY <1>4, <1>5, <1>a
  DEF Mirrors, SongMirrored, QueuesMirrored, EndsAtEnd, KeepsSong,
      KeepsPassage, KeepsDecks
<1>8. Screen(d)
  <2>1. Screen(up) BY <1>4, <1>a, AloneScreen
  <2> QED BY <1>5, <2>1, ScreenKept DEF KeepsSong, KeepsPassage, KeepsDecks
<1> QED BY <1>3, <1>6, <1>7, <1>8 DEF Good

\* A slide of a passage takes the slot and is what the screen shows.
LEMMA ScriptureSlideGood ==
  ASSUME NEW k, NEW c \in Sound(k), Good(c), NEW row \in ScriptureRows,
         NEW i \in Int, NEW t \in Nat
  PROVE  Good(ScriptureSlide(c, row, i, t))
<1> DEFINE session == [row |-> row, slide |-> i]
           m == [tpl |-> ScriptureInfo[row].tpl, ctx |-> "scrSlide",
                 shows |-> Says(row, 0, i), row |-> row,
                 scr |-> session, scrQ |-> None]
           up == Take(c, m, t)
           d == [up EXCEPT !.scr = session]
<1>1. CASE i \notin 1..ScriptureInfo[row].count BY <1>1 DEF ScriptureSlide
<1>2. CASE i \in 1..ScriptureInfo[row].count
  <2>1. i \in Nat BY <1>2, ScriptureAssumption
  <2>2. session \in ScriptureSession BY <2>1 DEF ScriptureSession
  <2>3. session.row = row /\ session.slide = i OBVIOUS
  <2>d. ScriptureSlide(c, row, i, t) = d BY <1>2 DEF ScriptureSlide
  <2> HIDE DEF session
  <2>4. m \in TakePick /\ m.tpl \notin Drafts
    BY <2>1, <2>2, ScriptureAssumption, SaysType DEF TakePick, Contexts, Rows
  <2>5. /\ m.scr = session /\ m.scrQ = None /\ m.tpl = ScriptureInfo[row].tpl
        /\ m.shows = Says(row, 0, i)
    OBVIOUS
  <2> HIDE DEF m
  <2>6. /\ up \in Sound(k) /\ MediaGood(up) /\ Told(up) /\ SongMirrored(up)
        /\ up.song = None /\ up.slides = None
        /\ up.songQ = None /\ up.st.songQ = None
        /\ up.scrQ = None /\ Aired(up, m, t)
    BY <2>4, TakeDoes DEF Good, RefusesDraft
  <2>a. /\ up.st.scr = session /\ up.st.scrQ = None
        /\ Displays(up, ScriptureInfo[row].tpl, Says(row, 0, i))
    BY <2>5, <2>6 DEF Aired, Displays
  <2> HIDE DEF up
  <2>c. up \in Channel BY <2>6, Parts
  <2>7. /\ d.scr = session /\ d.st = up.st /\ d.sent = up.sent
        /\ KeepsScreen(up, d) /\ KeepsSong(up, d) /\ KeepsQueues(up, d)
        /\ KeepsDecks(up, d)
    BY <2>c DEF Channel, KeepsScreen, KeepsSong, KeepsQueues, KeepsDecks
  <2> HIDE DEF d
  <2>8. MediaGood(d) /\ Told(d) BY <2>6, <2>7, DecksKeepMedia DEF Told
  <2>9. Mirrors(d)
    BY <2>6, <2>7, <2>a
    DEF Mirrors, SongMirrored, QueuesMirrored, EndsAtEnd, KeepsSong,
        KeepsQueues, KeepsDecks
  <2>10. Displays(d, ScriptureInfo[row].tpl, Says(row, 0, i))
    BY <2>7, <2>a DEF Displays, OnScreen, KeepsScreen
  <2>11. d.song = None /\ d.slides = None /\ d.scr # None
    BY <2>2, <2>6, <2>7, NoneAssumption DEF KeepsSong, KeepsDecks
  <2>12. Screen(d)
    BY <2>3, <2>7, <2>10, <2>11
    DEF Screen, ScriptureShown, DeckAlone, DarkIfBlank, SongShown,
        SlidesShown, AutoOutPending
  <2> QED BY <2>d, <2>8, <2>9, <2>12 DEF Good
<1> QED BY <1>1, <1>2

\* The other scripture commands.
LEMMA ScriptureStepsGood ==
  ASSUME NEW k, NEW c \in Sound(k), Good(c), NEW t \in Nat
  PROVE  /\ \A d \in {-1, 1} : Good(ScriptureAdvance(c, d, t))
         /\ \A i \in Nat : Good(ScriptureGoTo(c, i, t))
         /\ Good(ScriptureEnd(c))
<1>1. c.scr # None => c.scr.row \in ScriptureRows /\ c.scr.slide \in Nat
  BY Parts DEF ScriptureSession
<1>2. c.scrQ # None => c.scrQ \in ScriptureRows BY Parts
<1>3. ASSUME NEW d \in {-1, 1} PROVE Good(ScriptureAdvance(c, d, t))
  <2>1. c.scr # None => c.scr.slide + d \in Int BY <1>1
  <2>2. c.scr # None => Good(ScriptureSlide(c, c.scr.row, c.scr.slide + d, t))
    BY <1>1, <2>1, ScriptureSlideGood
  <2>3. c.scrQ # None => Good(ScriptureSlide(c, c.scrQ, 1, t))
    BY <1>2, ScriptureSlideGood
  <2> QED BY <2>2, <2>3 DEF ScriptureAdvance
<1>4. ASSUME NEW i \in Nat PROVE Good(ScriptureGoTo(c, i, t))
  BY <1>1, <1>2, ScriptureSlideGood DEF ScriptureGoTo
<1>5. Good(ScriptureEnd(c))
  <2> DEFINE q == DropScriptureQueue(c)
             d == Emit(q)
  <2>1. /\ q \in Sound(k) /\ KeepsScreen(c, q) /\ KeepsSong(c, q)
        /\ KeepsPassage(c, q) /\ KeepsDecks(c, q)
        /\ q.scrQ = None /\ q.songQ = c.songQ /\ q.st.songQ = c.st.songQ
        /\ c.st.scrQ = c.scrQ => q.st.scrQ = None
    BY DropsSound, DropsDo
  <2> HIDE DEF q
  <2>2. KeepsSessions(q, d) /\ KeepsScreen(q, d) /\ Told(d) BY <2>1, EmitKeeps
  <2> HIDE DEF d
  <2>3. MediaGood(d) /\ EndsAtEnd(d)
    <3>1. KeepsDecks(c, d) BY <2>1, <2>2 DEF KeepsSessions, KeepsDecks
    <3> QED BY <3>1, DecksKeepMedia DEF Good, Mirrors
  <2>4. Mirrors(d)
    BY <2>1, <2>2, <2>3
    DEF Good, Mirrors, SongMirrored, QueuesMirrored, KeepsSessions, KeepsSong,
        KeepsQueues, KeepsPassage
  <2>5. Screen(d)
    BY <2>1, <2>2, ScreenKept
    DEF Good, KeepsScreen, KeepsSessions, KeepsSong, KeepsPassage, KeepsDecks
  <2>6. Good(d) BY <2>2, <2>3, <2>4, <2>5 DEF Good
  <2> QED BY <2>6, ClearGood DEF ScriptureEnd, d, q
<1> QED BY <1>3, <1>4, <1>5

----------------------------------------------------------------------------
(***************************************************************************)
(* slidesSession.ts.                                                       *)
(***************************************************************************)
\* The session's fields alone.
LEMMA PutSlides ==
  ASSUME NEW k, NEW c \in Sound(k), NEW x \in DeckLive
  PROVE  LET d == [c EXCEPT !.slides = x]
         IN  /\ d \in Sound(k) /\ d.slides = x /\ d.name = c.name
             /\ d.st = c.st /\ d.sent = c.sent /\ d.deck = c.deck
             /\ KeepsScreen(c, d) /\ KeepsSong(c, d) /\ KeepsQueues(c, d)
             /\ KeepsPassage(c, d)
             /\ x # None
<1>c. c \in Channel BY Parts
<1>1. [c EXCEPT !.slides = x] \in Sound(k) BY Put
<1>2. x # None BY NoneAssumption, DeckParts
<1> QED BY <1>c, <1>1, <1>2
  DEF Channel, KeepsScreen, KeepsSong, KeepsQueues, KeepsPassage

\* A deck on screen: no passage with it, and its slide or nothing shown.
LEMMA DeckScreen ==
  ASSUME NEW c, c.scr = None, c.slides # None,
         ~c.slides.blanked =>
           IF Airing(c).kind = "graphic"
             THEN Displays(c, Airing(c).tpl, Says(c.slides.row, 0, c.slides.idx))
             ELSE ~OnScreen(c)
  PROVE  Screen(c)
BY DEF Screen, ScriptureShown, DeckAlone, DarkIfBlank, SongShown, SlidesShown,
       AutoOutPending

\* What a deck's render takes for granted, whatever the channel showed before.
Hosts(c) == /\ SongMirrored(c) /\ QueuesMirrored(c) /\ c.st.scr = c.scr
            /\ EndsAtEnd(c) /\ LoopOwns(c) /\ LoopRests(c)

\* A photo or video slide airs in the media slot, and no graphic over it.
LEMMA RenderMediaSlideGood ==
  ASSUME NEW k, NEW c \in Sound(k), c.slides \in DeckLive,
         Airing(c).kind # "graphic", ~c.slides.blanked, NEW t \in Nat,
         Hosts(c), DeckShown(c)
  PROVE  Good(RenderMediaSlide(c, t))
<1> DEFINE s == c.slides
           bare == DropScripture(c)
           m == [row |-> s.row, item |-> s.idx, kind |-> Airing(c).kind,
                 loop |-> FALSE, endAction |-> "hold",
                 owner |-> <<"slides", s.row>>]
           taken == MediaTake(bare, m, FALSE, t)
           e == [taken.slides EXCEPT !.mediaAt = taken.st.media.at,
                                     !.playedOut = FALSE]
           noted == [taken EXCEPT !.slides = e]
           d == RenderMediaSlide(c, t)
<1>1. Airing(c).kind \in {"image", "video"} BY DeckParts, SlideParts DEF Airing
<1>2. m \in MediaPick /\ m.owner \in SlideMedia
  BY <1>1, DeckParts DEF MediaPick, SlideMedia
<1>m. m.owner = <<"slides", s.row>> /\ m.item = s.idx OBVIOUS
<1>d. d = IF OnScreen(noted) THEN ClearInternal(noted) ELSE noted
  <2> DEFINE n == [taken EXCEPT !.slides.mediaAt = taken.st.media.at,
                                !.slides.playedOut = FALSE]
  <2>1. d = IF OnScreen(n) THEN ClearInternal(n) ELSE n BY DEF RenderMediaSlide
  <2> HIDE DEF d, taken
  <2>2. n = noted OBVIOUS
  <2> HIDE DEF n, noted
  <2> QED BY <2>1, <2>2
<1>3. /\ bare \in Sound(k) /\ KeepsScreen(c, bare) /\ KeepsSong(c, bare)
      /\ KeepsDecks(c, bare) /\ bare.songQ = c.songQ
      /\ bare.st.songQ = c.st.songQ
      /\ bare.scr = None /\ bare.st.scr = None
      /\ bare.scrQ = None /\ bare.st.scrQ = None
  BY DropsSound, DropsDo
<1> HIDE DEF m, bare
<1>4. DeckShown(bare) BY <1>3, DecksKeepMedia
<1>5. /\ taken \in Sound(k) /\ SameGraphics(bare, taken) /\ Told(taken)
      /\ taken.st.media # None /\ taken.st.media \in Media
      /\ taken.st.media.owner = m.owner /\ taken.st.media.item = m.item
      /\ taken.deck = None /\ DeckShown(taken)
  <2>1. FALSE \in BOOLEAN OBVIOUS
  <2>2. taken \in Sound(k) BY <1>2, <1>3, <2>1, MediaTakeSound
  <2>3. /\ SameGraphics(bare, taken) /\ Told(taken)
        /\ taken.st.media # None /\ taken.st.media \in Media
        /\ taken.st.media.owner = m.owner /\ taken.st.media.item = m.item
        /\ DeckShown(taken)
    BY <1>2, <1>3, <1>4, <2>1, MediaTakeDoes
  <2>4. taken.deck = None BY <1>2, <1>3, <2>1, MediaTakeGood
  <2> QED BY <2>2, <2>3, <2>4
<1> HIDE DEF taken
<1>6. taken.slides = s /\ s # None
  BY <1>3, <1>5, NoneAssumption, DeckParts DEF SameGraphics, KeepsDecks
<1>7. e \in DeckLive BY <1>5, <1>6, DeckPut DEF Media
<1>8. /\ e.row = s.row /\ e.idx = s.idx /\ e.blanked = s.blanked
      /\ e.mediaAt = taken.st.media.at /\ DeckSummary(e) = DeckSummary(s)
      /\ e.autoEnded = s.autoEnded /\ e.atEnd = s.atEnd
  BY <1>6, DeckParts DEF SlidesSession, DeckSummary
<1> HIDE DEF e
<1>9. /\ noted \in Sound(k) /\ noted.slides = e /\ e # None
      /\ noted.st = taken.st /\ noted.sent = taken.sent
      /\ noted.deck = taken.deck
      /\ KeepsScreen(taken, noted) /\ KeepsSong(taken, noted)
      /\ KeepsQueues(taken, noted) /\ KeepsPassage(taken, noted)
  BY <1>5, <1>7, PutSlides
<1> HIDE DEF noted
<1>10. Told(noted) BY <1>5, <1>9 DEF Told
<1>11. MediaGood(noted)
  <2>1. DeckShown(noted) BY <1>5, <1>6, <1>8, <1>9 DEF DeckShown
  <2>2. NoStray(noted) BY <1>5, <1>8, <1>9, <1>m DEF NoStray
  <2>3. LoopOwns(noted) /\ LoopRests(noted) /\ LoopShown(noted)
    BY <1>5, <1>9 DEF LoopOwns, LoopRests, LoopShown
  <2> QED BY <2>1, <2>2, <2>3 DEF MediaGood, Framed
<1>12. Mirrors(noted)
  <2>1. EndsAtEnd(noted) BY <1>8, <1>9, <1>6 DEF Hosts, EndsAtEnd
  <2> QED BY <1>3, <1>5, <1>9, <2>1
    DEF Hosts, Mirrors, SongMirrored, QueuesMirrored, SameGraphics, KeepsSong,
        KeepsQueues, KeepsPassage
<1> HIDE DEF d
<1>13. /\ KeepsSessions(noted, d) /\ ~OnScreen(d) /\ Told(d)
  <2>1. CASE OnScreen(noted)
    BY <1>d, <1>9, <1>10, <2>1, ClearInternalDoes DEF Tells
  <2>2. CASE ~OnScreen(noted)
    BY <1>d, <1>10, <2>2
    DEF KeepsSessions, KeepsSong, KeepsQueues, KeepsPassage, KeepsDecks
  <2> QED BY <2>1, <2>2
<1>14. MediaGood(d) /\ Mirrors(d)
  BY <1>11, <1>12, <1>13, DecksKeepMedia, SessionsKeepMirrors DEF KeepsSessions
<1>15. d.slides = e /\ d.scr = None
  BY <1>3, <1>5, <1>9, <1>13
  DEF KeepsSessions, KeepsDecks, KeepsPassage, SameGraphics
<1>16. Airing(d) = Airing(c) BY <1>8, <1>15 DEF Airing
<1>17. Screen(d) BY <1>9, <1>13, <1>15, <1>16, DeckScreen
<1> QED BY <1>13, <1>14, <1>17 DEF Good, d

\* render() publishes the deck and shows its slide, its media, or nothing.
LEMMA RenderSlidesGood ==
  ASSUME NEW k, NEW c \in Sound(k), c.slides \in DeckLive, NEW force \in BOOLEAN,
         NEW t \in Nat, Hosts(c), c.slides.blanked \/ ~force => c.scr = None,
         c.slides.blanked \/ Airing(c).kind = "graphic" => OnlyOf(c, c.slides.row)
  PROVE  Good(RenderSlides(c, force, t))
<1> DEFINE s == c.slides
           slide == Airing(c)
           text == Says(s.row, 0, s.idx)
           told == PublishSlides(c)
           free == ReleaseMedia(told, s.row)
           d == RenderSlides(c, force, t)
<1>c. c \in Channel BY Parts
<1>1. slide.tpl \in Templates /\ (slide.kind = "graphic" => slide.tpl \notin Drafts)
  BY DeckParts, SlideParts DEF Airing, DeckSlide
<1>2. text \in Text BY DeckParts, SaysType
<1>n. s # None /\ s.blanked \in BOOLEAN
  BY NoneAssumption, DeckParts DEF SlidesSession
<1>3. /\ told \in Sound(k) /\ told.slides = s /\ told.name = c.name
      /\ told.st.slides = DeckSummary(s) /\ told.deck = c.deck
      /\ told.st.media = c.st.media
      /\ KeepsScreen(c, told) /\ KeepsSong(c, told) /\ KeepsQueues(c, told)
      /\ KeepsPassage(c, told)
  <2>1. told \in Sound(k) BY PublishSlidesSound
  <2> DEFINE x == DeckSummary(s)
  <2> HIDE DEF x
  <2>2. LET e == [c EXCEPT !.st.slides = x]
        IN  /\ e.slides = s /\ e.name = c.name /\ e.st.slides = x
            /\ e.deck = c.deck /\ e.st.media = c.st.media
            /\ KeepsScreen(c, e) /\ KeepsSong(c, e) /\ KeepsQueues(c, e)
            /\ KeepsPassage(c, e)
    BY <1>c
    DEF Channel, State, KeepsScreen, KeepsSong, KeepsQueues, KeepsPassage
  <2> QED BY <2>1, <2>2 DEF PublishSlides, x
<1>d. d = CASE s.blanked -> Emit(ClearInternal(free))
            [] ~s.blanked /\ slide.kind # "graphic" -> RenderMediaSlide(told, t)
            [] OTHER -> IF ~force /\ OnScreen(free) /\ free.st.active.tpl = slide.tpl
                          THEN Update(free, text)
                          ELSE TakeInternal(free, slide.tpl, text, t)
  BY DEF RenderSlides
<1>a. Airing(told) = slide BY <1>3 DEF Airing
<1> HIDE DEF told
<1>4. Hosts(told) /\ DeckShown(told)
  BY <1>3
  DEF Hosts, SongMirrored, QueuesMirrored, EndsAtEnd, LoopOwns, LoopRests,
      DeckShown, KeepsSong, KeepsQueues, KeepsPassage
<1>5. /\ free \in Sound(k) /\ SameGraphics(told, free)
      /\ DeckShown(free) /\ LoopOwns(free) /\ LoopRests(free)
      /\ OnlyOf(told, s.row) => NoSlideMedia(free)
  BY <1>3, <1>4, ReleaseMediaDoes DEF Hosts
<1> HIDE DEF free, text, d
<1>6. ASSUME s.blanked \/ slide.kind = "graphic"
      PROVE  MediaGood(free)
  <2>1. NoSlideMedia(free) BY <1>3, <1>5, <1>6 DEF OnlyOf
  <2>2. free.slides = s BY <1>3, <1>5 DEF SameGraphics
  <2>3. NoStray(free) BY <2>1 DEF NoStray, NoSlideMedia
  <2>4. LoopShown(free) BY <1>n, <2>2 DEF LoopShown
  <2> QED BY <1>5, <2>3, <2>4 DEF MediaGood, Framed
<1>7. Mirrors(free) /\ free.slides = s
  BY <1>3, <1>4, <1>5
  DEF Hosts, Mirrors, SongMirrored, QueuesMirrored, EndsAtEnd, SameGraphics
<1>8. free.scr = c.scr /\ (free.st.active = c.st.active)
  BY <1>3, <1>5 DEF SameGraphics, KeepsPassage, KeepsScreen
<1>9. ASSUME NEW e, e.scr = None, e.slides = s,
             ~s.blanked => IF slide.kind = "graphic"
                             THEN Displays(e, slide.tpl, text) ELSE ~OnScreen(e)
      PROVE  Screen(e)
  <2>1. Airing(e) = slide BY <1>9 DEF Airing
  <2> QED BY <1>9, <1>n, <2>1, DeckScreen DEF text
<1>10. CASE s.blanked
  <2> DEFINE z == ClearInternal(free)
  <2>1. z \in Sound(k) /\ KeepsSessions(free, z)
    BY <1>5, ClearInternalSound, ClearInternalDoes
  <2> HIDE DEF z
  <2>2. d = Emit(z) BY <1>10, <1>d DEF z
  <2>3. KeepsSessions(z, d) /\ Told(d) BY <2>1, <2>2, EmitKeeps
  <2>4. MediaGood(d) /\ Mirrors(d)
    <3>1. MediaGood(z) /\ Mirrors(z)
      BY <1>6, <1>7, <1>10, <2>1, DecksKeepMedia, SessionsKeepMirrors
      DEF KeepsSessions
    <3> QED BY <2>3, <3>1, DecksKeepMedia, SessionsKeepMirrors DEF KeepsSessions
  <2>5. d.slides = s /\ d.scr = None
    BY <1>7, <1>8, <1>10, <2>1, <2>3 DEF KeepsSessions, KeepsDecks, KeepsPassage
  <2> QED BY <1>9, <1>10, <2>3, <2>4, <2>5 DEF Good, d
<1>11. CASE ~s.blanked /\ slide.kind # "graphic"
  <2>1. d = RenderMediaSlide(told, t) BY <1>11, <1>d
  <2>2. Good(RenderMediaSlide(told, t))
    BY <1>11, <1>3, <1>4, <1>a, RenderMediaSlideGood
  <2> QED BY <2>1, <2>2 DEF d
<1>12. CASE ~s.blanked /\ slide.kind = "graphic"
  <2>1. CASE ~force /\ OnScreen(free) /\ free.st.active.tpl = slide.tpl
    <3>1. d = Update(free, text) BY <1>12, <1>d, <2>1
    <3>2. /\ KeepsSessions(free, d) /\ Told(d) /\ OnScreen(d)
          /\ d.st.active.tpl = slide.tpl /\ d.st.active.shows = text
      BY <1>2, <1>5, <2>1, <3>1, UpdateDoes DEF OnScreen
    <3>3. MediaGood(d) /\ Mirrors(d)
      BY <1>6, <1>7, <1>12, <3>2, DecksKeepMedia, SessionsKeepMirrors
      DEF KeepsSessions
    <3>4. d.slides = s /\ d.scr = None
      BY <1>7, <1>8, <2>1, <3>2 DEF KeepsSessions, KeepsDecks, KeepsPassage
    <3>5. Displays(d, slide.tpl, text) BY <3>2 DEF Displays
    <3> QED BY <1>9, <1>12, <3>2, <3>3, <3>4, <3>5 DEF Good, d
  <2>2. CASE ~(~force /\ OnScreen(free) /\ free.st.active.tpl = slide.tpl)
    <3>1. d = TakeInternal(free, slide.tpl, text, t) BY <1>12, <1>d, <2>2
    <3>2. slide.tpl \in Templates \ Drafts BY <1>1, <1>12
    <3>3. /\ KeepsSong(free, d) /\ KeepsDecks(free, d)
          /\ d.songQ = free.songQ /\ d.st.songQ = free.st.songQ
          /\ d.scr = None /\ d.st.scr = None
          /\ d.scrQ = None /\ d.st.scrQ = None
          /\ Displays(d, slide.tpl, text) /\ Told(d)
      BY <1>2, <1>5, <3>1, <3>2, TakeInternalDoes
    <3>4. MediaGood(d) /\ EndsAtEnd(d)
      BY <1>6, <1>7, <1>12, <3>3, DecksKeepMedia DEF Mirrors
    <3>5. Mirrors(d)
      BY <1>7, <3>3, <3>4 DEF Mirrors, SongMirrored, QueuesMirrored, KeepsSong
    <3>6. d.slides = s BY <1>7, <3>3 DEF KeepsDecks
    <3> QED BY <1>9, <1>12, <3>3, <3>4, <3>5, <3>6 DEF Good, d
  <2> QED BY <2>1, <2>2
<1> QED BY <1>10, <1>11, <1>12, <1>n DEF d

\* A session's fields change, its hold timer is set anew and it is rendered.
LEMMA RenderArmedGood ==
  ASSUME NEW k, NEW c \in Sound(k), NEW x \in DeckLive, NEW force \in BOOLEAN,
         NEW t \in Nat, SongMirrored(c), QueuesMirrored(c), c.st.scr = c.scr,
         LoopOwns(c), LoopRests(c), x.autoEnded => x.atEnd,
         x.blanked \/ ~force => c.scr = None,
         x.blanked \/ Slides(x.row)[x.idx].kind = "graphic" => OnlyOf(c, x.row)
  PROVE  Good(RenderSlides(ArmSlides([c EXCEPT !.slides = x]), force, t))
<1> DEFINE put == [c EXCEPT !.slides = x]
           b == /\ put.name # Preview
                /\ ~put.slides.blanked /\ ~put.slides.atEnd
                /\ ~AdvancesOnEnd(Airing(put)) /\ Airing(put).hold
           y == [x EXCEPT !.armed = b]
           d == [put EXCEPT !.slides = y]
<1>1. /\ put \in Sound(k) /\ put.slides = x /\ put.st = c.st
      /\ put.deck = c.deck
      /\ KeepsSong(c, put) /\ KeepsQueues(c, put) /\ KeepsPassage(c, put)
  BY PutSlides
<1>2. b \in BOOLEAN OBVIOUS
<1>a. ArmSlides(put) = d BY <1>1 DEF ArmSlides
<1> HIDE DEF b
<1>3. /\ y \in DeckLive /\ y.row = x.row /\ y.idx = x.idx
      /\ y.blanked = x.blanked /\ y.atEnd = x.atEnd
      /\ y.autoEnded = x.autoEnded
  BY <1>2, DeckPut, DeckParts DEF SlidesSession
<1> HIDE DEF y, put
<1>4. /\ d \in Sound(k) /\ d.slides = y /\ d.st = put.st /\ d.deck = put.deck
      /\ KeepsSong(put, d) /\ KeepsQueues(put, d) /\ KeepsPassage(put, d)
  BY <1>1, <1>3, PutSlides
<1> HIDE DEF d
<1>5. Hosts(d)
  BY <1>1, <1>3, <1>4
  DEF Hosts, SongMirrored, QueuesMirrored, EndsAtEnd, LoopOwns, LoopRests,
      KeepsSong, KeepsQueues, KeepsPassage
<1>6. Airing(d) = Slides(x.row)[x.idx] BY <1>3, <1>4 DEF Airing
<1>7. d.scr = c.scr /\ (OnlyOf(c, x.row) => OnlyOf(d, d.slides.row))
  BY <1>1, <1>3, <1>4 DEF KeepsPassage, OnlyOf
<1>8. Good(RenderSlides(d, force, t))
  BY <1>3, <1>4, <1>5, <1>6, <1>7, RenderSlidesGood
<1> QED BY <1>8, <1>a DEF put

\* What a good channel with a live deck brings to the next render of it.
LEMMA LiveDeck ==
  ASSUME NEW k, NEW c \in Sound(k), Good(c), c.slides # None
  PROVE  /\ c.slides \in DeckLive /\ c.scr = None
         /\ OnlyOf(c, c.slides.row)
         /\ c.slides.autoEnded => c.slides.atEnd
         /\ SongMirrored(c) /\ QueuesMirrored(c) /\ c.st.scr = c.scr
         /\ LoopOwns(c) /\ LoopRests(c)
BY Parts, StrayMedia
DEF Good, MediaGood, Framed, Mirrors, EndsAtEnd, Screen, DeckAlone

\* A live deck is rendered again after whatever changed in its session.
LEMMA RenderAgainGood ==
  ASSUME NEW k, NEW c \in Sound(k), Good(c), c.slides # None, NEW x \in DeckLive,
         x.row = c.slides.row, x.autoEnded => x.atEnd, NEW force \in BOOLEAN,
         NEW t \in Nat
  PROVE  Good(RenderSlides(ArmSlides([c EXCEPT !.slides = x]), force, t))
BY LiveDeck, RenderArmedGood

\* x is the session s but for what no client sees and no media hangs on.
SameSlide(x, s) == /\ x.row = s.row /\ x.idx = s.idx
                   /\ x.blanked = s.blanked /\ x.mediaAt = s.mediaAt

\* What is not on the screen of a session changes, and is told.
LEMMA SlidesPublishGood ==
  ASSUME NEW k, NEW c \in Sound(k), Good(c), c.slides # None, NEW x \in DeckLive,
         SameSlide(x, c.slides), x.autoEnded => x.atEnd
  PROVE  Good(Emit(PublishSlides([c EXCEPT !.slides = x])))
<1> DEFINE put == [c EXCEPT !.slides = x]
           p == PublishSlides(put)
           d == Emit(p)
<1>1. /\ put \in Sound(k) /\ put.slides = x /\ x # None /\ put.st = c.st
      /\ put.deck = c.deck /\ KeepsScreen(c, put)
      /\ KeepsSong(c, put) /\ KeepsQueues(c, put) /\ KeepsPassage(c, put)
  BY PutSlides
<1> HIDE DEF put
<1>2. put \in Channel BY <1>1, Parts
<1>3. p \in Sound(k) BY <1>1, PublishSlidesSound
<1> DEFINE sum == DeckSummary(put.slides)
<1>p. p = [put EXCEPT !.st.slides = sum] BY DEF PublishSlides
<1>s. sum = DeckSummary(x) BY <1>1
<1> HIDE DEF sum
<1>4. /\ p.slides = x /\ p.st.slides = sum /\ p.deck = put.deck
      /\ p.st.media = put.st.media /\ KeepsScreen(put, p)
      /\ KeepsSong(put, p) /\ KeepsQueues(put, p) /\ KeepsPassage(put, p)
  BY <1>1, <1>2, <1>p
  DEF Channel, State, KeepsScreen, KeepsSong, KeepsQueues, KeepsPassage
<1> HIDE DEF p
<1>5. KeepsSessions(p, d) /\ KeepsScreen(p, d) /\ Told(d)
  BY <1>3, EmitKeeps
<1> HIDE DEF d
<1>6. /\ d.slides = x /\ d.st.slides = DeckSummary(x) /\ d.deck = c.deck
      /\ d.st.media = c.st.media
  BY <1>1, <1>4, <1>5, <1>s DEF KeepsSessions, KeepsDecks
<1>7. MediaGood(d)
  <2>1. DeckShown(d) /\ LoopShown(d) BY <1>1, <1>6 DEF DeckShown, LoopShown
  <2>2. LoopOwns(d) /\ LoopRests(d)
    BY <1>6 DEF Good, MediaGood, Framed, LoopOwns, LoopRests
  <2>3. NoStray(d)
    BY <1>1, <1>6 DEF Good, MediaGood, Framed, NoStray, SameSlide
  <2> QED BY <2>1, <2>2, <2>3 DEF MediaGood, Framed
<1>8. Mirrors(d)
  BY <1>1, <1>4, <1>5, <1>6
  DEF Good, Mirrors, SongMirrored, QueuesMirrored, EndsAtEnd, KeepsSessions,
      KeepsSong, KeepsQueues, KeepsPassage
<1>9. KeepsScreen(c, d) /\ d.scr = None /\ d.song = c.song
  <2>1. c.scr = None BY LiveDeck
  <2> QED BY <1>1, <1>4, <1>5, <2>1
    DEF KeepsScreen, KeepsSessions, KeepsSong, KeepsPassage
<1>10. Screen(d)
  <2>1. Airing(d) = Airing(c) BY <1>6 DEF Airing, SameSlide
  <2>2. OnScreen(d) <=> OnScreen(c) BY <1>9 DEF OnScreen, KeepsScreen
  <2>3. \A tpl, text : Displays(c, tpl, text) => Displays(d, tpl, text)
    BY <1>9, <2>2 DEF Displays, KeepsScreen
  <2>4. SlidesShown(d)
    BY <1>6, <1>9, <2>1, <2>2, <2>3 DEF Good, Screen, SlidesShown, SameSlide
  <2> QED BY <1>1, <1>6, <1>9, <2>4
    DEF Screen, ScriptureShown, DeckAlone, DarkIfBlank, SongShown, AutoOutPending
<1> QED BY <1>5, <1>7, <1>8, <1>10 DEF Good, d, p, put

\* A session's bookkeeping changes unseen.
LEMMA SlidesNoteGood ==
  ASSUME NEW k, NEW c \in Sound(k), Good(c), c.slides # None, NEW x \in DeckLive,
         SameSlide(x, c.slides), x.atEnd = c.slides.atEnd,
         x.autoEnded = c.slides.autoEnded, x.armed = c.slides.armed
  PROVE  Good([c EXCEPT !.slides = x])
<1> DEFINE d == [c EXCEPT !.slides = x]
<1>1. /\ d.slides = x /\ x # None /\ d.st = c.st /\ d.sent = c.sent
      /\ d.deck = c.deck /\ KeepsScreen(c, d)
      /\ KeepsSong(c, d) /\ KeepsQueues(c, d) /\ KeepsPassage(c, d)
  BY PutSlides
<1> HIDE DEF d
<1>2. c.slides.autoEnded => c.slides.atEnd BY LiveDeck
<1>3. MediaGood(d)
  <2>1. DeckShown(d) /\ LoopShown(d)
    BY <1>1
    DEF Good, MediaGood, Framed, DeckShown, LoopShown, DeckSummary, SameSlide
  <2>2. LoopOwns(d) /\ LoopRests(d)
    BY <1>1 DEF Good, MediaGood, Framed, LoopOwns, LoopRests
  <2>3. NoStray(d)
    BY <1>1 DEF Good, MediaGood, Framed, NoStray, SameSlide
  <2> QED BY <2>1, <2>2, <2>3 DEF MediaGood, Framed
<1>4. Mirrors(d)
  BY <1>1, <1>2
  DEF Good, Mirrors, SongMirrored, QueuesMirrored, EndsAtEnd, KeepsSong,
      KeepsQueues, KeepsPassage
<1>5. Screen(d)
  <2>1. Airing(d) = Airing(c) BY <1>1 DEF Airing, SameSlide
  <2>2. OnScreen(d) <=> OnScreen(c) BY <1>1 DEF OnScreen
  <2>3. \A tpl, text : Displays(c, tpl, text) => Displays(d, tpl, text)
    BY <1>1, <2>2 DEF Displays
  <2>4. SlidesShown(d)
    BY <1>1, <2>1, <2>2, <2>3
    DEF Good, Screen, SlidesShown, SameSlide, KeepsSong
  <2>5. d.scr = None BY <1>1, LiveDeck DEF KeepsPassage
  <2> QED BY <1>1, <2>4, <2>5
    DEF Screen, ScriptureShown, DeckAlone, DarkIfBlank, SongShown, AutoOutPending
<1>6. Told(d) BY <1>1 DEF Good, Told
<1> QED BY <1>3, <1>4, <1>5, <1>6 DEF Good, d

\* A deck's first render: whatever was up goes, or gives way to it.
LEMMA SlidesUpGood ==
  ASSUME NEW k, NEW c \in Sound(k), MediaGood(c), Mirrors(c),
         NEW deck \in DeckLive, ~deck.autoEnded, ~deck.blanked, NEW t \in Nat
  PROVE  Good(SlidesUp(c, deck, t))
<1> DEFINE slide == Slides(deck.row)[deck.idx]
           free == Replaced(c, slide)
           d == RenderSlides(ArmSlides([free EXCEPT !.slides = deck]), TRUE, t)
<1>u. SlidesUp(c, deck, t) = SetLiveRow(d, deck.row) BY DEF SlidesUp
<1>1. /\ free \in Sound(k) /\ SameGraphics(c, free)
      /\ LoopOwns(free) /\ LoopRests(free)
      /\ slide.kind = "graphic" => NoSlideMedia(free)
  <2>1. CASE c.slides = None \/ slide.kind # "graphic"
    <3>1. free = c BY <2>1 DEF Replaced
    <3>2. c.slides = None => NoSlideMedia(c)
      BY StrayMedia DEF MediaGood, Framed
    <3> QED BY <2>1, <3>1, <3>2 DEF SameGraphics, MediaGood, Framed
  <2>2. CASE c.slides # None /\ slide.kind = "graphic"
    <3>1. free = ReleaseMedia(c, c.slides.row) BY <2>2 DEF Replaced
    <3>2. OnlyOf(c, c.slides.row) BY <2>2, StrayMedia DEF MediaGood, Framed
    <3> QED BY <3>1, <3>2, ReleaseMediaDoes DEF MediaGood, Framed
  <2> QED BY <2>1, <2>2
<1> HIDE DEF free
<1>2. SongMirrored(free) /\ QueuesMirrored(free) /\ free.st.scr = free.scr
  BY <1>1 DEF Mirrors, SongMirrored, QueuesMirrored, SameGraphics
<1>3. slide.kind = "graphic" => OnlyOf(free, deck.row)
  BY <1>1 DEF NoSlideMedia, OnlyOf
<1>4. TRUE \in BOOLEAN OBVIOUS
<1>5. Good(d) BY <1>1, <1>2, <1>3, <1>4, RenderArmedGood
<1>6. d \in Sound(k)
  <2>1. /\ [free EXCEPT !.slides = deck] \in Sound(k)
        /\ [free EXCEPT !.slides = deck].slides = deck
    BY <1>1, PutSlides
  <2>2. LET a == ArmSlides([free EXCEPT !.slides = deck])
        IN  a \in Sound(k) /\ a.slides \in DeckLive
    BY <2>1, ArmSlidesSound
  <2> QED BY <1>4, <2>2, RenderSlidesSound
<1> HIDE DEF d
<1> QED BY <1>u, <1>5, <1>6, SetLiveRowGood

\* start() ends the song, live or queued, and puts the deck up.
LEMMA SlidesStartGood ==
  ASSUME NEW k, NEW c \in Sound(k), Good(c), NEW row \in DeckRows, NEW i \in Nat,
         NEW t \in Nat
  PROVE  Good(SlidesStart(c, row, i, t))
<1> DEFINE torn == TearDownSong(c)
           noSong == IF c.song = None THEN c ELSE Emit(torn)
           free == ClearQueuedSong(noSong)
           deck == NewDeck(row, i, FALSE)
<1>1. /\ torn \in Sound(k) /\ KeepsQueues(c, torn) /\ KeepsPassage(c, torn)
      /\ KeepsDecks(c, torn)
      /\ SongMirrored(c) => SongMirrored(torn)
  BY DropsSound, DropsDo
<1> HIDE DEF torn
<1>2. MediaGood(torn) /\ EndsAtEnd(torn)
  BY <1>1, DecksKeepMedia DEF Good, Mirrors
<1>3. Mirrors(torn)
  BY <1>1, <1>2
  DEF Good, Mirrors, QueuesMirrored, KeepsQueues, KeepsPassage
<1>4. /\ noSong \in Sound(k) /\ MediaGood(noSong) /\ Mirrors(noSong)
  <2>1. Emit(torn) \in Sound(k) /\ KeepsSessions(torn, Emit(torn))
    BY <1>1, EmitKeeps
  <2>2. MediaGood(Emit(torn)) /\ Mirrors(Emit(torn))
    BY <1>2, <1>3, <2>1, DecksKeepMedia, SessionsKeepMirrors DEF KeepsSessions
  <2> QED BY <2>1, <2>2 DEF Good
<1> HIDE DEF noSong
<1>5. /\ free \in Sound(k) /\ KeepsSong(noSong, free)
      /\ KeepsPassage(noSong, free) /\ KeepsDecks(noSong, free)
      /\ QueuesMirrored(noSong) => QueuesMirrored(free)
  BY <1>4, ClearQueuedSongGood
<1> HIDE DEF free
<1>6. MediaGood(free) /\ EndsAtEnd(free)
  BY <1>4, <1>5, DecksKeepMedia DEF Mirrors
<1>7. Mirrors(free)
  BY <1>4, <1>5, <1>6 DEF Mirrors, SongMirrored, KeepsSong, KeepsPassage
<1>8. ASSUME i \in DOMAIN Slides(row) PROVE Good(SlidesUp(free, deck, t))
  <2>1. deck \in DeckLive BY <1>8, NewDeckLive
  <2>2. ~deck.autoEnded /\ ~deck.blanked BY DEF NewDeck
  <2> HIDE DEF deck
  <2> QED BY <1>5, <1>6, <1>7, <2>1, <2>2, SlidesUpGood
<1> QED BY <1>8 DEF SlidesStart, free, noSong, torn

\* end() takes the deck's media and the graphic down and tells.
LEMMA SlidesEndGood ==
  ASSUME NEW k, NEW c \in Sound(k), Good(c)
  PROVE  LET d == SlidesEnd(c)
         IN  /\ Good(d)
             /\ c.slides # None => Idle(d)
<1> DEFINE bare == [c EXCEPT !.slides = None]
           gone == ShowLoopSummary(bare)
           freed == ReleaseMedia(gone, c.slides.row)
           cleared == Clear(freed, FALSE)
           d == SlidesEnd(c)
<1>c. c \in Channel BY Parts
<1>1. CASE c.slides = None BY <1>1 DEF SlidesEnd
<1>2. CASE c.slides # None
  <2>d. d = IF cleared.st.active = None THEN Emit(cleared) ELSE cleared
    BY <1>2 DEF SlidesEnd
  <2>1. /\ bare \in Sound(k) /\ bare.slides = None
        /\ KeepsScreen(c, bare) /\ KeepsSong(c, bare)
        /\ KeepsQueues(c, bare) /\ KeepsPassage(c, bare)
        /\ bare.deck = c.deck /\ bare.st = c.st
    BY <1>c, Put
    DEF Channel, KeepsScreen, KeepsSong, KeepsQueues, KeepsPassage
  <2> HIDE DEF bare
  <2>2. /\ gone \in Sound(k) /\ SameGraphics(bare, gone) /\ SameMedia(bare, gone)
        /\ gone.st.slides = IF bare.deck # None THEN LoopSummary(bare.deck)
                                                ELSE None
    BY <2>1, ShowLoopSummarySound, ShowLoopSummaryDoes
  <2> HIDE DEF gone
  <2>3. /\ LoopShown(gone) /\ DeckShown(gone) /\ LoopOwns(gone)
        /\ LoopRests(gone) /\ gone.slides = None
    BY <2>1, <2>2
    DEF SameGraphics, SameMedia, LoopShown, DeckShown, LoopOwns, LoopRests,
        Good, MediaGood, Framed
  <2>4. OnlyOf(gone, c.slides.row)
    <3>1. OnlyOf(c, c.slides.row) BY <1>2, LiveDeck
    <3> QED BY <2>1, <2>2, <3>1 DEF OnlyOf, SameMedia
  <2>5. /\ freed \in Sound(k) /\ SameGraphics(gone, freed)
        /\ DeckShown(freed) /\ LoopShown(freed) /\ LoopOwns(freed)
        /\ LoopRests(freed) /\ NoSlideMedia(freed)
    BY <2>2, <2>3, <2>4, ReleaseMediaDoes
  <2> HIDE DEF freed
  <2>6. MediaGood(freed)
    BY <2>5 DEF MediaGood, Framed, NoStray, NoSlideMedia
  <2>7. Mirrors(freed)
    BY <2>1, <2>2, <2>5
    DEF Good, Mirrors, SongMirrored, QueuesMirrored, EndsAtEnd, SameGraphics,
        KeepsSong, KeepsQueues, KeepsPassage
  <2>8. /\ cleared \in Sound(k) /\ MediaGood(cleared) /\ Mirrors(cleared)
        /\ Idle(cleared)
        /\ cleared.st.active # None => Told(cleared)
    BY <2>5, <2>6, <2>7, ClearDoes
  <2> HIDE DEF cleared, d
  <2>9. /\ KeepsSessions(cleared, d) /\ KeepsScreen(cleared, d) /\ Told(d)
    BY <2>d, <2>8, EmitKeeps
    DEF KeepsSessions, KeepsSong, KeepsQueues, KeepsPassage, KeepsDecks,
        KeepsScreen
  <2>10. MediaGood(d) /\ Mirrors(d)
    BY <2>8, <2>9, DecksKeepMedia, SessionsKeepMirrors DEF KeepsSessions
  <2>11. Idle(d)
    BY <2>8, <2>9
    DEF Idle, OnScreen, KeepsSessions, KeepsSong, KeepsPassage, KeepsDecks,
        KeepsScreen
  <2> QED BY <1>2, <2>9, <2>10, <2>11, IdleScreen DEF Good, d
<1> QED BY <1>1, <1>2

\* Moving a live deck to slide i of its row.
LEMMA SlidesToGood ==
  ASSUME NEW k, NEW c \in Sound(k), Good(c), c.slides # None,
         NEW i \in DOMAIN Slides(c.slides.row), NEW t \in Nat
  PROVE  Good(SlidesTo(c, i, t))
<1> DEFINE x == [c.slides EXCEPT !.idx = i, !.atEnd = FALSE,
                                 !.blanked = FALSE, !.autoEnded = FALSE]
<1>1. c.slides \in DeckLive BY LiveDeck
<1>2. x \in DeckLive BY <1>1, DeckPut
<1>3. x.row = c.slides.row /\ ~x.autoEnded
  BY <1>1, DeckParts DEF SlidesSession
<1>4. c.slides.blanked \in BOOLEAN BY <1>1, DeckParts DEF SlidesSession
<1>5. SlidesTo(c, i, t)
        = RenderSlides(ArmSlides([c EXCEPT !.slides = x]), c.slides.blanked, t)
  BY DEF SlidesTo
<1> HIDE DEF x
<1> QED BY <1>2, <1>3, <1>4, <1>5, RenderAgainGood

\* slidesSession.advance(), off the end of the row included.
LEMMA SlidesAdvanceGood ==
  ASSUME NEW k, NEW c \in Sound(k), Good(c), NEW d \in {-1, 1}, NEW t \in Nat
  PROVE  Good(SlidesAdvance(c, d, t))
<1> DEFINE s == c.slides
           last == Len(Slides(s.row))
           e == [s EXCEPT !.atEnd = TRUE, !.autoEnded = FALSE, !.armed = FALSE]
           n == [s EXCEPT !.autoEnded = FALSE]
           ended == [c EXCEPT !.slides = e]
           back == IF s.idx > 1 THEN s.idx - 1 ELSE 1
<1>1. CASE c.slides = None BY <1>1 DEF SlidesAdvance
<1>2. CASE c.slides # None
  <2>1. s \in DeckLive BY <1>2, Parts
  <2>2. s.idx \in 1..last /\ last \in Nat /\ DOMAIN Slides(s.row) = 1..last
    BY <2>1, DeckParts
  <2>3. s.idx < last => Good(SlidesTo(c, s.idx + 1, t))
    BY <1>2, <2>2, SlidesToGood
  <2>4. Good(SlidesTo(c, 1, t)) BY <1>2, <2>2, SlidesToGood
  <2>5. Good(SlidesTo(c, back, t)) BY <1>2, <2>2, SlidesToGood
  <2>6. Good(Emit(PublishSlides(ended)))
    <3>1. e \in DeckLive BY <2>1, DeckPut
    <3>2. SameSlide(e, s) /\ ~e.autoEnded
      BY <2>1, DeckParts DEF SlidesSession, SameSlide
    <3> HIDE DEF e
    <3> QED BY <1>2, <3>1, <3>2, SlidesPublishGood
  <2>7. Good(SlidesEnd(c)) BY SlidesEndGood
  <2>8. ASSUME ~s.atEnd PROVE Good([c EXCEPT !.slides = n])
    <3>1. ~s.autoEnded BY <1>2, <2>8, LiveDeck
    <3>2. n \in DeckLive BY <2>1, DeckPut
    <3>3. /\ SameSlide(n, s) /\ n.atEnd = s.atEnd /\ n.armed = s.armed
          /\ n.autoEnded = s.autoEnded
      BY <2>1, <3>1, DeckParts DEF SlidesSession, SameSlide
    <3> HIDE DEF n
    <3> QED BY <1>2, <3>2, <3>3, SlidesNoteGood
  <2>9. SlidesAdvance(c, d, t) =
          CASE d > 0 /\ s.idx < last -> SlidesTo(c, s.idx + 1, t)
            [] d > 0 /\ s.idx = last /\ DeckInfo[s.row].loop -> SlidesTo(c, 1, t)
            [] d > 0 /\ s.idx = last /\ ~DeckInfo[s.row].loop /\ ~s.atEnd ->
                 Emit(PublishSlides(ended))
            [] d > 0 /\ s.idx = last /\ ~DeckInfo[s.row].loop /\ s.atEnd ->
                 SlidesEnd(c)
            [] d < 0 /\ (s.idx > 1 \/ s.atEnd) -> SlidesTo(c, back, t)
            [] OTHER -> [c EXCEPT !.slides = n]
    BY <1>2 DEF SlidesAdvance
  <2> HIDE DEF back, last, e, n, ended
  <2>10. \/ d > 0 /\ s.idx < last
         \/ d > 0 /\ s.idx = last
         \/ d < 0 /\ (s.idx > 1 \/ s.atEnd)
         \/ d < 0 /\ ~s.atEnd
    BY <2>2
  <2> QED BY <2>2, <2>3, <2>4, <2>5, <2>6, <2>7, <2>8, <2>9, <2>10
<1> QED BY <1>1, <1>2

\* goTo() retries the slide even if it failed before.
LEMMA SlidesGoToGood ==
  ASSUME NEW k, NEW c \in Sound(k), Good(c), NEW i \in Nat, NEW t \in Nat
  PROVE  Good(SlidesGoTo(c, i, t))
<1> DEFINE x == [c.slides EXCEPT !.failed = @ \ {i}]
           put == [c EXCEPT !.slides = x]
<1>1. CASE c.slides = None \/ i \notin DOMAIN Slides(c.slides.row)
  BY <1>1 DEF SlidesGoTo
<1>2. CASE c.slides # None /\ i \in DOMAIN Slides(c.slides.row)
  <2>d. SlidesGoTo(c, i, t) = SlidesTo(put, i, t) BY <1>2 DEF SlidesGoTo
  <2>1. c.slides \in DeckLive BY <1>2, Parts
  <2>2. x \in DeckLive BY <2>1, DeckPut, DeckParts
  <2>3. /\ SameSlide(x, c.slides) /\ x.atEnd = c.slides.atEnd
        /\ x.autoEnded = c.slides.autoEnded /\ x.armed = c.slides.armed
        /\ x.row = c.slides.row
    BY <2>1, DeckParts DEF SlidesSession, SameSlide
  <2> HIDE DEF x
  <2>4. put \in Sound(k) /\ put.slides = x /\ x # None BY <2>2, PutSlides
  <2>5. Good(put) BY <1>2, <2>2, <2>3, SlidesNoteGood
  <2> HIDE DEF put
  <2>6. i \in DOMAIN Slides(put.slides.row) BY <1>2, <2>3, <2>4
  <2> QED BY <2>d, <2>4, <2>5, <2>6, SlidesToGood
<1> QED BY <1>1, <1>2

\* blank() and back.
LEMMA SlidesBlankGood ==
  ASSUME NEW k, NEW c \in Sound(k), Good(c), NEW t \in Nat
  PROVE  Good(SlidesBlank(c, t))
<1> DEFINE x == [c.slides EXCEPT !.blanked = ~@]
<1>1. CASE c.slides = None BY <1>1 DEF SlidesBlank
<1>2. CASE c.slides # None
  <2>d. SlidesBlank(c, t)
          = RenderSlides(ArmSlides([c EXCEPT !.slides = x]), TRUE, t)
    BY <1>2 DEF SlidesBlank
  <2>1. c.slides \in DeckLive /\ (c.slides.autoEnded => c.slides.atEnd)
    BY <1>2, LiveDeck
  <2>2. x \in DeckLive BY <2>1, DeckPut
  <2>3. x.row = c.slides.row /\ (x.autoEnded => x.atEnd)
    BY <2>1, DeckParts DEF SlidesSession
  <2>4. TRUE \in BOOLEAN OBVIOUS
  <2> HIDE DEF x
  <2> QED BY <1>2, <2>d, <2>2, <2>3, <2>4, RenderAgainGood
<1> QED BY <1>1, <1>2

\* autoAdvance(), after bookkeeping of the session that nobody sees.
LEMMA SlidesAutoAdvanceGood ==
  ASSUME NEW k, NEW c \in Sound(k), Good(c), c.slides # None, NEW x \in DeckLive,
         SameSlide(x, c.slides), x.autoEnded => x.atEnd, NEW t \in Nat
  PROVE  Good(SlidesAutoAdvance([c EXCEPT !.slides = x], t))
<1> DEFINE put == [c EXCEPT !.slides = x]
           next == ((x.idx - 1 + Min(StepsAhead(x))) % Len(Slides(x.row))) + 1
           e == [x EXCEPT !.atEnd = TRUE, !.autoEnded = TRUE, !.armed = FALSE]
           s == [x EXCEPT !.idx = next]
<1>1. put \in Sound(k) /\ put.slides = x BY PutSlides
<1>2. \A y : [put EXCEPT !.slides = y] = [c EXCEPT !.slides = y]
  BY Parts DEF Channel
<1> HIDE DEF put
<1>3. CASE StepsAhead(x) = {}
  <2>1. SlidesAutoAdvance(put, t)
          = Emit(PublishSlides([put EXCEPT !.slides = e]))
    BY <1>1, <1>3 DEF SlidesAutoAdvance
  <2>2. e \in DeckLive BY DeckPut
  <2>3. SameSlide(e, c.slides) /\ e.atEnd
    BY DeckParts DEF SlidesSession, SameSlide
  <2> HIDE DEF e
  <2>4. Good(Emit(PublishSlides([c EXCEPT !.slides = e])))
    BY <2>2, <2>3, SlidesPublishGood
  <2> QED BY <1>2, <2>1, <2>4 DEF put
<1>4. CASE StepsAhead(x) # {}
  <2>1. SlidesAutoAdvance(put, t)
          = RenderSlides(ArmSlides([put EXCEPT !.slides = s]), FALSE, t)
    BY <1>1, <1>4 DEF SlidesAutoAdvance
  <2>2. next \in DOMAIN Slides(x.row) BY <1>4, NextSlideInDeck
  <2> HIDE DEF next
  <2>3. s \in DeckLive BY <2>2, DeckPut
  <2>4. s.row = c.slides.row /\ (s.autoEnded => s.atEnd)
    BY DeckParts DEF SlidesSession, SameSlide
  <2>5. FALSE \in BOOLEAN OBVIOUS
  <2> HIDE DEF s
  <2>6. Good(RenderSlides(ArmSlides([c EXCEPT !.slides = s]), FALSE, t))
    BY <2>3, <2>4, <2>5, RenderAgainGood
  <2> QED BY <1>2, <2>1, <2>6 DEF put
<1> QED BY <1>3, <1>4 DEF put

\* The hold timer of a slides deck.
LEMMA SlidesTimerGood ==
  ASSUME NEW k, NEW c \in Sound(k), Good(c), c.slides # None, NEW t \in Nat
  PROVE  Good(SlidesTimer(c, t))
<1> DEFINE x == [c.slides EXCEPT !.armed = FALSE]
<1>1. c.slides \in DeckLive /\ (c.slides.autoEnded => c.slides.atEnd)
  BY LiveDeck
<1>2. x \in DeckLive BY <1>1, DeckPut
<1>3. SameSlide(x, c.slides) /\ (x.autoEnded => x.atEnd)
  BY <1>1, DeckParts DEF SlidesSession, SameSlide
<1>d. SlidesTimer(c, t) = SlidesAutoAdvance([c EXCEPT !.slides = x], t)
  BY DEF SlidesTimer
<1> HIDE DEF x
<1> QED BY <1>2, <1>3, <1>d, SlidesAutoAdvanceGood

\* A renderer's reports to a slides deck.
LEMMA SlidesReportsGood ==
  ASSUME NEW k, NEW c \in Sound(k), Good(c), NEW at, NEW t \in Nat
  PROVE  /\ Good(SlidesMediaEnded(c, at, t))
         /\ Good(SlidesMediaFailed(c, at, t))
         /\ Good(SlidesMediaPlaying(c, at))
<1> DEFINE d == [c.slides EXCEPT !.playedOut = TRUE]
           p == [c.slides EXCEPT !.playedOut = FALSE]
           f == [c.slides EXCEPT !.playedOut = TRUE,
                                 !.failed = @ \cup {c.slides.idx}]
<1>1. CASE c.slides = None
  BY <1>1 DEF SlidesMediaEnded, SlidesMediaFailed, SlidesMediaPlaying, MovesOnEnd
<1>2. CASE c.slides # None
  <2>1. c.slides \in DeckLive /\ (c.slides.autoEnded => c.slides.atEnd)
    BY <1>2, LiveDeck
  <2>2. d \in DeckLive /\ p \in DeckLive BY <2>1, DeckPut
  <2>3. f \in DeckLive
    <3>1. d.failed = c.slides.failed BY <2>1, DeckParts DEF SlidesSession
    <3>2. c.slides.failed \cup {c.slides.idx} \in SUBSET Nat BY <2>1, DeckParts
    <3> QED BY <2>1, <2>2, <3>1, <3>2, DeckPut
  <2>4. /\ SameSlide(d, c.slides) /\ (d.autoEnded => d.atEnd)
        /\ SameSlide(f, c.slides) /\ (f.autoEnded => f.atEnd)
        /\ SameSlide(p, c.slides) /\ p.atEnd = c.slides.atEnd
        /\ p.autoEnded = c.slides.autoEnded /\ p.armed = c.slides.armed
    BY <2>1, DeckParts DEF SlidesSession, SameSlide
  <2> HIDE DEF d, p, f
  <2>5. /\ Good(SlidesAutoAdvance([c EXCEPT !.slides = d], t))
        /\ Good(SlidesAutoAdvance([c EXCEPT !.slides = f], t))
    BY <1>2, <2>2, <2>3, <2>4, SlidesAutoAdvanceGood
  <2>6. Good([c EXCEPT !.slides = p])
    BY <1>2, <2>2, <2>4, SlidesNoteGood
  <2>7. SlidesMediaEnded(c, at, t) = IF MovesOnEnd(c, at)
          THEN SlidesAutoAdvance([c EXCEPT !.slides = d], t) ELSE c
    BY DEF SlidesMediaEnded, d
  <2>8. SlidesMediaFailed(c, at, t) = IF MovesOnEnd(c, at)
          THEN SlidesAutoAdvance([c EXCEPT !.slides = f], t) ELSE c
    <3>1. [c EXCEPT !.slides.playedOut = TRUE,
                    !.slides.failed = @ \cup {c.slides.idx}]
            = [c EXCEPT !.slides = f]
      BY <2>1, Parts, DeckParts DEF Channel, SlidesSession, f
    <3> QED BY <3>1 DEF SlidesMediaFailed
  <2>9. SlidesMediaPlaying(c, at) = IF c.slides # None /\ c.slides.mediaAt = at
          THEN [c EXCEPT !.slides = p] ELSE c
    BY DEF SlidesMediaPlaying, p
  <2> QED BY <2>5, <2>6, <2>7, <2>8, <2>9
<1> QED BY <1>1, <1>2

----------------------------------------------------------------------------
(***************************************************************************)
(* What spans both slots, and two channels.                                *)
(***************************************************************************)
\* A deck goes from preview to program, off the one and up on the other.
LEMMA SlidesPromoteGood ==
  ASSUME NEW j, NEW from \in Sound(j), Good(from), from.slides # None,
         NEW k, NEW to \in Sound(k), Good(to), NEW t \in Nat
  PROVE  /\ Good(SlidesPromote(from, to, t)[1])
         /\ Good(SlidesPromote(from, to, t)[2])
<1> DEFINE s == from.slides
           deck == NewDeck(s.row, s.idx, s.atEnd)
<1>1. s \in DeckLive BY Parts
<1>2. s.atEnd \in BOOLEAN BY <1>1, DeckParts DEF SlidesSession
<1>3. deck \in DeckLive BY <1>1, <1>2, DeckParts, NewDeckLive
<1>4. ~deck.autoEnded /\ ~deck.blanked BY DEF NewDeck
<1>5. SlidesPromote(from, to, t) = <<SlidesEnd(from), SlidesUp(to, deck, t)>>
  BY DEF SlidesPromote
<1> HIDE DEF deck
<1>6. Good(SlidesUp(to, deck, t)) BY <1>3, <1>4, SlidesUpGood DEF Good
<1>7. Good(SlidesEnd(from)) BY SlidesEndGood
<1> QED BY <1>5, <1>6, <1>7

\* A queue that is dropped leaves the rest of the channel mirrored.
LEMMA QueuesGone ==
  ASSUME NEW k, NEW c \in Sound(k), MediaGood(c), Mirrors(c)
  PROVE  /\ LET d == DropSongQueue(c)
            IN  d \in Sound(k) /\ MediaGood(d) /\ Mirrors(d)
         /\ LET d == DropScriptureQueue(c)
            IN  d \in Sound(k) /\ MediaGood(d) /\ Mirrors(d)
<1> DEFINE q == DropSongQueue(c)
           p == DropScriptureQueue(c)
<1>1. /\ q \in Sound(k) /\ KeepsSong(c, q) /\ KeepsPassage(c, q)
      /\ KeepsDecks(c, q) /\ q.songQ = None /\ q.scrQ = c.scrQ
      /\ q.st.scrQ = c.st.scrQ
      /\ c.st.songQ = c.songQ => q.st.songQ = None
  BY DropsSound, DropsDo
<1>2. /\ p \in Sound(k) /\ KeepsSong(c, p) /\ KeepsPassage(c, p)
      /\ KeepsDecks(c, p) /\ p.scrQ = None /\ p.songQ = c.songQ
      /\ p.st.songQ = c.st.songQ
      /\ c.st.scrQ = c.scrQ => p.st.scrQ = None
  BY DropsSound, DropsDo
<1> HIDE DEF q, p
<1>3. MediaGood(q) /\ MediaGood(p) BY <1>1, <1>2, DecksKeepMedia
<1>4. Mirrors(q)
  BY <1>1
  DEF Mirrors, SongMirrored, QueuesMirrored, EndsAtEnd, KeepsSong,
      KeepsPassage, KeepsDecks
<1>5. Mirrors(p)
  BY <1>2
  DEF Mirrors, SongMirrored, QueuesMirrored, EndsAtEnd, KeepsSong,
      KeepsPassage, KeepsDecks
<1> QED BY <1>1, <1>2, <1>3, <1>4, <1>5 DEF q, p

\* What preview's graphic leaves behind: its queue went with an intro, and the
\* clear that follows tells of that too.
LEMMA LeftBehindGood ==
  ASSUME NEW k, NEW c \in Sound(k), Good(c), c.st.active # None,
         NEW songToo \in BOOLEAN, NEW scrToo \in BOOLEAN
  PROVE  LET sent == IF songToo THEN DropSongQueue(c) ELSE c
             left == IF scrToo THEN DropScriptureQueue(sent) ELSE sent
         IN  Good(Clear(left, FALSE))
<1> DEFINE sent == IF songToo THEN DropSongQueue(c) ELSE c
           left == IF scrToo THEN DropScriptureQueue(sent) ELSE sent
           ended == EndLiveSong(left)
           d == Clear(left, FALSE)
<1>m. MediaGood(c) /\ Mirrors(c) BY DEF Good
<1>1. /\ sent \in Sound(k) /\ MediaGood(sent) /\ Mirrors(sent)
      /\ sent.st.active = c.st.active
  BY <1>m, QueuesGone, DropsDo DEF KeepsScreen
<1> HIDE DEF sent
<1>2. /\ left \in Sound(k) /\ MediaGood(left) /\ Mirrors(left)
      /\ left.st.active # None
  BY <1>1, QueuesGone, DropsDo DEF KeepsScreen
<1> HIDE DEF left
<1>3. FALSE \in BOOLEAN OBVIOUS
<1>4. /\ MediaGood(d) /\ Mirrors(d) /\ Idle(d)
      /\ left.song = None => Told(d)
  BY <1>2, <1>3, ClearDoes
<1>5. left.song # None => Told(d)
  <2>1. /\ ended \in Sound(k) /\ MediaGood(ended) /\ Mirrors(ended)
        /\ left.song # None => Idle(ended) /\ Told(ended)
    BY <1>2, EndLiveSongDoes
  <2>2. d = ClearSlot(ended, FALSE) BY DEF Clear
  <2> HIDE DEF ended, d
  <2>3. ended.scr = None => Tells(ended, d)
    BY <1>3, <2>1, <2>2, ClearSlotDoes
  <2> QED BY <2>1, <2>3 DEF Idle, Tells
<1>6. Good(d) BY <1>4, <1>5, IdleScreen DEF Good
<1> QED BY <1>6 DEF d, left, sent

\* The slot on the destination gives way to the graphic that comes: its deck
\* and its passage end, and its queue is the one that comes along.
LEMMA MakesWay ==
  ASSUME NEW k, NEW c \in Sound(k), Good(c), c.song = None,
         NEW q \in SongRows \cup {None}
  PROVE  LET queued == [CancelAutoOut(c) EXCEPT !.songQ = q, !.st.songQ = q]
             free == SlidesDropAll(DropScriptureLive(queued))
         IN  /\ free \in Sound(k) /\ MediaGood(free) /\ SongMirrored(free)
             /\ free.song = None /\ free.slides = None
             /\ free.scr = None /\ free.st.scr = None
             /\ free.songQ = q /\ free.st.songQ = q
<1> DEFINE queued == [CancelAutoOut(c) EXCEPT !.songQ = q, !.st.songQ = q]
           dropped == DropScriptureLive(queued)
           free == SlidesDropAll(dropped)
<1>c. c \in Channel BY Parts
<1>1. queued \in Sound(k) BY CancelAutoOutSound, Put, StPut
<1>2. /\ KeepsSong(c, queued) /\ KeepsPassage(c, queued)
      /\ KeepsDecks(c, queued) /\ queued.songQ = q /\ queued.st.songQ = q
  BY <1>c
  DEF CancelAutoOut, Channel, State, KeepsSong, KeepsPassage, KeepsDecks
<1> HIDE DEF queued
<1>3. MediaGood(queued) BY <1>2, DecksKeepMedia DEF Good
<1>4. /\ dropped \in Sound(k)
      /\ KeepsSong(queued, dropped) /\ KeepsQueues(queued, dropped)
      /\ KeepsDecks(queued, dropped) /\ dropped.scr = None
      /\ queued.st.scr = queued.scr => dropped.st.scr = None
  BY <1>1, DropsSound, DropsDo
<1> HIDE DEF dropped
<1>5. MediaGood(dropped) BY <1>3, <1>4, DecksKeepMedia
<1>6. /\ free \in Sound(k) /\ KeepsSong(dropped, free)
      /\ KeepsQueues(dropped, free) /\ KeepsPassage(dropped, free)
      /\ free.slides = None /\ MediaGood(free)
  BY <1>4, <1>5, SlidesDropAllDoes
<1> HIDE DEF free
<1>7. /\ SongMirrored(free) /\ free.song = None
      /\ free.scr = None /\ free.st.scr = None
      /\ free.songQ = q /\ free.st.songQ = q
  BY <1>2, <1>4, <1>6
  DEF Good, Mirrors, SongMirrored, KeepsSong, KeepsPassage, KeepsQueues
<1> QED BY <1>6, <1>7 DEF free, dropped, queued

\* takePvwToPgm()'s graphic, on a destination whose song has ended.
LEMMA PromoteGraphicGood ==
  ASSUME NEW j, NEW from \in Sound(j), Good(from), from.st.active # None,
         NEW k, NEW to \in Sound(k), Good(to), to.song = None,
         ~RefusesDraft(to, from.st.active.tpl), NEW t \in Nat
  PROVE  /\ Good(PromoteGraphic(from, to, t)[1])
         /\ Good(PromoteGraphic(from, to, t)[2])
<1> DEFINE g == from.st.active
           songQ == IF g.ctx = "intro" THEN from.songQ ELSE None
           scrQ == IF g.ctx = "scrIntro" THEN from.scrQ ELSE None
           queued == [CancelAutoOut(to) EXCEPT !.songQ = songQ, !.st.songQ = songQ]
           free == SlidesDropAll(DropScriptureLive(queued))
           h == [g EXCEPT !.phase = "in", !.at = t]
           row == IF from.source = None THEN free.st.liveRow ELSE from.source
           reads == IF g.tpl \in AutoOut
                      THEN free.lookups \cup {[tpl |-> g.tpl, at |-> t]}
                      ELSE free.lookups
           up == [free EXCEPT !.scrQ = scrQ, !.st.scrQ = scrQ, !.st.active = h,
                              !.st.liveRow = row, !.source = from.source,
                              !.lookups = reads]
           sent == IF songQ = None THEN from ELSE DropSongQueue(from)
           left == IF scrQ = None THEN sent ELSE DropScriptureQueue(sent)
           cleared == Clear(left, FALSE)
           d == Emit(up)
<1>1. PromoteGraphic(from, to, t) = <<cleared, d>> BY DEF PromoteGraphic
<1>2. Good(cleared)
  <2> HIDE DEF songQ, scrQ
  <2>1. (songQ # None) \in BOOLEAN /\ (scrQ # None) \in BOOLEAN OBVIOUS
  <2>2. LET gone == IF songQ # None THEN DropSongQueue(from) ELSE from
            rest == IF scrQ # None THEN DropScriptureQueue(gone) ELSE gone
        IN  Good(Clear(rest, FALSE))
    BY <2>1, LeftBehindGood
  <2> QED BY <2>2
<1> HIDE DEF cleared
<1>3. g \in Graphic /\ g.tpl \in Templates BY StParts DEF Airable, Graphic
<1>4. /\ h # None /\ h.phase = "in" /\ h.at = t /\ h.tpl = g.tpl
      /\ h \in Graphic
  BY <1>3, NoneAssumption DEF Graphic
<1>5. songQ \in SongRows \cup {None} BY Parts
<1> HIDE DEF songQ, scrQ, h
<1>6. /\ free \in Sound(k) /\ MediaGood(free) /\ SongMirrored(free)
      /\ free.song = None /\ free.slides = None
      /\ free.scr = None /\ free.st.scr = None
      /\ free.songQ = songQ /\ free.st.songQ = songQ
  BY <1>5, MakesWay, ZenonT(40)
<1> HIDE DEF free
<1>7. free \in Channel BY <1>6, Parts
<1>8. reads \in SUBSET TakeRef
  BY <1>3, <1>6, Parts DEF TakeRef
<1>9. g.tpl \in AutoOut => [tpl |-> g.tpl, at |-> t] \in reads OBVIOUS
<1> HIDE DEF reads, row
<1>10. /\ KeepsSong(free, up) /\ KeepsPassage(free, up) /\ KeepsDecks(free, up)
       /\ up.songQ = free.songQ /\ up.st.songQ = free.st.songQ
       /\ up.scrQ = scrQ /\ up.st.scrQ = scrQ
       /\ up.st.active = h /\ up.lookups = reads
  <2>1. free.st \in State BY <1>7 DEF Channel
  <2>2. /\ up.song = free.song /\ up.stt = free.stt /\ up.scr = free.scr
        /\ up.slides = free.slides /\ up.deck = free.deck
        /\ up.songQ = free.songQ /\ up.scrQ = scrQ /\ up.lookups = reads
        /\ up.st = [free.st EXCEPT !.scrQ = scrQ, !.active = h, !.liveRow = row]
    BY <1>7 DEF Channel
  <2> HIDE DEF up
  <2>3. /\ up.st.song = free.st.song /\ up.st.scr = free.st.scr
        /\ up.st.slides = free.st.slides /\ up.st.media = free.st.media
        /\ up.st.songQ = free.st.songQ /\ up.st.scrQ = scrQ
        /\ up.st.active = h
    BY <2>1, <2>2 DEF State
  <2> QED BY <2>2, <2>3 DEF KeepsSong, KeepsPassage, KeepsDecks
<1>11. /\ d.song = up.song /\ d.stt = up.stt /\ d.scr = up.scr
       /\ d.slides = up.slides /\ d.deck = up.deck
       /\ d.songQ = up.songQ /\ d.scrQ = up.scrQ /\ d.lookups = up.lookups
       /\ d.st = up.st /\ Told(d)
  BY <1>7 DEF Emit, Channel, Told
<1> HIDE DEF up, d
<1>12. KeepsDecks(free, d) /\ KeepsSong(free, d)
  BY <1>10, <1>11 DEF KeepsDecks, KeepsSong
<1>13. MediaGood(d) BY <1>6, <1>12, DecksKeepMedia
<1>14. Mirrors(d)
  BY <1>6, <1>10, <1>11, <1>12
  DEF Mirrors, SongMirrored, QueuesMirrored, EndsAtEnd, KeepsSong,
      KeepsPassage, KeepsDecks
<1>15. Screen(d)
  <2>1. d.song = None /\ d.scr = None /\ d.slides = None
    BY <1>6, <1>10, <1>11, <1>12 DEF KeepsSong, KeepsDecks, KeepsPassage
  <2>2. OnScreen(d) BY <1>4, <1>10, <1>11 DEF OnScreen
  <2>3. d.st.active.tpl \in AutoOut
          => [tpl |-> d.st.active.tpl, at |-> d.st.active.at] \in d.lookups
    BY <1>4, <1>9, <1>10, <1>11
  <2> QED BY <2>1, <2>2, <2>3, AloneScreen
<1>16. Good(d) BY <1>11, <1>13, <1>14, <1>15 DEF Good
<1> HIDE DEF g
<1> QED BY <1>1, <1>2, <1>16

\* promoteMedia() leaves the graphics of both channels alone.
LEMMA PromoteMediaGood ==
  ASSUME NEW j, NEW from \in Sound(j), Good(from), from.st.media # None,
         NEW k, NEW to \in Sound(k), Good(to), NEW t \in Nat
  PROVE  /\ Good(PromoteMedia(from, to, t)[1])
         /\ Good(PromoteMedia(from, to, t)[2])
<1> DEFINE m == from.st.media
           pick == [row |-> m.row, item |-> m.item, kind |-> m.kind,
                    loop |-> m.loop, endAction |-> m.endAction, owner |-> None]
           inShow == from.st.liveRow = m.row
           aired == MediaTake(to, pick, inShow, t)
           off == MediaClear(from)
<1>1. m \in Media BY StParts
<1>2. pick \in MediaPick /\ pick.owner = None BY <1>1 DEF MediaPick, Media
<1>3. inShow \in BOOLEAN OBVIOUS
<1>4. PromoteMedia(from, to, t) = <<off, aired>> BY DEF PromoteMedia
<1> HIDE DEF pick, inShow
<1>5. SameGraphics(to, aired) /\ Told(aired) BY <1>2, <1>3, MediaTakeDoes
<1>6. MediaGood(to) => MediaGood(aired) BY <1>2, <1>3, MediaTakeGood
<1>7. /\ SameGraphics(from, off) /\ Tells(from, off)
      /\ MediaGood(from) => MediaGood(off)
  BY MediaClearDoes
<1> HIDE DEF aired, off
<1>8. MediaStep(to, aired) /\ MediaStep(from, off)
  BY <1>5, <1>6, <1>7 DEF MediaStep, Tells, Good
<1>9. Good(aired) /\ Good(off) BY <1>8, MediaStepGood
<1> QED BY <1>4, <1>9

\* takePvwToPgm(): both channels are good afterwards.
LEMMA TakePvwToPgmGood ==
  ASSUME NEW j, NEW from \in Sound(j), Good(from),
         NEW k, NEW to \in Sound(k), Good(to),
         NEW present \in SUBSET Files, NEW t \in Nat
  PROVE  /\ Good(TakePvwToPgm(from, to, present, t)[1])
         /\ Good(TakePvwToPgm(from, to, present, t)[2])
<1> DEFINE moved == LoopPromote(from, to, present, t)
           cued == /\ from.deck = None
                   /\ from.st.media # None /\ ~OwnsMediaOn(from)
           pair == IF cued THEN PromoteMedia(moved[1], moved[2], t) ELSE moved
           src == pair[1]
           g == src.st.active
           deckUp == src.slides # None /\ (g # None \/ OwnsMediaOn(src))
           dest == EndLiveSong(pair[2])
<1>7. TakePvwToPgm(from, to, present, t) =
        CASE g = None /\ ~deckUp -> pair
          [] g # None /\ RefusesDraft(to, g.tpl) -> pair
          [] deckUp /\ ~(g # None /\ RefusesDraft(to, g.tpl)) ->
               SlidesPromote(src, dest, t)
          [] OTHER -> PromoteGraphic(src, dest, t)
  BY DEF TakePvwToPgm, GateRefuses
<1>1. /\ moved[1] \in Sound(j) /\ moved[2] \in Sound(k)
      /\ Good(moved[1]) /\ Good(moved[2])
  <2>1. MediaStep(from, moved[1]) /\ MediaStep(to, moved[2])
    BY LoopPromoteDoes DEF Good
  <2>2. moved[1] \in Sound(j) /\ moved[2] \in Sound(k) BY LoopPromoteSound
  <2> HIDE DEF moved
  <2> QED BY <2>1, <2>2, MediaStepGood
<1>2. cued => moved[1].st.media # None BY DEF LoopPromote
<1> HIDE DEF moved
<1>3. /\ pair[1] \in Sound(j) /\ pair[2] \in Sound(k)
      /\ Good(pair[1]) /\ Good(pair[2])
  BY <1>1, <1>2, PromoteMediaSound, PromoteMediaGood
<1> HIDE DEF pair
<1>4. /\ dest \in Sound(k) /\ dest.name = to.name /\ src \in Sound(j)
      /\ Good(dest) /\ Good(src) /\ dest.song = None
  <2>1. Good(dest) BY <1>3, ClearGood
  <2>2. dest.song = None BY <1>3, EndLiveSongDoes DEF Good
  <2> QED BY <1>3, <2>1, <2>2, EndLiveSongSound, Parts
<1> HIDE DEF src, dest
<1>5. deckUp => /\ Good(SlidesPromote(src, dest, t)[1])
                /\ Good(SlidesPromote(src, dest, t)[2])
  BY <1>4, SlidesPromoteGood
<1>6. g # None /\ ~RefusesDraft(to, g.tpl) =>
        /\ Good(PromoteGraphic(src, dest, t)[1])
        /\ Good(PromoteGraphic(src, dest, t)[2])
  <2>1. RefusesDraft(dest, g.tpl) <=> RefusesDraft(to, g.tpl)
    BY <1>4 DEF RefusesDraft
  <2> QED BY <1>4, <2>1, PromoteGraphicGood
<1> HIDE DEF deckUp
<1> QED BY <1>3, <1>5, <1>6, <1>7

\* A change of what the media slot's take is doing is a step in the media slot.
LEMMA MediaEditStep ==
  ASSUME NEW k, NEW c \in Sound(k), MediaGood(c), c.st.media # None,
         NEW x \in Media, x.owner = c.st.media.owner, x.item = c.st.media.item,
         x.at = c.st.media.at
  PROVE  LET d == Emit([c EXCEPT !.st.media = x])
         IN  d \in Sound(k) /\ MediaStep(c, d) /\ d.st.media = x
<1> DEFINE put == [c EXCEPT !.st.media = x]
           d == Emit(put)
<1>1. put \in Sound(k) BY StPut
<1>2. /\ SameGraphics(c, put) /\ put.st.media = x /\ put.deck = c.deck
      /\ put.st.slides = c.st.slides
  BY PutMedia, Parts
<1> HIDE DEF put
<1>3. d \in Sound(k) BY <1>1, EmitSound
<1>4. SameGraphics(put, d) /\ SameMedia(put, d) /\ Told(d) /\ d.st = put.st
  BY <1>1, EmitDoes, Parts
<1> HIDE DEF d
<1>5. SameGraphics(c, d) BY <1>2, <1>4, SameGraphicsTrans
<1>6. /\ d.deck = c.deck /\ d.st.slides = c.st.slides /\ d.st.media = x
  BY <1>2, <1>4 DEF SameMedia
<1>7. x # None BY NoneAssumption
<1>8. MediaGood(d) BY <1>5, <1>6, <1>7, StillGood
<1> QED BY <1>3, <1>4, <1>5, <1>6, <1>8 DEF MediaStep, Tells, d, put

\* mediaStatus() and what it tells both kinds of deck.
LEMMA MediaStatusGood ==
  ASSUME NEW k, NEW c \in Sound(k), Good(c), NEW at, NEW status \in Reports,
         NEW present \in SUBSET Files, NEW t \in Nat
  PROVE  Good(MediaStatus(c, at, status, present, t))
<1> DEFINE m == c.st.media
           x == [m EXCEPT !.status = status]
           y == [m EXCEPT !.status = "playing", !.paused = FALSE]
           z == [x EXCEPT !.paused = TRUE]
           told == Emit([c EXCEPT !.st.media = x])
           looped == Emit([c EXCEPT !.st.media = y])
           paused == Emit([told EXCEPT !.st.media = z])
           ended == CASE m.loop -> looped
                      [] ~m.loop /\ m.endAction = "clear" -> MediaClear(c)
                      [] OTHER -> paused
<1>1. CASE m = None \/ m.at # at BY <1>1 DEF MediaStatus
<1>2. CASE m # None /\ m.at = at
  <2>g. MediaGood(c) BY DEF Good
  <2>1. m \in Media BY <1>2, StParts
  <2>2. x \in Media /\ y \in Media /\ z \in Media BY <2>1 DEF Media, Reports
  <2>3. /\ x.owner = m.owner /\ x.item = m.item /\ x.at = m.at
        /\ y.owner = m.owner /\ y.item = m.item /\ y.at = m.at
        /\ z.owner = m.owner /\ z.item = m.item /\ z.at = m.at
    BY <2>1 DEF Media
  <2> HIDE DEF x, y, z
  <2>4. told \in Sound(k) /\ Good(told) /\ told.st.media = x
    BY <1>2, <2>g, <2>2, <2>3, MediaEditStep, MediaStepGood
  <2>5. looped \in Sound(k) /\ Good(looped)
    BY <1>2, <2>g, <2>2, <2>3, MediaEditStep, MediaStepGood
  <2>6. x # None BY <2>2, NoneAssumption
  <2>d. [told EXCEPT !.st.media.paused = TRUE] = [told EXCEPT !.st.media = z]
    BY <2>4 DEF z
  <2> HIDE DEF told, looped
  <2>7. paused \in Sound(k) /\ Good(paused)
    BY <2>2, <2>3, <2>4, <2>6, MediaEditStep, MediaStepGood DEF Good
  <2>e. ended = CASE m.loop -> looped
                  [] ~m.loop /\ m.endAction = "clear" -> MediaClear(c)
                  [] OTHER -> Emit([told EXCEPT !.st.media.paused = TRUE])
    BY <2>d
  <2> HIDE DEF paused
  <2>8. MediaClear(c) \in Sound(k) /\ Good(MediaClear(c))
    <3>1. MediaStep(c, MediaClear(c)) BY <2>g, MediaClearDoes DEF MediaStep
    <3> QED BY <3>1, MediaClearSound, MediaStepGood
  <2>9. ended \in Sound(k) /\ Good(ended) BY <2>5, <2>7, <2>8
  <2> HIDE DEF ended
  <2>10. \A e \in Sound(k) : Good(e) =>
           /\ LoopMediaEnded(e, at, present, t) \in Sound(k)
           /\ LoopMediaFailed(e, at, present, t) \in Sound(k)
           /\ LoopMediaPlaying(e, at) \in Sound(k)
           /\ Good(LoopMediaEnded(e, at, present, t))
           /\ Good(LoopMediaFailed(e, at, present, t))
           /\ Good(LoopMediaPlaying(e, at))
    BY LoopReportsSound, LoopReportsDo, MediaStepGood DEF Good
  <2>11. Good(SlidesMediaEnded(LoopMediaEnded(ended, at, present, t), at, t))
    BY <2>9, <2>10, SlidesReportsGood
  <2>12. Good(SlidesMediaFailed(LoopMediaFailed(told, at, present, t), at, t))
    BY <2>4, <2>10, SlidesReportsGood
  <2>13. Good(SlidesMediaPlaying(LoopMediaPlaying(told, at), at))
    BY <2>4, <2>10, SlidesReportsGood
  <2>14. MediaStatus(c, at, status, present, t) =
           CASE status = "ended" /\ m.kind = "image" -> c
             [] status = "ended" /\ m.kind # "image" ->
                  SlidesMediaEnded(LoopMediaEnded(ended, at, present, t), at, t)
             [] status = "error" ->
                  SlidesMediaFailed(LoopMediaFailed(told, at, present, t), at, t)
             [] OTHER -> SlidesMediaPlaying(LoopMediaPlaying(told, at), at)
    BY <1>2, <2>e DEF MediaStatus, told, looped, x, y
  <2> QED BY <2>11, <2>12, <2>13, <2>14
<1> QED BY <1>1, <1>2

\* clear_all_channels, for one channel.
LEMMA ClearAllGood ==
  ASSUME NEW k, NEW c \in Sound(k), Good(c), NEW cut \in BOOLEAN
  PROVE  Good(ClearAll(c, cut))
<1> DEFINE off == Clear(c, FALSE)
           d == DropLoopNow(off)
<1>1. FALSE \in BOOLEAN OBVIOUS
<1>2. off \in Sound(k) /\ Good(off) BY <1>1, ClearSound, ClearGood
<1> HIDE DEF off
<1>3. d \in Sound(k) BY <1>2, DropLoopSound
<1>4. MediaStep(off, d) BY <1>2, DropLoopDoes DEF MediaStep, Good
<1> HIDE DEF d
<1>5. Good(d) BY <1>2, <1>4, MediaStepGood
<1>6. MediaStep(d, MediaClear(d)) BY <1>3, <1>5, MediaClearDoes DEF MediaStep, Good
<1>7. Good(MediaClear(d)) BY <1>5, <1>6, MediaStepGood
<1> QED BY <1>5, <1>7 DEF ClearAll, d, off

----------------------------------------------------------------------------
(***************************************************************************)
(* The inductive invariant: with IInv, every channel is good.              *)
(***************************************************************************)
GoodInv == \A k \in Channels : Good(ch[k])

\* Channels start good.
LEMMA InitGoodInv == Init => GoodInv
BY InitGood DEF Init, GoodInv

\* An action that replaces one channel's record, or two, by good ones.
LEMMA BecomeGood ==
  ASSUME IInv, GoodInv, NEW k \in Channels, NEW c, Good(c), Become(k, c)
  PROVE  GoodInv'
BY DEF IInv, GoodInv, Become

\* A step that replaces two channels by good records keeps all good.
LEMMA BecomeBothGood ==
  ASSUME IInv, GoodInv, NEW p \in Promotions, NEW pair,
         Good(pair[1]), Good(pair[2]), BecomeBoth(p, pair)
  PROVE  GoodInv'
<1>1. p[1] \in Channels /\ p[2] \in Channels /\ p[1] # p[2]
  BY InputsAssumption
<1> QED BY <1>1 DEF IInv, GoodInv, BecomeBoth

\* The channel, the clock and the folder that an action of channel k reads.
LEMMA Here ==
  ASSUME IInv, GoodInv, NEW k \in Channels
  PROVE  /\ ch[k] \in Sound(k) /\ Good(ch[k]) /\ MediaGood(ch[k])
         /\ now \in Nat /\ files \in SUBSET Files
         /\ \A i \in SlidePicks : i \in Nat /\ i \in Int
BY InputsAssumption DEF IInv, GoodInv, Good

\* Messages about graphics, songs and scripture keep every channel good.
LEMMA TextMessagesGood ==
  ASSUME IInv, GoodInv, NEW k \in Channels,
         \/ TakeOn(k) \/ ClearOn(k) \/ UpdateOn(k)
         \/ SongTakeOn(k) \/ SongAdvanceOn(k) \/ SongJumpOn(k) \/ SongBlankOn(k)
         \/ SongTrustOn(k) \/ SongEndOn(k) \/ SongIntroOn(k) \/ SongOutroOn(k)
         \/ SongLyricsOn(k)
         \/ ScriptureIntroOn(k) \/ ScriptureSlideOn(k) \/ ScriptureAdvanceOn(k)
         \/ ScriptureGoToOn(k) \/ ScriptureEndOn(k)
  PROVE  GoodInv'
<1> DEFINE c == ch[k]
<1>c. c \in Sound(k) /\ Good(c) /\ now \in Nat BY Here
<1>i. \A i \in SlidePicks : i \in Nat /\ i \in Int BY Here
<1>1. CASE TakeOn(k)
  <2>1. \A g \in GraphicTakes : g.tpl \in Templates /\ g.row \in Rows \cup {None}
    BY InputsAssumption DEF Rows
  <2>2. \A g \in GraphicTakes : Good(TakeGraphic(c, g.tpl, g.row, "none", now))
    BY <1>c, <2>1, TakeGraphicGood DEF Contexts
  <2> QED BY <1>1, <2>2, BecomeGood DEF TakeOn
<1>2. CASE ClearOn(k)
  <2>1. FALSE \in BOOLEAN OBVIOUS
  <2> QED BY <1>c, <1>2, <2>1, ClearGood, BecomeGood DEF ClearOn
<1>3. CASE UpdateOn(k) BY <1>c, <1>3, EditFieldsGood, BecomeGood DEF UpdateOn
<1>4. CASE SongTakeOn(k) BY <1>c, <1>4, SongTakeGood, BecomeGood DEF SongTakeOn
<1>5. CASE SongAdvanceOn(k)
  BY <1>c, <1>5, SongAdvanceGood, BecomeGood DEF SongAdvanceOn
<1>6. CASE SongJumpOn(k)
  BY <1>c, <1>i, <1>6, SongJumpGood, BecomeGood DEF SongJumpOn
<1>7. CASE SongBlankOn(k)
  BY <1>c, <1>7, SongBlankGood, BecomeGood DEF SongBlankOn
<1>8. CASE SongTrustOn(k)
  BY <1>c, <1>8, SongTrustGood, BecomeGood DEF SongTrustOn
<1>9. CASE SongEndOn(k) BY <1>c, <1>9, SongEndGood, BecomeGood DEF SongEndOn
<1>10. CASE SongIntroOn(k)
  BY <1>c, <1>10, SubTakesGood, BecomeGood DEF SongIntroOn
<1>11. CASE SongOutroOn(k)
  BY <1>c, <1>11, SubTakesGood, BecomeGood DEF SongOutroOn
<1>12. CASE SongLyricsOn(k)
  BY <1>c, <1>12, SubTakesGood, BecomeGood DEF SongLyricsOn
<1>13. CASE ScriptureIntroOn(k)
  BY <1>c, <1>13, ScriptureIntroGood, BecomeGood DEF ScriptureIntroOn
<1>14. CASE ScriptureSlideOn(k)
  BY <1>c, <1>i, <1>14, ScriptureSlideGood, BecomeGood DEF ScriptureSlideOn
<1>15. CASE ScriptureAdvanceOn(k)
  BY <1>c, <1>15, ScriptureStepsGood, BecomeGood DEF ScriptureAdvanceOn
<1>16. CASE ScriptureGoToOn(k)
  BY <1>c, <1>i, <1>16, ScriptureStepsGood, BecomeGood DEF ScriptureGoToOn
<1>17. CASE ScriptureEndOn(k)
  BY <1>c, <1>17, ScriptureStepsGood, BecomeGood DEF ScriptureEndOn
<1> QED BY <1>1, <1>2, <1>3, <1>4, <1>5, <1>6, <1>7, <1>8, <1>9, <1>10, <1>11,
           <1>12, <1>13, <1>14, <1>15, <1>16, <1>17

\* Messages about decks and the media slot do.
LEMMA DeckMessagesGood ==
  ASSUME IInv, GoodInv, NEW k \in Channels,
         \/ SlidesTakeOn(k) \/ SlidesAdvanceOn(k) \/ SlidesGoToOn(k)
         \/ SlidesBlankOn(k) \/ SlidesEndOn(k)
         \/ MediaTakeOn(k) \/ MediaClearOn(k) \/ MediaControlOn(k)
         \/ MediaStatusOn(k)
  PROVE  GoodInv'
<1> DEFINE c == ch[k]
<1>c. /\ c \in Sound(k) /\ Good(c) /\ MediaGood(c)
      /\ now \in Nat /\ files \in SUBSET Files
  BY Here
<1>i. \A i \in SlidePicks : i \in Nat BY Here
<1>1. CASE SlidesTakeOn(k)
  <2>1. \A i \in SlidePicks, r \in DeckRows : Good(SlidesStart(c, r, i, now))
    BY <1>c, <1>i, SlidesStartGood
  <2>2. \A i \in SlidePicks, r \in LoopRows : Good(LoopStart(c, r, i, files, now))
    BY <1>c, <1>i, LoopStartDoes, MediaStepGood
  <2> QED BY <1>1, <2>1, <2>2, BecomeGood DEF SlidesTakeOn
<1>2. CASE SlidesAdvanceOn(k)
  <2>1. \A d \in {-1, 1} : /\ Good(LoopStep(c, d, files, now))
                           /\ Good(SlidesAdvance(c, d, now))
    BY <1>c, LoopStepDoes, MediaStepGood, SlidesAdvanceGood
  <2> QED BY <1>2, <2>1, BecomeGood DEF SlidesAdvanceOn
<1>3. CASE SlidesGoToOn(k)
  <2>1. \A i \in SlidePicks : /\ Good(LoopGoTo(c, i, files, now))
                              /\ Good(SlidesGoTo(c, i, now))
    BY <1>c, <1>i, LoopGoToDoes, MediaStepGood, SlidesGoToGood
  <2> QED BY <1>3, <2>1, BecomeGood DEF SlidesGoToOn
<1>4. CASE SlidesBlankOn(k)
  BY <1>c, <1>4, SlidesBlankGood, BecomeGood DEF SlidesBlankOn
<1>5. CASE SlidesEndOn(k)
  <2>1. Good(LoopEnd(c))
    BY <1>c, LoopEndDoes, MediaStepGood DEF MediaGood
  <2>2. Good(SlidesEnd(c)) BY <1>c, SlidesEndGood
  <2> QED BY <1>5, <2>1, <2>2, BecomeGood DEF SlidesEndOn
<1>6. CASE MediaTakeOn(k)
  <2> DEFINE Pick(m) == [row |-> m.row, item |-> 0, kind |-> m.kind,
                         loop |-> m.loop, endAction |-> m.endAction,
                         owner |-> None]
  <2>1. \A m \in MediaTakes : /\ Pick(m) \in MediaPick /\ m.inShow \in BOOLEAN
                              /\ Pick(m).owner = None
    BY InputsAssumption DEF MediaPick, Rows
  <2> HIDE DEF Pick
  <2>2. \A m \in MediaTakes : Good(MediaTake(c, Pick(m), m.inShow, now))
    <3> TAKE m \in MediaTakes
    <3> DEFINE d == MediaTake(c, Pick(m), m.inShow, now)
    <3>1. SameGraphics(c, d) /\ Told(d) BY <1>c, <2>1, MediaTakeDoes
    <3>2. MediaGood(d) BY <1>c, <2>1, MediaTakeGood
    <3> HIDE DEF d
    <3>3. Good(d)
      BY <1>c, <3>1, <3>2, MediaStepGood DEF MediaStep, Tells
    <3> QED BY <3>3 DEF d
  <2> QED BY <1>6, <2>2, BecomeGood DEF MediaTakeOn, Pick
<1>7. CASE MediaClearOn(k)
  <2>1. MediaStep(c, MediaClear(c)) BY <1>c, MediaClearDoes DEF MediaStep
  <2> QED BY <1>c, <1>7, <2>1, MediaStepGood, BecomeGood DEF MediaClearOn
<1>8. CASE MediaControlOn(k)
  <2>1. \A at, x : MediaStep(c, MediaControl(c, at, x))
    BY <1>c, MediaControlDoes DEF MediaStep
  <2>2. \A at, x : Good(MediaControl(c, at, x)) BY <1>c, <2>1, MediaStepGood
  <2> QED BY <1>8, <2>2, BecomeGood DEF MediaControlOn
<1>9. CASE MediaStatusOn(k)
  BY <1>c, <1>9, MediaStatusGood, BecomeGood DEF MediaStatusOn
<1> QED BY <1>1, <1>2, <1>3, <1>4, <1>5, <1>6, <1>7, <1>8, <1>9

\* So do the timers and template reads.
LEMMA InternalGood ==
  ASSUME IInv, GoodInv, NEW k \in Channels, Internal(k)
  PROVE  GoodInv'
<1> DEFINE c == ch[k]
<1>c. /\ c \in Sound(k) /\ Good(c) /\ MediaGood(c)
      /\ now \in Nat /\ files \in SUBSET Files
  BY Here
<1>1. CASE AutoOutLookup(k)
  <2>1. c.lookups \in SUBSET TakeRef BY <1>c, Parts
  <2> QED BY <1>c, <1>1, <2>1, AutoOutAnswerGood, BecomeGood DEF AutoOutLookup
<1>2. CASE AutoOutTimer(k)
  BY <1>c, <1>2, AutoOutFiresGood, BecomeGood DEF AutoOutTimer
<1>3. CASE SweepTimer(k) BY <1>c, <1>3, SweepGood, BecomeGood DEF SweepTimer
<1>4. CASE SttTimer(k) BY <1>c, <1>4, SttFiresGood, BecomeGood DEF SttTimer
<1>5. CASE DeckTimer(k)
  BY <1>c, <1>5, SlidesTimerGood, BecomeGood DEF DeckTimer
<1>6. CASE MediaDeckTimer(k)
  <2>1. c.deck # None /\ c.deck.armed BY <1>6 DEF MediaDeckTimer
  <2>2. Good(LoopTimer(c, files, now))
    BY <1>c, <2>1, LoopTimerDoes, MediaStepGood
  <2> QED BY <1>6, <2>2, BecomeGood DEF MediaDeckTimer
<1> QED BY <1>1, <1>2, <1>3, <1>4, <1>5, <1>6 DEF Internal

\* Every step keeps every channel good.
LEMMA NextGood == IInv /\ GoodInv /\ [Next]_vars => GoodInv'
<1> SUFFICES ASSUME IInv, GoodInv, [Next]_vars PROVE GoodInv' OBVIOUS
<1>c. /\ \A k \in Channels : /\ ch[k] \in Sound(k) /\ Good(ch[k])
                             /\ MediaGood(ch[k])
      /\ now \in Nat /\ files \in SUBSET Files
  BY DEF IInv, GoodInv, Good
<1>p. \A p \in Promotions : p[1] \in Channels /\ p[2] \in Channels
  BY InputsAssumption
<1>1. CASE \E k \in Channels : ClientMessage(k) \/ Internal(k)
  <2>1. PICK k \in Channels : ClientMessage(k) \/ Internal(k) BY <1>1
  <2>2. CASE ClientMessage(k)
    BY <2>2, TextMessagesGood, DeckMessagesGood DEF ClientMessage
  <2> QED BY <2>1, <2>2, InternalGood
<1>2. CASE ClearAllChannels
  BY <1>c, <1>2, ClearAllGood DEF ClearAllChannels, GoodInv
<1>3. CASE PvwToPgm
  BY <1>c, <1>p, <1>3, TakePvwToPgmGood, BecomeBothGood DEF PvwToPgm
<1>4. CASE SongPvwToPgm
  BY <1>c, <1>p, <1>4, SongPromoteGood, BecomeBothGood DEF SongPvwToPgm
<1>5. CASE SttHypothesis
  <2> DEFINE live == {k \in Channels : ch[k].song # None}
             heard == {None} \cup UNION {Matchable(ch[k]) : k \in live}
  <2>1. PICK p \in [live -> heard], sure \in [live -> BOOLEAN] :
          ch' = [k \in Channels |->
                   IF k \in live THEN Hypothesis(ch[k], p[k], sure[k])
                                 ELSE ch[k]]
    BY <1>5 DEF SttHypothesis
  <2>2. \A k \in live : Good(Hypothesis(ch[k], p[k], sure[k]))
    BY <1>c, HypothesisGood
  <2> QED BY <1>c, <2>1, <2>2 DEF GoodInv
<1>6. CASE FolderChange
  <2>1. PICK present \in FolderContents :
          ch' = [k \in Channels |-> LoopFolderChange(ch[k], present, now)]
    BY <1>6 DEF FolderChange
  <2>2. present \in SUBSET Files BY InputsAssumption
  <2>3. \A k \in Channels : Good(LoopFolderChange(ch[k], present, now))
    BY <1>c, <2>2, LoopFolderChangeDoes, MediaStepGood
  <2> QED BY <2>1, <2>3 DEF GoodInv
<1>7. CASE Tick BY <1>7 DEF Tick, GoodInv
<1>8. CASE UNCHANGED vars BY <1>8 DEF vars, GoodInv
<1> QED BY <1>1, <1>2, <1>3, <1>4, <1>5, <1>6, <1>7, <1>8 DEF Next

\* Every channel is good in every state of every behaviour.
THEOREM AlwaysGood == Spec => []GoodInv
<1>1. IInv /\ GoodInv /\ [Next]_vars => (IInv /\ GoodInv)' BY NextIInv, NextGood
<1>2. Init => IInv /\ GoodInv BY InitIInv, InitGoodInv
<1> QED BY <1>1, <1>2, PTL DEF Spec

----------------------------------------------------------------------------
(***************************************************************************)
(* What the clients are promised.                                          *)
(***************************************************************************)
\* No handler leaves a change behind that no emit carried.
THEOREM EverythingIsSent == Spec => []NothingUnsent
<1>1. GoodInv => NothingUnsent BY DEF GoodInv, Good, NothingUnsent
<1> QED BY <1>1, AlwaysGood, PTL

\* The summaries clients see agree with the session maps.
THEOREM SummariesAgree == Spec => []SummariesMirrorSessions
<1>1. GoodInv => SummariesMirrorSessions
  BY DEF GoodInv, Good, SummariesMirrorSessions, Mirrored, Mirrors, SongMirrored,
         QueuesMirrored, MediaGood, Framed, DeckShown, LoopShown
<1> QED BY <1>1, AlwaysGood, PTL

\* A pending auto-advance has a song to move.
THEOREM AdvancesMoveASong == Spec => []AdvanceHasASong
<1>1. GoodInv => AdvanceHasASong
  BY DEF GoodInv, Good, AdvanceHasASong, Mirrors, SongMirrored
<1> QED BY <1>1, AlwaysGood, PTL

\* Whatever takes the media slot stops the deck that played in it.
THEOREM DecksOwnTheirMedia == Spec => []LoopOwnsItsMedia
<1>1. GoodInv => LoopOwnsItsMedia
  BY DEF GoodInv, Good, LoopOwnsItsMedia, MediaGood, Framed
<1> QED BY <1>1, AlwaysGood, PTL

\* A deck's photo or video goes with its slide.
THEOREM SlideMediaGoesWithItsSlide == Spec => []NoOrphanedSlideMedia
<1>1. GoodInv => NoOrphanedSlideMedia
  BY DEF GoodInv, Good, NoOrphanedSlideMedia, MediaGood, Framed, NoStray,
         SlideMedia
<1> QED BY <1>1, AlwaysGood, PTL

\* A live passage's slide is on screen.
THEOREM PassagesAreShown == Spec => []ScriptureOnScreen
<1>1. GoodInv => ScriptureOnScreen
  BY DEF GoodInv, Good, ScriptureOnScreen, Screen, ScriptureShown
<1> QED BY <1>1, AlwaysGood, PTL

\* A blanked song stays dark until it is unblanked.
THEOREM BlankStaysDark == Spec => []BlankIsDark
<1>1. GoodInv => BlankIsDark
  BY DEF GoodInv, Good, BlankIsDark, Screen, DarkIfBlank
<1> QED BY <1>1, AlwaysGood, PTL

\* A live song that is not blanked is what the screen shows, at its cursor.
THEOREM SongsAreShown == Spec => []SongOnScreen
<1>1. GoodInv => SongOnScreen
  BY DEF GoodInv, Good, SongOnScreen, Screen, SongShown
<1> QED BY <1>1, AlwaysGood, PTL

\* A live deck that is not blanked shows its slide.
THEOREM DecksAreShown == Spec => []SlidesOnScreen
<1>1. GoodInv => SlidesOnScreen
  BY DEF GoodInv, Good, SlidesOnScreen, Screen, SlidesShown
<1> QED BY <1>1, AlwaysGood, PTL

\* The auto-out of a graphic on screen is never forgotten.
THEOREM AutoOutIsNotForgotten == Spec => []AutoOutIsPending
<1>1. GoodInv => AutoOutIsPending
  BY DEF GoodInv, Good, AutoOutIsPending, Screen
<1> QED BY <1>1, AlwaysGood, PTL

----------------------------------------------------------------------------
(***************************************************************************)
(* The source of a channel names the row of its graphic.  It does as long  *)
(* as promotions leave a channel one session of its slot, and a song cued  *)
(* where they take from has a slide to show.  Named(c) says, of the source *)
(* and of what the sessions will put up or leave, whose rows they are.     *)
(***************************************************************************)
\* PVW to PGM takes from channel c.
Cued(c) == \E p \in Promotions : p[1] = c.name
CuedOnSlide(c) == Cued(c) => (c.song # None => SongIsOnSlide(c))
CuedSongsAreOnSlide == \A k \in Channels : CuedOnSlide(ch[k])

OfRow(c, row) == c.st.active # None => c.st.active.shows.row = row
SongNamed(c) ==
  c.song # None =>
    /\ c.slides = None /\ c.songQ = None /\ c.source \in {None, c.song.row}
    /\ Cued(c) => OfRow(c, c.song.row)
DeckNamed(c) ==
  c.slides # None =>
    /\ c.songQ = None /\ c.source \in {None, c.slides.row}
    /\ c.slides.blanked => c.source = None
QueueNamed(c) ==
  c.song = None /\ c.songQ # None => c.source \in {None, c.songQ}
GraphicNamed(c) ==
  c.song = None /\ c.slides = None /\ c.source # None => OfRow(c, c.source)
Named(c) == SongNamed(c) /\ DeckNamed(c) /\ QueueNamed(c) /\ GraphicNamed(c)

\* d has the sessions and the source of c, and its graphic if any.
SameNames(c, d) ==
  /\ d.name = c.name /\ d.source = c.source /\ d.songQ = c.songQ
  /\ d.song = None <=> c.song = None
  /\ c.song # None => d.song.row = c.song.row
  /\ d.slides = None <=> c.slides = None
  /\ c.slides # None => /\ d.slides.row = c.slides.row
                        /\ d.slides.blanked = c.slides.blanked
  /\ d.st.active # None =>
       c.st.active # None /\ d.st.active.shows.row = c.st.active.shows.row

\* What leaves the names alone keeps them right.
LEMMA StillNamed ==
  ASSUME NEW c, NEW d, SameNames(c, d), Named(c)
  PROVE  Named(d)
<1>1. \A row : OfRow(c, row) => OfRow(d, row) BY DEF SameNames, OfRow
<1>2. Cued(d) <=> Cued(c) BY DEF SameNames, Cued
<1>3. SongNamed(d) BY <1>1, <1>2 DEF Named, SongNamed, SameNames
<1>4. DeckNamed(d) BY DEF Named, DeckNamed, SameNames
<1>5. QueueNamed(d) BY DEF Named, QueueNamed, SameNames
<1>6. GraphicNamed(d) BY <1>1 DEF Named, GraphicNamed, SameNames
<1> QED BY <1>3, <1>4, <1>5, <1>6 DEF Named

\* So does a step in the media slot.
LEMMA MediaStepNamed ==
  ASSUME NEW c, NEW d, SameGraphics(c, d), Named(c)
  PROVE  Named(d)
<1>1. SameNames(c, d) BY DEF SameGraphics, SameNames
<1> QED BY <1>1, StillNamed

\* A channel without a session of the slot and without a source.
LEMMA DarkNamed ==
  ASSUME NEW d, d.song = None, d.slides = None, d.source = None
  PROVE  Named(d)
BY DEF Named, SongNamed, DeckNamed, QueueNamed, GraphicNamed

\* A graphic on its own, taken for row `row`.
LEMMA TakenNamed ==
  ASSUME NEW d, NEW row, d.song = None, d.slides = None,
         d.songQ \in {None, row}, d.source = row, OfRow(d, row)
  PROVE  Named(d)
BY DEF Named, SongNamed, DeckNamed, QueueNamed, GraphicNamed

\* A song that has just been drawn.
LEMMA SongUpNamed ==
  ASSUME NEW d, Good(d), CuedOnSlide(d), d.song # None, d.slides = None,
         d.songQ = None, d.source \in {None, d.song.row},
         d.song.blanked /\ Cued(d) => OfRow(d, d.song.row)
  PROVE  Named(d)
<1>1. Cued(d) /\ ~d.song.blanked => OfRow(d, d.song.row)
  BY DEF Good, Screen, SongShown, CuedOnSlide, Displays, Says, OfRow
<1>2. SongNamed(d) BY <1>1 DEF SongNamed
<1> QED BY <1>2 DEF Named, DeckNamed, QueueNamed, GraphicNamed

\* A deck that has just been drawn.
LEMMA DeckUpNamed ==
  ASSUME NEW d, d.song = None, d.slides # None, d.songQ = None,
         d.source \in {None, d.slides.row},
         d.slides.blanked => d.source = None
  PROVE  Named(d)
BY DEF Named, SongNamed, DeckNamed, QueueNamed, GraphicNamed

\* Where there is one session at most, the right names are what is promised.
LEMMA NamedShows ==
  ASSUME NEW c, Good(c), Named(c), OnScreen(c), c.source # None,
         c.song # None => c.slides = None /\ SongIsOnSlide(c)
  PROVE  c.st.active.shows.row = c.source
<1>1. CASE c.song # None
  BY <1>1
  DEF Good, Screen, SongShown, DarkIfBlank, Displays, Says, Named, SongNamed
<1>2. CASE c.song = None /\ c.slides # None
  BY <1>2
  DEF Good, Screen, SlidesShown, Displays, Says, Named, DeckNamed
<1>3. CASE c.song = None /\ c.slides = None
  BY <1>3 DEF Named, GraphicNamed, OfRow, OnScreen
<1> QED BY <1>1, <1>2, <1>3

----------------------------------------------------------------------------
\* Clearing forgets the source; the graphic that goes out is the one up.
LEMMA ClearInternalNames ==
  ASSUME NEW k, NEW c \in Sound(k)
  PROVE  LET d == ClearInternal(c)
         IN  /\ d.source = None
             /\ d.st.active # None =>
                  c.st.active # None /\ d.st.active.shows = c.st.active.shows
<1>c. c \in Channel /\ c.st \in State BY Parts
<1> DEFINE u == [CancelAutoOut(c) EXCEPT !.source = None]
<1>1. u \in Channel /\ u.source = None /\ u.st = c.st
  <2>1. CancelAutoOut(c) \in Channel BY <1>c, ChannelPut DEF CancelAutoOut
  <2>2. u \in Channel BY <2>1, ChannelPut
  <2> QED BY <1>c, <2>2 DEF CancelAutoOut, Channel
<1>2. CASE c.st.active = None
  <2>1. ClearInternal(c) = u BY <1>2 DEF ClearInternal
  <2> HIDE DEF u
  <2> QED BY <1>1, <1>2, <2>1
<1>3. CASE c.st.active # None
  <2>1. ClearInternal(c) = Out(u) BY <1>3 DEF ClearInternal
  <2>2. c.st.active \in Graphic BY <1>3, StParts DEF Airable
  <2> DEFINE g == [u.st.active EXCEPT !.phase = "out"]
  <2> HIDE DEF u
  <2>3. g.shows = c.st.active.shows BY <1>1, <2>2 DEF Graphic
  <2>4. Out(u).source = u.source /\ Out(u).st.active = g
    <3>1. Out(u) = Emit([u EXCEPT !.st.active = g,
                                  !.sweeps = @ \cup {u.st.active.at}])
      BY DEF Out
    <3> HIDE DEF g
    <3> QED BY <1>1, <3>1 DEF Emit, Channel, State
  <2> QED BY <1>1, <1>3, <2>1, <2>3, <2>4
<1> QED BY <1>2, <1>3

\* What is done with sessions keeps the source.
LEMMA DropsKeepSource ==
  ASSUME NEW k, NEW c \in Sound(k)
  PROVE  /\ DropSongQueue(c).source = c.source
         /\ DropScriptureQueue(c).source = c.source
         /\ DropScriptureLive(c).source = c.source
         /\ DropScripture(c).source = c.source
         /\ TearDownSong(c).source = c.source
<1>c. c \in Channel BY Parts
<1> QED BY <1>c
  DEF DropSongQueue, DropScriptureQueue, DropScriptureLive, DropScripture,
      TearDownSong, Channel

\* Ending a deck keeps the source.
LEMMA DropAllKeepsSource ==
  ASSUME NEW k, NEW c \in Sound(k)
  PROVE  SlidesDropAll(c).source = c.source
<1>c. c \in Channel BY Parts
<1> DEFINE g == [c EXCEPT !.slides = None]
           f == ReleaseMedia(g, c.slides.row)
<1>1. g \in Sound(k) /\ g.source = c.source BY <1>c, Put DEF Channel
<1> HIDE DEF g
<1>2. f \in Sound(k) /\ f.source = c.source
  BY <1>1, ReleaseMediaDoes DEF SameGraphics
<1> HIDE DEF f
<1>3. ShowLoopSummary(f).source = c.source
  BY <1>2, ShowLoopSummaryDoes DEF SameGraphics
<1> QED BY <1>3 DEF SlidesDropAll, f, g

\* Emitting keeps the names.
LEMMA EmitNames ==
  ASSUME NEW k, NEW c \in Sound(k)
  PROVE  Emit(c).source = c.source /\ SameNames(c, Emit(c))
<1>c. c \in Channel BY Parts
<1> QED BY <1>c, EmitDoes DEF SameGraphics, SameNames

\* A session's take and an edit keep the source.
LEMMA TakeInternalKeepsSource ==
  ASSUME NEW k, NEW c \in Sound(k), NEW tpl, NEW shows, NEW t
  PROVE  TakeInternal(c, tpl, shows, t).source = c.source
<1>c. c \in Channel BY Parts
<1> QED BY <1>c DEF TakeInternal, Mount, CancelAutoOut, DropScripture, Emit, Channel

\* An edit of the graphic keeps the source.
LEMMA UpdateKeepsSource ==
  ASSUME NEW k, NEW c \in Sound(k), NEW shows
  PROVE  Update(c, shows).source = c.source
<1>c. c \in Channel BY Parts
<1> QED BY <1>c DEF Update, Emit, Channel

\* A clear leaves no session of the slot and no source.
LEMMA ClearSlotDark ==
  ASSUME NEW k, NEW c \in Sound(k), NEW keep \in BOOLEAN,
         MediaGood(c), Mirrors(c)
  PROVE  ClearSlot(c, keep).source = None
<1> DEFINE f == SlidesDropAll(DropScriptureLive(c))
           q == IF keep THEN f ELSE DropSongQueue(DropScriptureQueue(f))
           z == ClearInternal(q)
<1>1. DropScriptureLive(c) \in Sound(k) BY DropsSound
<1>2. f \in Sound(k) BY <1>1, SlidesDropAllSound
<1> HIDE DEF f
<1>3. q \in Sound(k) BY <1>2, DropsSound
<1>4. z \in Sound(k) /\ z.source = None
  BY <1>3, ClearInternalSound, ClearInternalNames
<1>5. ClearSlot(c, keep) \in {z, Emit(z)} BY DEF ClearSlot, f
<1> HIDE DEF z
<1>6. Emit(z).source = None BY <1>4, EmitNames
<1> QED BY <1>4, <1>5, <1>6

\* end() of a live song and clear() leave the channel dark.
LEMMA ClearsAreDark ==
  ASSUME NEW k, NEW c \in Sound(k), MediaGood(c), Mirrors(c)
  PROVE  /\ Named(c) => Named(EndLiveSong(c))
         /\ EndLiveSong(c).song = None
         /\ \A keep \in BOOLEAN : Named(Clear(c, keep))
<1> DEFINE t == TearDownSong(c)
           z == ClearSlot(t, FALSE)
           e == EndLiveSong(c)
<1>e. /\ e \in Sound(k) /\ e.song = None /\ MediaGood(e) /\ Mirrors(e)
      /\ c.song = None => e = c
      /\ c.song # None => e.slides = None
  BY EndLiveSongDoes DEF Idle
<1>1. c.song # None => e.source = None
  <2> SUFFICES ASSUME c.song # None PROVE e.source = None OBVIOUS
  <2>1. /\ t \in Sound(k) /\ t.song = None /\ SongMirrored(t)
        /\ KeepsQueues(c, t) /\ KeepsPassage(c, t) /\ KeepsDecks(c, t)
    BY DropsSound, DropsDo DEF Mirrors
  <2>2. MediaGood(t) /\ EndsAtEnd(t) BY <2>1, DecksKeepMedia DEF Mirrors
  <2>3. Mirrors(t)
    BY <2>1, <2>2 DEF Mirrors, QueuesMirrored, KeepsQueues, KeepsPassage
  <2> HIDE DEF t
  <2>f. FALSE \in BOOLEAN OBVIOUS
  <2>4. z.source = None BY <2>1, <2>2, <2>3, <2>f, ClearSlotDark
  <2>5. z \in Sound(k) BY <2>1, <2>f, ClearSlotSound
  <2>6. e \in {z, Emit(z)} BY DEF EndLiveSong, t
  <2> HIDE DEF z, e
  <2>7. Emit(z).source = None BY <2>4, <2>5, EmitNames
  <2> QED BY <2>4, <2>6, <2>7
<1>2. Named(c) => Named(e) BY <1>e, <1>1, DarkNamed
<1>3. ASSUME NEW keep \in BOOLEAN PROVE Named(Clear(c, keep))
  <2>1. Clear(c, keep) = ClearSlot(e, keep) BY DEF Clear
  <2> HIDE DEF e
  <2>2. Clear(c, keep).source = None BY <1>e, <2>1, ClearSlotDark
  <2>3. Idle(Clear(c, keep)) BY ClearDoes
  <2> QED BY <2>2, <2>3, DarkNamed DEF Idle
<1> QED BY <1>e, <1>2, <1>3

\* The provenance of a take.
LEMMA SetLiveRowNames ==
  ASSUME NEW k, NEW c \in Sound(k), NEW row
  PROVE  LET d == SetLiveRow(c, row)
         IN  /\ d.name = c.name /\ d.source = row /\ d.song = c.song
             /\ d.songQ = c.songQ /\ d.slides = c.slides
             /\ d.st.active = c.st.active
<1>c. c \in Channel /\ c.st \in State BY Parts
<1> QED BY <1>c DEF SetLiveRow, Emit, Channel, State

----------------------------------------------------------------------------
\* A take from outside the sessions records the row it is for.
LEMMA TakeNames ==
  ASSUME NEW k, NEW c \in Sound(k), NEW m \in TakePick, NEW t \in Nat,
         ~RefusesDraft(c, m.tpl), Good(c), m.shows.row = m.row
  PROVE  LET d == Take(c, m, t)
         IN  /\ d \in Sound(k) /\ d.song = None /\ d.slides = None
             /\ d.songQ = None /\ d.source = m.row /\ OfRow(d, m.row)
<1> DEFINE free == SlidesDropAll(DropSongQueue(TearDownSong(c)))
           up == Mount(DropScripture(free), m.tpl, m.ctx, m.shows, t)
           row == IF m.row = None THEN c.st.liveRow ELSE m.row
           reads == IF m.scr = None /\ m.tpl \in AutoOut
                      THEN up.lookups \cup {[tpl |-> m.tpl, at |-> t]}
                      ELSE up.lookups
           aired == [up EXCEPT !.st.scr = m.scr, !.st.scrQ = m.scrQ,
                       !.source = m.row, !.st.liveRow = row, !.lookups = reads]
           d == Take(c, m, t)
<1>1. k # Preview => m.tpl \notin Drafts BY Parts DEF RefusesDraft
<1>2. free \in Sound(k) BY DropsSound, SlidesDropAllSound
<1>d. d = Emit(aired) BY DEF Take
<1> HIDE DEF free
<1>3. up \in Sound(k) BY <1>1, <1>2, DropsSound, MountSound DEF TakePick
<1> HIDE DEF up, row, reads
<1>4. up \in Channel BY <1>3, Parts
<1>5. Emit(aired).source = m.row BY <1>4 DEF Channel, Emit
<1> HIDE DEF aired, d
<1>6. /\ d \in Sound(k) /\ d.song = None /\ d.slides = None
      /\ d.songQ = None /\ Aired(d, m, t)
  BY TakeDoes DEF Good, d
<1>7. OfRow(d, m.row) BY <1>6 DEF Aired, OfRow
<1> QED BY <1>5, <1>6, <1>7, <1>d DEF d

\* A take of a graphic.
LEMMA TakeGraphicNamed ==
  ASSUME NEW k, NEW c \in Sound(k), NEW tpl \in Templates,
         NEW row \in Rows \cup {None}, NEW ctx \in Contexts, NEW t \in Nat,
         Good(c)
  PROVE  LET d == TakeGraphic(c, tpl, row, ctx, t)
         IN  /\ Named(c) => Named(d)
             /\ tpl \notin Drafts => /\ d \in Sound(k)
                                     /\ d.song = None /\ d.slides = None
                                     /\ d.source = row /\ OfRow(d, row)
                                     /\ Named(d)
<1> DEFINE m == [tpl |-> tpl, ctx |-> ctx, shows |-> Says(row, 0, 0),
                 row |-> row, scr |-> None, scrQ |-> None]
           d == TakeGraphic(c, tpl, row, ctx, t)
<1>d. d = Take(c, m, t) BY DEF TakeGraphic
<1>1. m \in TakePick BY SaysType DEF TakePick
<1>2. m.tpl = tpl /\ m.row = row /\ m.shows.row = row BY DEF Says
<1> HIDE DEF m, d
<1>3. CASE RefusesDraft(c, m.tpl)
  BY <1>d, <1>2, <1>3 DEF Take, RefusesDraft, d
<1>4. CASE ~RefusesDraft(c, m.tpl)
  <2>1. /\ d \in Sound(k) /\ d.song = None /\ d.slides = None
        /\ d.songQ = None /\ d.source = row /\ OfRow(d, row)
    BY <1>d, <1>1, <1>2, <1>4, TakeNames
  <2> QED BY <2>1, TakenNamed DEF d
<1> QED BY <1>3, <1>4

\* An intro queues its song; an outro leaves none.
LEMMA IntroAndOutroNamed ==
  ASSUME NEW k, NEW c \in Sound(k), Good(c), Named(c),
         NEW row \in SongRows, NEW t \in Nat
  PROVE  Named(SongIntro(c, row, t)) /\ Named(SongOutro(c, row, t))
<1> DEFINE up == TakeGraphic(c, SongInfo[row].intro, row, "intro", t)
           d == SongIntro(c, row, t)
<1>1. /\ SongInfo[row].intro \in Templates /\ SongInfo[row].intro \notin Drafts
      /\ SongInfo[row].outro \in Templates /\ row \in Rows \cup {None}
  BY SongParts, SongsAssumption
<1>2. "intro" \in Contexts /\ "outro" \in Contexts BY DEF Contexts
<1>3. /\ up \in Sound(k) /\ up.song = None /\ up.slides = None
      /\ up.source = row /\ OfRow(up, row)
  BY <1>1, <1>2, TakeGraphicNamed
<1>d. d = Emit([up EXCEPT !.songQ = row, !.st.songQ = row]) BY DEF SongIntro
<1> HIDE DEF up, d
<1>4. up \in Channel /\ up.st \in State BY <1>3, Parts
<1>5. /\ d.song = None /\ d.slides = None /\ d.songQ = row /\ d.source = row
      /\ d.st.active = up.st.active
  BY <1>3, <1>4, <1>d DEF Channel, State, Emit
<1>6. OfRow(d, row) BY <1>3, <1>5 DEF OfRow
<1>7. Named(d) BY <1>5, <1>6, TakenNamed
<1>8. Named(SongOutro(c, row, t))
  BY <1>1, <1>2, TakeGraphicNamed DEF SongOutro
<1> QED BY <1>7, <1>8 DEF d

\* A passage and its intro are takes for their row.
LEMMA ScriptureTakesNamed ==
  ASSUME NEW k, NEW c \in Sound(k), Good(c), Named(c),
         NEW row \in ScriptureRows, NEW t \in Nat
  PROVE  /\ Named(ScriptureIntro(c, row, t))
         /\ \A i \in Int : Named(ScriptureSlide(c, row, i, t))
<1>1. ASSUME NEW m \in TakePick, m.tpl \notin Drafts, m.row = row,
             m.shows.row = row
      PROVE  LET up == Take(c, m, t)
             IN  /\ \A x : Named([up EXCEPT !.scrQ = x])
                 /\ \A x : Named([up EXCEPT !.scr = x])
  <2> DEFINE up == Take(c, m, t)
  <2>1. /\ up \in Sound(k) /\ up.song = None /\ up.slides = None
        /\ up.songQ = None /\ up.source = row /\ OfRow(up, row)
    BY <1>1, TakeNames DEF RefusesDraft
  <2> HIDE DEF up
  <2>2. up \in Channel BY <2>1, Parts
  <2>3. ASSUME NEW e, e.song = up.song, e.slides = up.slides,
               e.songQ = up.songQ, e.source = up.source, e.st = up.st
        PROVE  Named(e)
    <3>1. OfRow(e, row) BY <2>1, <2>3 DEF OfRow
    <3> QED BY <2>1, <2>3, <3>1, TakenNamed
  <2>4. ASSUME NEW x
        PROVE  LET e == [up EXCEPT !.scrQ = x]
               IN  /\ e.song = up.song /\ e.slides = up.slides
                   /\ e.songQ = up.songQ /\ e.source = up.source /\ e.st = up.st
    BY <2>2 DEF Channel
  <2>5. ASSUME NEW x
        PROVE  LET e == [up EXCEPT !.scr = x]
               IN  /\ e.song = up.song /\ e.slides = up.slides
                   /\ e.songQ = up.songQ /\ e.source = up.source /\ e.st = up.st
    BY <2>2 DEF Channel
  <2>6. ASSUME NEW x PROVE Named([up EXCEPT !.scrQ = x]) BY <2>3, <2>4
  <2>7. ASSUME NEW x PROVE Named([up EXCEPT !.scr = x]) BY <2>3, <2>5
  <2> QED BY <2>6, <2>7 DEF up
<1>2. Named(ScriptureIntro(c, row, t))
  <2> DEFINE m == [tpl |-> ScriptureInfo[row].intro, ctx |-> "scrIntro",
                   shows |-> Says(row, 0, 0), row |-> row,
                   scr |-> None, scrQ |-> row]
  <2>1. m \in TakePick /\ m.tpl \notin Drafts
    BY ScriptureAssumption, SaysType DEF TakePick, Contexts, Rows
  <2>2. m.row = row /\ m.shows.row = row BY DEF Says
  <2>3. ScriptureIntro(c, row, t) = [Take(c, m, t) EXCEPT !.scrQ = row]
    BY DEF ScriptureIntro
  <2> HIDE DEF m
  <2> QED BY <1>1, <2>1, <2>2, <2>3
<1>3. ASSUME NEW i \in Int PROVE Named(ScriptureSlide(c, row, i, t))
  <2> DEFINE session == [row |-> row, slide |-> i]
             m == [tpl |-> ScriptureInfo[row].tpl, ctx |-> "scrSlide",
                   shows |-> Says(row, 0, i), row |-> row,
                   scr |-> session, scrQ |-> None]
  <2>1. CASE i \notin 1..ScriptureInfo[row].count BY <2>1 DEF ScriptureSlide
  <2>2. CASE i \in 1..ScriptureInfo[row].count
    <3>1. i \in Nat BY <2>2, ScriptureAssumption
    <3>2. session \in ScriptureSession BY <3>1 DEF ScriptureSession
    <3>3. ScriptureSlide(c, row, i, t) = [Take(c, m, t) EXCEPT !.scr = session]
      BY <2>2 DEF ScriptureSlide
    <3> HIDE DEF session
    <3>4. m \in TakePick /\ m.tpl \notin Drafts
      BY <3>1, <3>2, ScriptureAssumption, SaysType DEF TakePick, Contexts, Rows
    <3>5. m.row = row /\ m.shows.row = row BY DEF Says
    <3> HIDE DEF m
    <3> QED BY <1>1, <3>3, <3>4, <3>5
  <2> QED BY <2>1, <2>2
<1> QED BY <1>2, <1>3

\* The other scripture commands.
LEMMA ScriptureStepsNamed ==
  ASSUME NEW k, NEW c \in Sound(k), Good(c), Named(c), NEW t \in Nat
  PROVE  /\ \A d \in {-1, 1} : Named(ScriptureAdvance(c, d, t))
         /\ \A i \in Nat : Named(ScriptureGoTo(c, i, t))
         /\ Named(ScriptureEnd(c))
<1>1. c.scr # None => c.scr.row \in ScriptureRows /\ c.scr.slide \in Nat
  BY Parts DEF ScriptureSession
<1>2. c.scrQ # None => c.scrQ \in ScriptureRows BY Parts
<1>3. ASSUME NEW d \in {-1, 1} PROVE Named(ScriptureAdvance(c, d, t))
  <2>1. c.scr # None => c.scr.slide + d \in Int BY <1>1
  <2>2. c.scr # None => Named(ScriptureSlide(c, c.scr.row, c.scr.slide + d, t))
    BY <1>1, <2>1, ScriptureTakesNamed
  <2>3. c.scrQ # None => Named(ScriptureSlide(c, c.scrQ, 1, t))
    BY <1>2, ScriptureTakesNamed
  <2> QED BY <2>2, <2>3 DEF ScriptureAdvance
<1>4. ASSUME NEW i \in Nat PROVE Named(ScriptureGoTo(c, i, t))
  <2>1. i \in Int OBVIOUS
  <2> QED BY <1>1, <1>2, <2>1, ScriptureTakesNamed DEF ScriptureGoTo
<1>5. Named(ScriptureEnd(c))
  <2> DEFINE q == DropScriptureQueue(c)
             d == Emit(q)
  <2>1. /\ q \in Sound(k) /\ KeepsScreen(c, q) /\ KeepsSong(c, q)
        /\ KeepsDecks(c, q) /\ q.songQ = c.songQ /\ q.name = c.name
        /\ q.source = c.source
    BY DropsSound, DropsDo, DropsKeepSource
  <2> HIDE DEF q
  <2>2. SameNames(c, q)
    BY <2>1 DEF SameNames, KeepsScreen, KeepsSong, KeepsDecks
  <2>3. Named(d) BY <2>1, <2>2, EmitNames, StillNamed
  <2>4. MediaGood(c) /\ Mirrors(c) BY DEF Good
  <2> QED BY <2>3, <2>4, ClearsAreDark DEF ScriptureEnd, d, q
<1> QED BY <1>3, <1>4, <1>5

----------------------------------------------------------------------------
\* An edit keeps whose row the graphic is for, and so do the auto-out's
\* template read, a sweep, a matched hypothesis and a change of trust.
LEMMA EditFieldsNamed ==
  ASSUME NEW k, NEW c \in Sound(k), Named(c)
  PROVE  Named(EditFields(c))
<1> DEFINE x == [c.st.active.shows EXCEPT !.edited = TRUE]
           d == EditFields(c)
<1>1. CASE c.st.active = None BY <1>1 DEF EditFields
<1>2. CASE c.st.active # None
  <2>d. d = Update(c, x) BY <1>2 DEF EditFields
  <2>1. c.st.active.shows \in Text BY <1>2, StParts DEF Airable, Graphic
  <2>2. x \in Text /\ x.row = c.st.active.shows.row BY <2>1 DEF Text
  <2> HIDE DEF x, d
  <2>3. KeepsSessions(c, d) /\ d.st.active.shows = x /\ d.source = c.source
    BY <1>2, <2>d, <2>2, UpdateDoes, UpdateKeepsSource
  <2>4. SameNames(c, d)
    BY <1>2, <2>2, <2>3
    DEF SameNames, KeepsSessions, KeepsSong, KeepsQueues, KeepsDecks
  <2> QED BY <2>4, StillNamed DEF d
<1> QED BY <1>1, <1>2

\* The template read.
LEMMA AutoOutAnswerNamed ==
  ASSUME NEW k, NEW c \in Sound(k), Named(c), NEW ref
  PROVE  Named(AutoOutAnswer(c, ref))
<1>c. c \in Channel BY Parts
<1> DEFINE d == AutoOutAnswer(c, ref)
<1>1. SameNames(c, d) BY <1>c DEF AutoOutAnswer, Channel, SameNames
<1> QED BY <1>1, StillNamed

\* The timer clears the channel or does nothing to it.
LEMMA AutoOutFiresNamed ==
  ASSUME NEW k, NEW c \in Sound(k), Good(c), Named(c)
  PROVE  Named(AutoOutFires(c))
<1>c. c \in Channel BY Parts
<1> DEFINE f == CancelAutoOut(c)
<1>1. f \in Sound(k) BY CancelAutoOutSound
<1>2. SameNames(c, f) BY <1>c DEF CancelAutoOut, Channel, SameNames
<1>3. MediaGood(f) /\ Mirrors(f)
  <2>1. KeepsSessions(c, f)
    BY <1>c
    DEF CancelAutoOut, Channel, KeepsSessions, KeepsSong, KeepsQueues,
        KeepsPassage, KeepsDecks
  <2> QED BY <2>1, DecksKeepMedia, SessionsKeepMirrors DEF Good, KeepsSessions
<1> HIDE DEF f
<1>4. Named(f) BY <1>2, StillNamed
<1>5. Named(Clear(f, TRUE)) BY <1>1, <1>3, ClearsAreDark
<1> QED BY <1>4, <1>5 DEF AutoOutFires, f

\* A sweep.
LEMMA SweepNamed ==
  ASSUME NEW k, NEW c \in Sound(k), Named(c), NEW at
  PROVE  Named(Sweep(c, at))
<1>c. c \in Channel /\ c.st \in State BY Parts
<1> DEFINE d == Sweep(c, at)
<1>1. SameNames(c, d) BY <1>c DEF Sweep, Emit, Channel, State, SameNames
<1> QED BY <1>1, StillNamed

\* A hypothesis.
LEMMA HypothesisNamed ==
  ASSUME NEW k, NEW c \in Sound(k), Named(c), NEW p, NEW sure
  PROVE  Named(Hypothesis(c, p, sure))
<1>c. c \in Channel BY Parts
<1> DEFINE d == Hypothesis(c, p, sure)
<1>1. SameNames(c, [c EXCEPT !.match = p]) BY <1>c DEF Channel, SameNames
<1>2. SameNames(c, [[c EXCEPT !.match = p] EXCEPT !.stt = p])
  BY <1>c DEF Channel, SameNames
<1>3. SameNames(c, c) BY DEF SameNames
<1>4. d \in {c, [c EXCEPT !.match = p], [[c EXCEPT !.match = p] EXCEPT !.stt = p]}
  BY DEF Hypothesis
<1> HIDE DEF d
<1>5. SameNames(c, d) BY <1>1, <1>2, <1>3, <1>4
<1> QED BY <1>5, StillNamed DEF d

\* A change of trust.
LEMMA SongTrustNamed ==
  ASSUME NEW k, NEW c \in Sound(k), Named(c), NEW trust \in BOOLEAN
  PROVE  Named(SongTrust(c, trust))
<1>c. c \in Channel /\ c.st \in State BY Parts
<1> DEFINE s == [c.song EXCEPT !.trust = trust]
           d == SongTrust(c, trust)
<1>1. CASE c.song = None BY <1>1 DEF SongTrust
<1>2. CASE c.song # None
  <2>1. c.song \in SongSession BY <1>2, Parts
  <2>2. s \in SongSession /\ s.row = c.song.row BY <2>1 DEF SongSession
  <2>3. s # None BY <2>2, NoneAssumption
  <2>4. d = Emit([c EXCEPT !.song = s, !.st.song = s])
    BY <1>2 DEF SongTrust
  <2> HIDE DEF s, d
  <2>5. /\ d.song = s /\ d.name = c.name /\ d.source = c.source
        /\ d.songQ = c.songQ /\ d.slides = c.slides
        /\ d.st.active = c.st.active
    BY <1>c, <2>4 DEF Emit, Channel, State
  <2>6. SameNames(c, d) BY <1>2, <2>2, <2>3, <2>5 DEF SameNames
  <2> QED BY <2>6, StillNamed DEF d
<1> QED BY <1>1, <1>2

\* A queue that is dropped takes no name along.
LEMMA NoQueueNamed ==
  ASSUME NEW c, NEW d, Named(c), d.name = c.name, d.source = c.source,
         d.song = c.song, d.slides = c.slides, d.songQ = None,
         d.st.active = c.st.active
  PROVE  Named(d)
BY DEF Named, SongNamed, DeckNamed, QueueNamed, GraphicNamed, Cued, OfRow

\* Ending a queued song.
LEMMA ClearQueuedSongNames ==
  ASSUME NEW k, NEW c \in Sound(k)
  PROVE  LET d == ClearQueuedSong(c)
         IN  /\ d.name = c.name /\ d.source = c.source /\ d.songQ = None
             /\ d.song = c.song /\ d.slides = c.slides
             /\ d.st.active = c.st.active
             /\ Named(c) => Named(d)
<1> DEFINE d == ClearQueuedSong(c)
<1>c. c \in Channel /\ c.st \in State BY Parts
<1>1. /\ d.name = c.name /\ d.source = c.source /\ d.songQ = None
      /\ d.song = c.song /\ d.slides = c.slides
      /\ d.st.active = c.st.active
  BY <1>c DEF ClearQueuedSong, DropSongQueue, Emit, Channel, State
<1> HIDE DEF d
<1>2. Named(c) => Named(d) BY <1>1, NoQueueNamed
<1> QED BY <1>1, <1>2 DEF d

----------------------------------------------------------------------------
\* Drawing a song keeps its session and its name, or forgets the source.
LEMMA RenderSongNames ==
  ASSUME NEW k, NEW c \in Sound(k), c.song \in SongSession, NEW force \in BOOLEAN,
         NEW t \in Nat
  PROVE  LET d == RenderSong(c, force, t)
         IN  /\ d.name = c.name /\ d.song = c.song /\ d.songQ = c.songQ
             /\ d.slides = c.slides /\ d.source \in {None, c.source}
             /\ c.song.blanked => \A row : OfRow(c, row) => OfRow(d, row)
<1>c. c \in Channel /\ c.st \in State BY Parts
<1> DEFINE s == c.song
           lyric == SongInfo[s.row].lyric
           text == Says(s.row, s.cur.sec, s.cur.slide)
           told == Emit([c EXCEPT !.st.song = s])
           d == RenderSong(c, force, t)
<1>1. lyric \in Templates \ Drafts BY SongPut, SongsAssumption
<1>2. text \in Text BY SongPut, SongParts, SaysType DEF Cursor
<1>3. told \in Sound(k) BY StPut, EmitSound
<1>4. /\ told.name = c.name /\ told.song = s /\ told.songQ = c.songQ
      /\ told.slides = c.slides /\ told.source = c.source
      /\ told.st.active = c.st.active
  BY <1>c DEF Channel, State, Emit
<1>d. d = CASE s.blanked -> ClearInternal(told)
            [] ~s.blanked /\ ~OnSlide(SongInfo[s.row].song, s.arr, s.cur) -> told
            [] OTHER -> IF ~force /\ OnScreen(c) /\ c.st.active.tpl = lyric
                          THEN Update(told, text)
                          ELSE TakeInternal(told, lyric, text, t)
  BY DEF RenderSong
<1>n. s.blanked \in BOOLEAN BY SongPut
<1> HIDE DEF told, lyric, text, d
<1>5. CASE s.blanked
  <2>1. d = ClearInternal(told) BY <1>5, <1>d
  <2>2. KeepsSessions(told, d) BY <1>3, <2>1, ClearInternalDoes
  <2>3. /\ d.source = None
        /\ d.st.active # None =>
             told.st.active # None /\ d.st.active.shows = told.st.active.shows
    BY <1>3, <2>1, ClearInternalNames
  <2>4. \A row : OfRow(c, row) => OfRow(d, row) BY <1>4, <2>3 DEF OfRow
  <2> QED BY <1>4, <2>2, <2>3, <2>4
    DEF KeepsSessions, KeepsSong, KeepsQueues, KeepsDecks, d
<1>6. CASE ~s.blanked
  <2>1. d \in {told, Update(told, text), TakeInternal(told, lyric, text, t)}
    BY <1>6, <1>d
  <2>2. CASE d = told BY <1>4, <1>6, <2>2 DEF d
  <2>3. CASE d = Update(told, text)
    <3>1. CASE told.st.active = None BY <1>4, <1>6, <2>3, <3>1 DEF Update, d
    <3>2. CASE told.st.active # None
      <4>1. KeepsSessions(told, d) /\ d.source = told.source
        BY <1>2, <1>3, <2>3, <3>2, UpdateDoes, UpdateKeepsSource
      <4> QED BY <1>4, <1>6, <4>1
        DEF KeepsSessions, KeepsSong, KeepsQueues, KeepsDecks, d
    <3> QED BY <3>1, <3>2
  <2>4. CASE d = TakeInternal(told, lyric, text, t)
    <3>1. /\ KeepsSong(told, d) /\ KeepsDecks(told, d) /\ d.name = told.name
          /\ d.songQ = told.songQ /\ d.source = told.source
      BY <1>1, <1>2, <1>3, <2>4, TakeInternalDoes, TakeInternalKeepsSource
    <3> QED BY <1>4, <1>6, <3>1 DEF KeepsSong, KeepsDecks, d
  <2> QED BY <2>1, <2>2, <2>3, <2>4
<1> QED BY <1>5, <1>6, <1>n

\* A live song drawn again is still what its source names.
LEMMA SongDrawnNamed ==
  ASSUME NEW k, NEW c, Named(c), c.song # None,
         NEW f \in Sound(k), f.song \in SongSession, f.song.row = c.song.row,
         f.name = c.name, f.source = c.source, f.songQ = c.songQ,
         f.slides = c.slides, f.st.active = c.st.active,
         NEW force \in BOOLEAN, NEW t \in Nat
  PROVE  LET d == RenderSong(f, force, t)
         IN  /\ d.song # None /\ d.song.row = c.song.row
             /\ Good(d) /\ CuedOnSlide(d) => Named(d)
<1> DEFINE d == RenderSong(f, force, t)
<1>1. /\ c.slides = None /\ c.songQ = None /\ c.source \in {None, c.song.row}
      /\ Cued(c) => OfRow(c, c.song.row)
  BY DEF Named, SongNamed
<1>2. /\ d.name = f.name /\ d.song = f.song /\ d.songQ = f.songQ
      /\ d.slides = f.slides /\ d.source \in {None, f.source}
      /\ f.song.blanked => \A row : OfRow(f, row) => OfRow(d, row)
  BY RenderSongNames
<1>3. d.song # None BY <1>2, NoneAssumption
<1> HIDE DEF d
<1>4. d.song.blanked /\ Cued(d) => OfRow(d, d.song.row)
  BY <1>1, <1>2 DEF Cued, OfRow
<1>5. Good(d) /\ CuedOnSlide(d) => Named(d)
  BY <1>1, <1>2, <1>3, <1>4, SongUpNamed
<1> QED BY <1>2, <1>3, <1>5 DEF d

\* Moving the cursor of a live song, on a channel that is still c but for it.
LEMMA SongToNamed ==
  ASSUME NEW k, NEW c, Named(c), c.song # None,
         NEW f \in Sound(k), f.song \in SongSession, f.song.row = c.song.row,
         f.name = c.name, f.source = c.source, f.songQ = c.songQ,
         f.slides = c.slides, f.st.active = c.st.active,
         NEW cur \in Cursor, NEW t \in Nat
  PROVE  LET d == SongTo(f, cur, t)
         IN  /\ d.song # None /\ d.song.row = c.song.row
             /\ Good(d) /\ CuedOnSlide(d) => Named(d)
<1> DEFINE s == [f.song EXCEPT !.cur = cur]
           g == [f EXCEPT !.song = s]
           d == RenderSong(g, TRUE, t)
<1>c. f \in Channel BY Parts
<1>1. s \in SongSession BY SongPut
<1>2. s.row = f.song.row BY DEF SongSession
<1>3. SongTo(f, cur, t) = d BY DEF SongTo
<1> HIDE DEF s
<1>4. /\ g \in Sound(k) /\ g.song = s /\ g.name = f.name
      /\ g.source = f.source /\ g.songQ = f.songQ /\ g.slides = f.slides
      /\ g.st.active = f.st.active
  <2>1. g \in Sound(k) BY <1>1, Put
  <2> QED BY <1>c, <2>1 DEF Channel
<1> HIDE DEF g
<1>5. TRUE \in BOOLEAN OBVIOUS
<1>6. /\ g.song \in SongSession /\ g.song.row = c.song.row
      /\ g.name = c.name /\ g.source = c.source /\ g.songQ = c.songQ
      /\ g.slides = c.slides /\ g.st.active = c.st.active
  BY <1>1, <1>2, <1>4
<1>7. /\ d.song # None /\ d.song.row = c.song.row
      /\ Good(d) /\ CuedOnSlide(d) => Named(d)
  BY <1>4, <1>5, <1>6, SongDrawnNamed
<1> QED BY <1>3, <1>7

\* start() of row `row`: what it leaves of the channel's source.
LEMMA SongStartNames ==
  ASSUME NEW k, NEW c \in Sound(k), NEW row \in SongRows, MediaGood(c),
         NEW arr \in Seq(Sections), NEW cur \in Cursor, NEW t \in Nat
  PROVE  LET d == SongStart(c, row, arr, cur, t)
         IN  /\ d.name = c.name /\ d.song # None /\ d.song.row = row
             /\ ~d.song.blanked /\ d.slides = None /\ d.songQ = None
             /\ d.source \in {None, c.source}
<1> DEFINE s == NewSong(row, arr, cur, SongInfo[row].trust)
           q == DropSongQueue(c)
           free == SlidesDropAll(q)
           up == [free EXCEPT !.song = s, !.heard = Len(arr)]
           d == RenderSong(up, TRUE, t)
<1>1. s \in SongSession /\ Len(arr) \in Nat BY SongParts, NewSongType
<1>2. s.row = row /\ ~s.blanked BY DEF NewSong
<1>s. SongStart(c, row, arr, cur, t) = d BY DEF SongStart
<1>3. /\ q \in Sound(k) /\ q.songQ = None /\ KeepsDecks(c, q)
      /\ q.name = c.name /\ q.source = c.source
  BY DropsSound, DropsDo, DropsKeepSource
<1> HIDE DEF s, q
<1>4. MediaGood(q) BY <1>3, DecksKeepMedia
<1>5. /\ free \in Sound(k) /\ free.songQ = None /\ free.slides = None
      /\ free.name = c.name /\ free.source = c.source
  BY <1>3, <1>4, SlidesDropAllDoes, DropAllKeepsSource DEF KeepsQueues
<1> HIDE DEF free
<1>6. /\ up \in Sound(k) /\ up.song = s /\ up.songQ = None
      /\ up.slides = None /\ up.name = c.name /\ up.source = c.source
  <2>1. up \in Sound(k) BY <1>1, <1>5, Put
  <2>2. free \in Channel BY <1>5, Parts
  <2> QED BY <1>5, <2>1, <2>2 DEF Channel
<1> HIDE DEF up
<1>7. TRUE \in BOOLEAN OBVIOUS
<1>8. /\ d.name = up.name /\ d.song = s /\ d.songQ = None
      /\ d.slides = None /\ d.source \in {None, c.source}
  BY <1>1, <1>6, <1>7, RenderSongNames
<1> QED BY <1>1, <1>2, <1>6, <1>8, <1>s, NoneAssumption

\* A start whose provenance is recorded, or was right before.
LEMMA SongStartNamed ==
  ASSUME NEW k, NEW c \in Sound(k), Good(c), NEW row \in SongRows,
         NEW arr \in Seq(Sections), NEW cur \in Cursor, NEW t \in Nat
  PROVE  LET d == SongStart(c, row, arr, cur, t)
             e == SetLiveRow(d, row)
         IN  /\ CuedOnSlide(e) => Named(e)
             /\ c.source \in {None, row} /\ CuedOnSlide(d) => Named(d)
<1> DEFINE d == SongStart(c, row, arr, cur, t)
           e == SetLiveRow(d, row)
<1>1. /\ d.name = c.name /\ d.song # None /\ d.song.row = row
      /\ ~d.song.blanked /\ d.slides = None /\ d.songQ = None
      /\ d.source \in {None, c.source}
  BY SongStartNames DEF Good
<1>2. d \in Sound(k) /\ Good(d) BY SongStartSound, SongStartGood
<1> HIDE DEF d
<1>3. /\ e.name = d.name /\ e.source = row /\ e.song = d.song
      /\ e.songQ = d.songQ /\ e.slides = d.slides
  BY <1>2, SetLiveRowNames
<1>4. Good(e) BY <1>2, SetLiveRowGood
<1> HIDE DEF e
<1>5. CuedOnSlide(e) => Named(e) BY <1>1, <1>3, <1>4, SongUpNamed
<1>6. c.source \in {None, row} /\ CuedOnSlide(d) => Named(d)
  BY <1>1, <1>2, SongUpNamed
<1> QED BY <1>5, <1>6 DEF d, e

\* A song taken from the rundown.
LEMMA SongTakeNamed ==
  ASSUME NEW k, NEW c \in Sound(k), Good(c), NEW row \in SongRows, NEW t \in Nat,
         CuedOnSlide(SongTake(c, row, t))
  PROVE  Named(SongTake(c, row, t))
<1>1. SongInfo[row].arr \in Seq(Sections) BY SongParts
<1> QED BY <1>1, FirstSlideType, SongStartNamed DEF SongTake

\* Next and previous; next starts a queued song, whose intro left the source.
LEMMA SongAdvanceNamed ==
  ASSUME NEW k, NEW c \in Sound(k), Good(c), Named(c), NEW d \in {-1, 1},
         NEW t \in Nat
  PROVE  LET e == SongAdvance(c, d, t)
         IN  /\ CuedOnSlide(e) => Named(e)
             /\ c.song # None => e.song # None /\ e.song.row = c.song.row
<1> DEFINE next == StepCursor(SongInfo[c.song.row].song, c.song.arr, c.song.cur, d)
           x == SongTo(c, next, t)
           e == SongAdvance(c, d, t)
<1>1. CASE c.song # None
  <2>1. c.song \in SongSession /\ next \in Cursor
    BY <1>1, Parts, SongPut, SongParts, StepCursorType
  <2>2. Good(x)
    BY <2>1, SongToGood DEF Good, Mirrors, Screen
  <2>3. e = x \/ e = c BY <1>1 DEF SongAdvance
  <2> HIDE DEF next
  <2>4. /\ x.song # None /\ x.song.row = c.song.row
        /\ Good(x) /\ CuedOnSlide(x) => Named(x)
    BY <1>1, <2>1, SongToNamed
  <2> HIDE DEF x, e
  <2> QED BY <1>1, <2>2, <2>3, <2>4 DEF e
<1>2. CASE c.song = None
  <2> DEFINE y == SongStart(c, c.songQ, SongInfo[c.songQ].arr, FirstSlide, t)
  <2>1. CASE c.songQ # None
    <3>1. c.songQ \in SongRows BY <2>1, Parts
    <3>2. SongInfo[c.songQ].arr \in Seq(Sections) BY <3>1, SongParts
    <3>3. c.source \in {None, c.songQ}
      BY <1>2, <2>1 DEF Named, QueueNamed
    <3>4. CuedOnSlide(y) => Named(y)
      BY <3>1, <3>2, <3>3, FirstSlideType, SongStartNamed
    <3>5. e = y \/ e = c BY <1>2 DEF SongAdvance
    <3> HIDE DEF y, e
    <3> QED BY <1>2, <3>4, <3>5 DEF e
  <2>2. CASE c.songQ = None BY <1>2, <2>2 DEF SongAdvance
  <2> QED BY <2>1, <2>2
<1> QED BY <1>1, <1>2

\* A jump, an appended section included.
LEMMA SongJumpNamed ==
  ASSUME NEW k, NEW c \in Sound(k), Good(c), Named(c), NEW section \in Sections,
         NEW slide \in Nat, NEW t \in Nat,
         CuedOnSlide(SongJump(c, section, slide, t))
  PROVE  Named(SongJump(c, section, slide, t))
<1>c. c \in Channel BY Parts
<1> DEFINE row == IF c.song = None THEN c.songQ ELSE c.song.row
           arr == IF c.song = None THEN SongInfo[row].arr ELSE c.song.arr
           i == IF c.song = None THEN 0 ELSE c.song.cur.sec
           found == OccurrenceFor(arr, section, i)
           target == IF found = 0 THEN Append(arr, section) ELSE arr
           cur == [sec |-> IF found = 0 THEN Len(arr) + 1 ELSE found,
                   slide |-> slide]
           s == [c.song EXCEPT !.arr = target]
           put == [c EXCEPT !.song = s]
           d == SongJump(c, section, slide, t)
<1>g. Good(d) BY SongJumpGood
<1>1. CASE row = None BY <1>1 DEF SongJump
<1>2. CASE row # None
  <2>1. row \in SongRows /\ (c.song # None => c.song \in SongSession)
    BY <1>2, Parts, SongPut
  <2>a. c.song = None => c.source \in {None, row}
    BY <1>2 DEF Named, QueueNamed
  <2>2. arr \in Seq(Sections) /\ i \in Nat
    BY <2>1, SongParts, SongPut DEF Cursor
  <2> HIDE DEF arr, i
  <2>3. found \in Nat BY <2>2, OccurrenceForType
  <2> HIDE DEF found
  <2>4. target \in Seq(Sections) /\ Len(arr) \in Nat BY <2>2
  <2>5. cur \in Cursor BY <2>3, <2>4 DEF Cursor
  <2>8. d = CASE row = None -> c
              [] row # None /\ found = 0
                   /\ section \notin DOMAIN SlideCount[SongInfo[row].song] -> c
              [] OTHER -> IF c.song = None THEN SongStart(c, row, target, cur, t)
                          ELSE SongTo([c EXCEPT !.song.arr = target], cur, t)
    BY Zenon DEF SongJump, cur, target, row, found, arr, i
  <2>9. [c EXCEPT !.song.arr = target] = put OBVIOUS
  <2> HIDE DEF cur, target, row
  <2>10. d \in {c, SongStart(c, row, target, cur, t), SongTo(put, cur, t)}
         /\ (c.song = None => d \in {c, SongStart(c, row, target, cur, t)})
         /\ (c.song # None => d \in {c, SongTo(put, cur, t)})
    <3> HIDE DEF put, d
    <3> QED BY <1>2, <2>8, <2>9
  <2> HIDE DEF d
  <2>6. c.song = None /\ d = SongStart(c, row, target, cur, t) => Named(d)
    BY <2>1, <2>4, <2>5, <2>a, SongStartNamed DEF d
  <2>7. c.song # None /\ d = SongTo(put, cur, t) => Named(d)
    <3> SUFFICES ASSUME c.song # None, d = SongTo(put, cur, t) PROVE Named(d)
      OBVIOUS
    <3>1. s \in SongSession /\ s.row = c.song.row
      BY <2>1, <2>4, SongPut DEF SongSession
    <3> HIDE DEF s
    <3>2. /\ put \in Sound(k) /\ put.song = s /\ put.name = c.name
          /\ put.source = c.source /\ put.songQ = c.songQ
          /\ put.slides = c.slides /\ put.st.active = c.st.active
      <4>1. put \in Sound(k) BY <3>1, Put
      <4> QED BY <1>c, <4>1 DEF Channel
    <3> HIDE DEF put
    <3>3. Good(d) /\ CuedOnSlide(d) BY <1>g DEF d
    <3> QED BY <2>5, <3>1, <3>2, <3>3, SongToNamed
  <2> QED BY <2>6, <2>7, <2>10 DEF d
<1> QED BY <1>1, <1>2

\* Blank and unblank.
LEMMA SongBlankNamed ==
  ASSUME NEW k, NEW c \in Sound(k), Good(c), Named(c), NEW t \in Nat,
         CuedOnSlide(SongBlank(c, t))
  PROVE  Named(SongBlank(c, t))
<1> DEFINE s == [c.song EXCEPT !.blanked = ~@]
           f == [c EXCEPT !.song = s]
<1>g. Good(SongBlank(c, t)) BY SongBlankGood
<1>1. CASE c.song = None BY <1>1, ClearQueuedSongNames DEF SongBlank
<1>2. CASE c.song # None
  <2>1. c.song \in SongSession BY <1>2, Parts
  <2>2. s \in SongSession BY <2>1, SongPut
  <2>3. s.row = c.song.row BY <2>1 DEF SongSession
  <2>4. SongBlank(c, t) = RenderSong(f, FALSE, t) BY <1>2 DEF SongBlank
  <2> HIDE DEF s
  <2>5. /\ f \in Sound(k) /\ f.song = s /\ f.name = c.name
        /\ f.source = c.source /\ f.songQ = c.songQ
        /\ f.slides = c.slides /\ f.st.active = c.st.active
    <3>1. f \in Sound(k) BY <2>2, Put
    <3>2. c \in Channel BY Parts
    <3> QED BY <3>1, <3>2 DEF Channel
  <2> HIDE DEF f
  <2>6. FALSE \in BOOLEAN OBVIOUS
  <2> QED BY <1>2, <1>g, <2>2, <2>3, <2>4, <2>5, <2>6, SongDrawnNamed
<1> QED BY <1>1, <1>2

\* The auto-advance timer.
LEMMA SttFiresNamed ==
  ASSUME NEW k, NEW c \in Sound(k), Good(c), Named(c), c.stt # None,
         NEW t \in Nat, CuedOnSlide(SttFires(c, t))
  PROVE  Named(SttFires(c, t))
<1> DEFINE f == [c EXCEPT !.stt = None]
           d == SttFires(c, t)
<1>g. Good(d) BY SttFiresGood
<1>1. /\ f \in Sound(k) /\ f.song = c.song /\ f.name = c.name
      /\ f.source = c.source /\ f.songQ = c.songQ
      /\ f.slides = c.slides /\ f.st.active = c.st.active
  <2>1. f \in Sound(k) BY Put
  <2>2. c \in Channel BY Parts
  <2> QED BY <2>1, <2>2 DEF Channel
<1>2. d = f \/ (c.song # None /\ d = SongTo(f, c.stt, t)) BY DEF SttFires
<1> HIDE DEF f, d
<1>3. SameNames(c, f) BY <1>1 DEF SameNames
<1>4. c.stt \in Cursor BY Parts
<1>5. c.song # None => c.song \in SongSession BY Parts
<1>6. c.song # None /\ d = SongTo(f, c.stt, t) => Named(d)
  BY <1>1, <1>4, <1>5, <1>g, SongToNamed DEF d
<1> QED BY <1>2, <1>3, <1>6, StillNamed DEF d

\* The lyrics button: the song of the row moves on, or starts.
LEMMA SongLyricsNamed ==
  ASSUME NEW k, NEW c \in Sound(k), Good(c), Named(c), NEW row \in SongRows,
         NEW t \in Nat, CuedOnSlide(SongLyrics(c, row, t))
  PROVE  Named(SongLyrics(c, row, t))
<1>1. CASE c.song # None /\ c.song.row = row
  <2> DEFINE a == SongAdvance(c, 1, t)
             d == SetLiveRow(a, row)
  <2>1. 1 \in {-1, 1} OBVIOUS
  <2>2. a \in Sound(k) BY <2>1, SongAdvanceSound
  <2>3. /\ CuedOnSlide(a) => Named(a)
        /\ a.song # None /\ a.song.row = row
    BY <1>1, <2>1, SongAdvanceNamed
  <2> HIDE DEF a
  <2>4. /\ d.name = a.name /\ d.source = row /\ d.song = a.song
        /\ d.songQ = a.songQ /\ d.slides = a.slides
        /\ d.st.active = a.st.active
    BY <2>2, SetLiveRowNames
  <2>5. SongLyrics(c, row, t) = d BY <1>1 DEF SongLyrics, a
  <2> HIDE DEF d
  <2>6. CuedOnSlide(a)
    BY <2>4, <2>5 DEF CuedOnSlide, Cued, SongIsOnSlide
  <2>7. Named(d)
    BY <2>3, <2>4, <2>6
    DEF Named, SongNamed, DeckNamed, QueueNamed, GraphicNamed, Cued, OfRow
  <2> QED BY <2>5, <2>7
<1>2. CASE ~(c.song # None /\ c.song.row = row)
  <2>1. SongInfo[row].arr \in Seq(Sections) BY SongParts
  <2> QED BY <1>2, <2>1, FirstSlideType, SongStartNamed DEF SongLyrics
<1> QED BY <1>1, <1>2

\* The song of preview goes to program, where it starts for row `row`.
LEMMA SongPromoteNamed ==
  ASSUME NEW j, NEW from \in Sound(j), Good(from), Named(from),
         NEW k, NEW to \in Sound(k), Good(to),
         NEW row \in SongRows, NEW t \in Nat
  PROVE  LET pair == SongPromote(from, to, row, t)
         IN  /\ Named(pair[1])
             /\ /\ CuedOnSlide(pair[2])
                /\ ~(pair[2].song # None /\ pair[2].slides # None)
                => Named(pair[2])
<1> DEFINE src == from.song
           reuse == src # None /\ SongInfo[src.row].song = SongInfo[row].song
           arr == IF reuse THEN src.arr ELSE SongInfo[row].arr
           cur == IF reuse THEN src.cur ELSE FirstSlide
           trust == IF reuse THEN src.trust ELSE SongInfo[row].trust
           s == NewSong(row, arr, cur, trust)
           free == DropSongQueue(to)
           up == [free EXCEPT !.song = s, !.heard = Len(arr)]
           d == RenderSong(up, TRUE, t)
           e == SetLiveRow(d, row)
           pair == SongPromote(from, to, row, t)
<1>1. arr \in Seq(Sections) /\ cur \in Cursor /\ trust \in BOOLEAN
  BY Parts, SongPut, SongParts, FirstSlideType
<1>p. pair = <<EndLiveSong(from), e>> BY DEF SongPromote
<1> HIDE DEF arr, cur, trust
<1>2. s \in SongSession /\ Len(arr) \in Nat BY <1>1, NewSongType
<1>r. s.row = row /\ ~s.blanked BY DEF NewSong
<1> HIDE DEF s
<1>3. free \in Sound(k) /\ free.songQ = None BY DropsSound, DropsDo
<1> HIDE DEF free
<1>4. up \in Sound(k) /\ up.song = s /\ up.songQ = None
  <2>1. up \in Sound(k) BY <1>2, <1>3, Put
  <2>2. free \in Channel BY <1>3, Parts
  <2> QED BY <1>3, <2>1, <2>2 DEF Channel
<1> HIDE DEF up
<1>5. TRUE \in BOOLEAN OBVIOUS
<1>6. d \in Sound(k) BY <1>2, <1>4, <1>5, RenderSongSound
<1>7. d.song = s /\ d.songQ = None BY <1>2, <1>4, <1>5, RenderSongNames
<1> HIDE DEF d
<1>8. e.source = row /\ e.song = s /\ e.songQ = None
  BY <1>6, <1>7, SetLiveRowNames
<1> HIDE DEF e
<1>9. Good(pair[2]) BY SongPromoteGood
<1>10. pair[1] = EndLiveSong(from) /\ pair[2] = e BY <1>p
<1> HIDE DEF pair
<1>11. s # None BY <1>2, NoneAssumption
<1>12. CuedOnSlide(e) /\ ~(e.song # None /\ e.slides # None) => Named(e)
  BY <1>8, <1>9, <1>10, <1>11, <1>r, SongUpNamed
<1>13. Named(EndLiveSong(from)) BY ClearsAreDark DEF Good
<1> QED BY <1>10, <1>12, <1>13 DEF pair

----------------------------------------------------------------------------
\* d is c with its deck drawn: the sessions are kept, the source or none.
DeckDrawn(c, d) ==
  /\ d.name = c.name /\ d.song = c.song /\ d.songQ = c.songQ
  /\ d.slides # None /\ d.slides.row = c.slides.row
  /\ d.slides.blanked = c.slides.blanked
  /\ d.source \in {None, c.source}
  /\ c.slides.blanked => d.source = None

\* A photo or video slide is drawn.
LEMMA RenderMediaSlideNames ==
  ASSUME NEW k, NEW c \in Sound(k), c.slides \in DeckLive,
         Airing(c).kind # "graphic", ~c.slides.blanked, NEW t \in Nat
  PROVE  DeckDrawn(c, RenderMediaSlide(c, t))
<1> DEFINE s == c.slides
           bare == DropScripture(c)
           m == [row |-> s.row, item |-> s.idx, kind |-> Airing(c).kind,
                 loop |-> FALSE, endAction |-> "hold",
                 owner |-> <<"slides", s.row>>]
           taken == MediaTake(bare, m, FALSE, t)
           e == [taken.slides EXCEPT !.mediaAt = taken.st.media.at,
                                     !.playedOut = FALSE]
           noted == [taken EXCEPT !.slides = e]
           d == RenderMediaSlide(c, t)
<1>1. Airing(c).kind \in {"image", "video"} BY DeckParts, SlideParts DEF Airing
<1>2. m \in MediaPick /\ m.owner \in SlideMedia
  BY <1>1, DeckParts DEF MediaPick, SlideMedia
<1>d. d = IF OnScreen(noted) THEN ClearInternal(noted) ELSE noted
  <2> DEFINE n == [taken EXCEPT !.slides.mediaAt = taken.st.media.at,
                                !.slides.playedOut = FALSE]
  <2>1. d = IF OnScreen(n) THEN ClearInternal(n) ELSE n BY DEF RenderMediaSlide
  <2> HIDE DEF d, taken
  <2>2. n = noted OBVIOUS
  <2> HIDE DEF n, noted
  <2> QED BY <2>1, <2>2
<1>3. /\ bare \in Sound(k) /\ bare.name = c.name /\ bare.song = c.song
      /\ bare.songQ = c.songQ /\ bare.slides = s /\ bare.source = c.source
  BY DropsSound, DropsDo, DropsKeepSource DEF KeepsSong, KeepsDecks
<1> HIDE DEF m, bare
<1>4. FALSE \in BOOLEAN OBVIOUS
<1>5. taken \in Sound(k) BY <1>2, <1>3, <1>4, MediaTakeSound
<1>6. SameGraphics(bare, taken) /\ taken.st.media \in Media
  BY <1>2, <1>3, <1>4, MediaTakeDoes
<1> HIDE DEF taken
<1>7. /\ taken.name = c.name /\ taken.song = c.song /\ taken.songQ = c.songQ
      /\ taken.slides = s /\ taken.source = c.source
  BY <1>3, <1>6 DEF SameGraphics
<1>8. e \in DeckLive BY <1>6, <1>7, DeckPut DEF Media
<1>9. e.row = s.row /\ e.blanked = s.blanked
  BY <1>7, DeckParts DEF SlidesSession
<1> HIDE DEF e
<1>10. /\ noted \in Sound(k) /\ noted.slides = e /\ e # None
       /\ noted.name = taken.name
       /\ KeepsSong(taken, noted) /\ KeepsQueues(taken, noted)
  BY <1>5, <1>8, PutSlides
<1>11. noted.source = taken.source BY <1>5, Parts DEF Channel
<1> HIDE DEF noted, d
<1>12. CASE ~OnScreen(noted)
  BY <1>d, <1>7, <1>9, <1>10, <1>11, <1>12
  DEF DeckDrawn, KeepsSong, KeepsQueues, d
<1>13. CASE OnScreen(noted)
  <2>1. KeepsSessions(noted, d) /\ d.source = None
    BY <1>d, <1>10, <1>13, ClearInternalDoes, ClearInternalNames
  <2> QED BY <1>7, <1>9, <1>10, <2>1
    DEF DeckDrawn, KeepsSessions, KeepsSong, KeepsQueues, KeepsDecks, d
<1> QED BY <1>12, <1>13

\* Any slide is drawn.
LEMMA RenderSlidesNames ==
  ASSUME NEW k, NEW c \in Sound(k), c.slides \in DeckLive, NEW force \in BOOLEAN,
         NEW t \in Nat
  PROVE  DeckDrawn(c, RenderSlides(c, force, t))
<1> DEFINE s == c.slides
           slide == Airing(c)
           text == Says(s.row, 0, s.idx)
           told == PublishSlides(c)
           free == ReleaseMedia(told, s.row)
           d == RenderSlides(c, force, t)
<1>c. c \in Channel BY Parts
<1>1. slide.tpl \in Templates /\ (slide.kind = "graphic" => slide.tpl \notin Drafts)
  BY DeckParts, SlideParts DEF Airing, DeckSlide
<1>2. text \in Text BY DeckParts, SaysType
<1>n. s # None /\ s.blanked \in BOOLEAN
  BY NoneAssumption, DeckParts DEF SlidesSession
<1>3. /\ told \in Sound(k) /\ told.slides = s /\ told.name = c.name
      /\ told.song = c.song /\ told.songQ = c.songQ /\ told.source = c.source
  <2>1. told \in Sound(k) BY PublishSlidesSound
  <2> QED BY <1>c, <2>1 DEF PublishSlides, Channel
<1>d. d = CASE s.blanked -> Emit(ClearInternal(free))
            [] ~s.blanked /\ slide.kind # "graphic" -> RenderMediaSlide(told, t)
            [] OTHER -> IF ~force /\ OnScreen(free) /\ free.st.active.tpl = slide.tpl
                          THEN Update(free, text)
                          ELSE TakeInternal(free, slide.tpl, text, t)
  BY DEF RenderSlides
<1>a. Airing(told) = slide BY <1>3 DEF Airing
<1> HIDE DEF told
<1>4. free \in Sound(k) /\ SameGraphics(told, free) BY <1>3, ReleaseMediaDoes
<1> HIDE DEF free, text, d, slide
<1>5. /\ free.slides = s /\ free.name = c.name /\ free.song = c.song
      /\ free.songQ = c.songQ /\ free.source = c.source
  BY <1>3, <1>4 DEF SameGraphics
<1>6. ASSUME s.blanked PROVE DeckDrawn(c, d)
  <2> DEFINE z == ClearInternal(free)
  <2>1. z \in Sound(k) /\ KeepsSessions(free, z) /\ z.source = None
    BY <1>4, ClearInternalSound, ClearInternalDoes, ClearInternalNames
  <2> HIDE DEF z
  <2>2. d = Emit(z) BY <1>6, <1>d DEF z
  <2>3. KeepsSessions(z, d) /\ d.source = None
    BY <2>1, <2>2, EmitKeeps, EmitNames
  <2> QED BY <1>5, <1>n, <2>1, <2>3
    DEF DeckDrawn, KeepsSessions, KeepsSong, KeepsQueues, KeepsDecks
<1>7. ASSUME ~s.blanked, slide.kind # "graphic" PROVE DeckDrawn(c, d)
  <2>1. d = RenderMediaSlide(told, t) BY <1>7, <1>d
  <2>2. DeckDrawn(told, d) BY <1>3, <1>7, <1>a, <2>1, RenderMediaSlideNames
  <2> QED BY <1>3, <2>2 DEF DeckDrawn
<1>8. ASSUME ~s.blanked, slide.kind = "graphic" PROVE DeckDrawn(c, d)
  <2>1. CASE ~force /\ OnScreen(free) /\ free.st.active.tpl = slide.tpl
    <3>1. d = Update(free, text) BY <1>8, <1>d, <2>1
    <3>2. free.st.active # None BY <2>1 DEF OnScreen
    <3>3. KeepsSessions(free, d) /\ d.source = free.source
      BY <1>2, <1>4, <3>1, <3>2, UpdateDoes, UpdateKeepsSource
    <3> QED BY <1>5, <1>8, <1>n, <3>3
      DEF DeckDrawn, KeepsSessions, KeepsSong, KeepsQueues, KeepsDecks
  <2>2. CASE ~(~force /\ OnScreen(free) /\ free.st.active.tpl = slide.tpl)
    <3>1. d = TakeInternal(free, slide.tpl, text, t) BY <1>8, <1>d, <2>2
    <3>2. slide.tpl \in Templates \ Drafts BY <1>1, <1>8
    <3>3. /\ KeepsSong(free, d) /\ KeepsDecks(free, d) /\ d.name = free.name
          /\ d.songQ = free.songQ /\ d.source = free.source
      BY <1>2, <1>4, <3>1, <3>2, TakeInternalDoes, TakeInternalKeepsSource
    <3> QED BY <1>5, <1>8, <1>n, <3>3 DEF DeckDrawn, KeepsSong, KeepsDecks
  <2> QED BY <2>1, <2>2
<1> QED BY <1>6, <1>7, <1>8, <1>n DEF d

\* A session's fields change, its hold timer is set anew and it is drawn.
LEMMA RenderArmedNames ==
  ASSUME NEW k, NEW c \in Sound(k), NEW x \in DeckLive, NEW force \in BOOLEAN,
         NEW t \in Nat
  PROVE  LET d == RenderSlides(ArmSlides([c EXCEPT !.slides = x]), force, t)
         IN  /\ d \in Sound(k) /\ d.name = c.name /\ d.song = c.song
             /\ d.songQ = c.songQ /\ d.slides # None /\ d.slides.row = x.row
             /\ d.slides.blanked = x.blanked /\ d.source \in {None, c.source}
             /\ x.blanked => d.source = None
<1> DEFINE put == [c EXCEPT !.slides = x]
           b == /\ put.name # Preview
                /\ ~put.slides.blanked /\ ~put.slides.atEnd
                /\ ~AdvancesOnEnd(Airing(put)) /\ Airing(put).hold
           y == [x EXCEPT !.armed = b]
           a == [put EXCEPT !.slides = y]
           d == RenderSlides(a, force, t)
<1>1. /\ put \in Sound(k) /\ put.slides = x /\ put.name = c.name
      /\ KeepsSong(c, put) /\ KeepsQueues(c, put)
  BY PutSlides
<1>s. put.source = c.source BY Parts DEF Channel
<1>2. b \in BOOLEAN OBVIOUS
<1>a. ArmSlides(put) = a BY <1>1 DEF ArmSlides
<1> HIDE DEF b
<1>3. y \in DeckLive /\ y.row = x.row /\ y.blanked = x.blanked
  BY <1>2, DeckPut, DeckParts DEF SlidesSession
<1> HIDE DEF y, put
<1>4. /\ a \in Sound(k) /\ a.slides = y /\ a.name = put.name
      /\ KeepsSong(put, a) /\ KeepsQueues(put, a)
  BY <1>1, <1>3, PutSlides
<1>t. a.source = put.source BY <1>1, Parts DEF Channel
<1> HIDE DEF a
<1>5. d \in Sound(k) /\ DeckDrawn(a, d)
  BY <1>3, <1>4, RenderSlidesSound, RenderSlidesNames
<1> HIDE DEF d
<1>6. /\ d.name = c.name /\ d.song = c.song
      /\ d.songQ = c.songQ /\ d.slides # None /\ d.slides.row = x.row
      /\ d.slides.blanked = x.blanked /\ d.source \in {None, c.source}
      /\ x.blanked => d.source = None
  BY <1>1, <1>3, <1>4, <1>5, <1>s, <1>t DEF DeckDrawn, KeepsSong, KeepsQueues
<1> QED BY <1>5, <1>6, <1>a DEF d, put

\* So a live deck stays what its source names.
LEMMA RenderAgainNamed ==
  ASSUME NEW k, NEW c \in Sound(k), Named(c), c.slides # None,
         NEW x \in DeckLive, x.row = c.slides.row, NEW force \in BOOLEAN,
         NEW t \in Nat
  PROVE  Named(RenderSlides(ArmSlides([c EXCEPT !.slides = x]), force, t))
<1> DEFINE d == RenderSlides(ArmSlides([c EXCEPT !.slides = x]), force, t)
<1>1. /\ d.song = c.song /\ d.songQ = c.songQ
      /\ d.slides # None /\ d.slides.row = x.row
      /\ d.slides.blanked = x.blanked /\ d.source \in {None, c.source}
      /\ x.blanked => d.source = None
  BY RenderArmedNames
<1> HIDE DEF d
<1>2. c.song = None /\ c.songQ = None /\ c.source \in {None, c.slides.row}
  BY DEF Named, SongNamed, DeckNamed
<1>3. Named(d) BY <1>1, <1>2, DeckUpNamed
<1> QED BY <1>3 DEF d

\* A deck's bookkeeping changes, told or untold.
LEMMA SlidesNoteNamed ==
  ASSUME NEW k, NEW c \in Sound(k), Named(c), c.slides # None,
         NEW x \in DeckLive, x.row = c.slides.row, x.blanked = c.slides.blanked
  PROVE  LET d == [c EXCEPT !.slides = x]
         IN  /\ d \in Sound(k) /\ d.slides = x /\ Named(d)
             /\ Named(Emit(PublishSlides(d)))
<1> DEFINE d == [c EXCEPT !.slides = x]
           p == PublishSlides(d)
<1>1. /\ d \in Sound(k) /\ d.slides = x /\ x # None /\ d.name = c.name
      /\ d.st = c.st /\ KeepsSong(c, d) /\ KeepsQueues(c, d)
  BY PutSlides
<1>2. d.source = c.source BY Parts DEF Channel
<1> HIDE DEF d
<1>3. SameNames(c, d) BY <1>1, <1>2 DEF SameNames, KeepsSong, KeepsQueues
<1>4. Named(d) BY <1>3, StillNamed
<1>5. p \in Sound(k) BY <1>1, PublishSlidesSound
<1>6. SameNames(d, p)
  <2>1. d \in Channel /\ d.st \in State BY <1>1, Parts
  <2> QED BY <2>1 DEF PublishSlides, Channel, State, SameNames
<1> HIDE DEF p
<1>7. Named(p) /\ SameNames(p, Emit(p)) BY <1>4, <1>5, <1>6, EmitNames, StillNamed
<1>8. Named(Emit(p)) BY <1>7, StillNamed
<1> QED BY <1>1, <1>4, <1>8 DEF d, p

----------------------------------------------------------------------------
\* A deck goes up where no song is queued or live.
LEMMA SlidesUpNames ==
  ASSUME NEW k, NEW c \in Sound(k), NEW deck \in DeckLive, ~deck.blanked,
         NEW t \in Nat
  PROVE  LET d == SlidesUp(c, deck, t)
         IN  /\ d.song = c.song /\ d.songQ = c.songQ /\ d.slides # None
             /\ d.slides.row = deck.row /\ ~d.slides.blanked
             /\ d.source = deck.row
             /\ c.song = None /\ c.songQ = None => Named(d)
<1> DEFINE free == Replaced(c, Slides(deck.row)[deck.idx])
           force == TRUE
           up == RenderSlides(ArmSlides([free EXCEPT !.slides = deck]), force, t)
           d == SlidesUp(c, deck, t)
<1>1. free \in Sound(k) /\ SameGraphics(c, free)
  <2>1. free \in {c, ReleaseMedia(c, c.slides.row)} BY DEF Replaced
  <2>2. SameGraphics(c, c) BY DEF SameGraphics
  <2> QED BY <2>1, <2>2, ReleaseMediaDoes
<1>2. force \in BOOLEAN OBVIOUS
<1>d. d = SetLiveRow(up, deck.row) BY DEF SlidesUp
<1> HIDE DEF force, free
<1>3. /\ up \in Sound(k) /\ up.song = free.song /\ up.songQ = free.songQ
      /\ up.slides # None /\ up.slides.row = deck.row
      /\ up.slides.blanked = deck.blanked
  BY <1>1, <1>2, RenderArmedNames
<1> HIDE DEF up, d
<1>4. /\ d.song = c.song /\ d.songQ = c.songQ /\ d.slides # None
      /\ d.slides.row = deck.row /\ ~d.slides.blanked /\ d.source = deck.row
  BY <1>1, <1>3, <1>d, SetLiveRowNames DEF SameGraphics
<1>5. c.song = None /\ c.songQ = None => Named(d) BY <1>4, DeckUpNamed
<1> QED BY <1>4, <1>5 DEF d

\* start() of a deck.
LEMMA SlidesStartNamed ==
  ASSUME NEW k, NEW c \in Sound(k), Named(c), NEW row \in DeckRows,
         NEW i \in Nat, NEW t \in Nat
  PROVE  Named(SlidesStart(c, row, i, t))
<1> DEFINE torn == TearDownSong(c)
           noSong == IF c.song = None THEN c ELSE Emit(torn)
           free == ClearQueuedSong(noSong)
           deck == NewDeck(row, i, FALSE)
<1>1. torn \in Sound(k) /\ torn.song = None BY DropsSound, DropsDo
<1> HIDE DEF torn
<1>2. Emit(torn) \in Sound(k) /\ Emit(torn).song = None
  BY <1>1, EmitKeeps DEF KeepsSessions, KeepsSong
<1>3. noSong \in Sound(k) /\ noSong.song = None BY <1>2
<1> HIDE DEF noSong
<1>4. free \in Sound(k) /\ free.song = None /\ free.songQ = None
  BY <1>3, ClearQueuedSongGood, ClearQueuedSongNames
<1> HIDE DEF free
<1>5. ASSUME i \in DOMAIN Slides(row) PROVE Named(SlidesUp(free, deck, t))
  <2>1. deck \in DeckLive BY <1>5, NewDeckLive
  <2>2. ~deck.blanked BY DEF NewDeck
  <2> HIDE DEF deck
  <2> QED BY <1>4, <2>1, <2>2, SlidesUpNames
<1> QED BY <1>5 DEF SlidesStart, free, noSong, torn

\* end() of a deck.
LEMMA SlidesEndNamed ==
  ASSUME NEW k, NEW c \in Sound(k), Good(c), Named(c)
  PROVE  Named(SlidesEnd(c))
<1> DEFINE bare == [c EXCEPT !.slides = None]
           gone == ShowLoopSummary(bare)
           freed == ReleaseMedia(gone, c.slides.row)
           cleared == Clear(freed, FALSE)
           d == SlidesEnd(c)
<1>c. c \in Channel BY Parts
<1>1. CASE c.slides = None BY <1>1 DEF SlidesEnd
<1>2. CASE c.slides # None
  <2>d. d = IF cleared.st.active = None THEN Emit(cleared) ELSE cleared
    BY <1>2 DEF SlidesEnd
  <2>1. /\ bare \in Sound(k) /\ bare.slides = None
        /\ KeepsSong(c, bare) /\ KeepsQueues(c, bare) /\ KeepsPassage(c, bare)
        /\ bare.deck = c.deck /\ bare.st = c.st
    BY <1>c, Put DEF Channel, KeepsSong, KeepsQueues, KeepsPassage
  <2> HIDE DEF bare
  <2>2. /\ gone \in Sound(k) /\ SameGraphics(bare, gone) /\ SameMedia(bare, gone)
        /\ gone.st.slides = IF bare.deck # None THEN LoopSummary(bare.deck)
                                                ELSE None
    BY <2>1, ShowLoopSummarySound, ShowLoopSummaryDoes
  <2> HIDE DEF gone
  <2>3. /\ LoopShown(gone) /\ DeckShown(gone) /\ LoopOwns(gone)
        /\ LoopRests(gone) /\ gone.slides = None
    BY <2>1, <2>2
    DEF SameGraphics, SameMedia, LoopShown, DeckShown, LoopOwns, LoopRests,
        Good, MediaGood, Framed
  <2>4. OnlyOf(gone, c.slides.row)
    <3>1. OnlyOf(c, c.slides.row) BY <1>2, LiveDeck
    <3> QED BY <2>1, <2>2, <3>1 DEF OnlyOf, SameMedia
  <2>5. /\ freed \in Sound(k) /\ SameGraphics(gone, freed)
        /\ DeckShown(freed) /\ LoopShown(freed) /\ LoopOwns(freed)
        /\ LoopRests(freed) /\ NoSlideMedia(freed)
    BY <2>2, <2>3, <2>4, ReleaseMediaDoes
  <2> HIDE DEF freed
  <2>6. MediaGood(freed)
    BY <2>5 DEF MediaGood, Framed, NoStray, NoSlideMedia
  <2>7. Mirrors(freed)
    BY <2>1, <2>2, <2>5
    DEF Good, Mirrors, SongMirrored, QueuesMirrored, EndsAtEnd, SameGraphics,
        KeepsSong, KeepsQueues, KeepsPassage
  <2>f. FALSE \in BOOLEAN OBVIOUS
  <2>8. cleared \in Sound(k) /\ Named(cleared)
    BY <2>5, <2>6, <2>7, <2>f, ClearDoes, ClearsAreDark
  <2> HIDE DEF cleared, d
  <2>9. Named(Emit(cleared)) BY <2>8, EmitNames, StillNamed
  <2> QED BY <2>d, <2>8, <2>9 DEF d
<1> QED BY <1>1, <1>2

----------------------------------------------------------------------------
\* Moving a live deck to slide i of its row.
LEMMA SlidesToNamed ==
  ASSUME NEW k, NEW c \in Sound(k), Named(c), c.slides \in DeckLive,
         NEW i \in DOMAIN Slides(c.slides.row), NEW t \in Nat
  PROVE  Named(SlidesTo(c, i, t))
<1> DEFINE x == [c.slides EXCEPT !.idx = i, !.atEnd = FALSE,
                                 !.blanked = FALSE, !.autoEnded = FALSE]
<1>1. x \in DeckLive BY DeckPut
<1>2. c.slides # None BY NoneAssumption, DeckParts
<1>3. x.row = c.slides.row BY DeckParts DEF SlidesSession
<1>4. c.slides.blanked \in BOOLEAN BY DeckParts DEF SlidesSession
<1>5. SlidesTo(c, i, t)
        = RenderSlides(ArmSlides([c EXCEPT !.slides = x]), c.slides.blanked, t)
  BY DEF SlidesTo
<1> HIDE DEF x
<1> QED BY <1>1, <1>2, <1>3, <1>4, <1>5, RenderAgainNamed

\* advance() of a deck, off the end of the row included.
LEMMA SlidesAdvanceNamed ==
  ASSUME NEW k, NEW c \in Sound(k), Good(c), Named(c), NEW d \in {-1, 1},
         NEW t \in Nat
  PROVE  Named(SlidesAdvance(c, d, t))
<1> DEFINE s == c.slides
           last == Len(Slides(s.row))
           e == [s EXCEPT !.atEnd = TRUE, !.autoEnded = FALSE, !.armed = FALSE]
           n == [s EXCEPT !.autoEnded = FALSE]
           ended == [c EXCEPT !.slides = e]
           back == IF s.idx > 1 THEN s.idx - 1 ELSE 1
<1>1. CASE c.slides = None BY <1>1 DEF SlidesAdvance
<1>2. CASE c.slides # None
  <2>1. s \in DeckLive BY <1>2, Parts
  <2>2. s.idx \in 1..last /\ last \in Nat /\ DOMAIN Slides(s.row) = 1..last
    BY <2>1, DeckParts
  <2>3. s.idx < last => Named(SlidesTo(c, s.idx + 1, t))
    BY <2>1, <2>2, SlidesToNamed
  <2>4. Named(SlidesTo(c, 1, t)) BY <2>1, <2>2, SlidesToNamed
  <2>5. Named(SlidesTo(c, back, t)) BY <2>1, <2>2, SlidesToNamed
  <2>6. e \in DeckLive /\ n \in DeckLive BY <2>1, DeckPut
  <2>7. /\ e.row = s.row /\ e.blanked = s.blanked
        /\ n.row = s.row /\ n.blanked = s.blanked
    BY <2>1, DeckParts DEF SlidesSession
  <2>8. SlidesAdvance(c, d, t) =
          CASE d > 0 /\ s.idx < last -> SlidesTo(c, s.idx + 1, t)
            [] d > 0 /\ s.idx = last /\ DeckInfo[s.row].loop -> SlidesTo(c, 1, t)
            [] d > 0 /\ s.idx = last /\ ~DeckInfo[s.row].loop /\ ~s.atEnd ->
                 Emit(PublishSlides(ended))
            [] d > 0 /\ s.idx = last /\ ~DeckInfo[s.row].loop /\ s.atEnd ->
                 SlidesEnd(c)
            [] d < 0 /\ (s.idx > 1 \/ s.atEnd) -> SlidesTo(c, back, t)
            [] OTHER -> [c EXCEPT !.slides = n]
    BY <1>2 DEF SlidesAdvance
  <2> HIDE DEF back, last, e, n
  <2>9. Named(Emit(PublishSlides(ended))) /\ Named([c EXCEPT !.slides = n])
    BY <1>2, <2>6, <2>7, SlidesNoteNamed
  <2>10. Named(SlidesEnd(c)) BY SlidesEndNamed
  <2> HIDE DEF ended
  <2> QED BY <2>2, <2>3, <2>4, <2>5, <2>8, <2>9, <2>10
<1> QED BY <1>1, <1>2

\* goTo() and blank().
LEMMA SlidesGoToNamed ==
  ASSUME NEW k, NEW c \in Sound(k), Named(c), NEW i \in Nat, NEW t \in Nat
  PROVE  Named(SlidesGoTo(c, i, t))
<1> DEFINE x == [c.slides EXCEPT !.failed = @ \ {i}]
           put == [c EXCEPT !.slides = x]
<1>1. CASE c.slides = None \/ i \notin DOMAIN Slides(c.slides.row)
  BY <1>1 DEF SlidesGoTo
<1>2. CASE c.slides # None /\ i \in DOMAIN Slides(c.slides.row)
  <2>d. SlidesGoTo(c, i, t) = SlidesTo(put, i, t) BY <1>2 DEF SlidesGoTo
  <2>1. c.slides \in DeckLive BY <1>2, Parts
  <2>2. x \in DeckLive BY <2>1, DeckPut, DeckParts
  <2>3. x.row = c.slides.row /\ x.blanked = c.slides.blanked
    BY <2>1, DeckParts DEF SlidesSession
  <2> HIDE DEF x
  <2>4. put \in Sound(k) /\ put.slides = x /\ Named(put)
    BY <1>2, <2>2, <2>3, SlidesNoteNamed
  <2> HIDE DEF put
  <2>5. i \in DOMAIN Slides(put.slides.row) BY <1>2, <2>3, <2>4
  <2>6. put.slides \in DeckLive BY <2>2, <2>4
  <2> QED BY <2>d, <2>4, <2>5, <2>6, SlidesToNamed
<1> QED BY <1>1, <1>2

\* blank() and back.
LEMMA SlidesBlankNamed ==
  ASSUME NEW k, NEW c \in Sound(k), Named(c), NEW t \in Nat
  PROVE  Named(SlidesBlank(c, t))
<1> DEFINE x == [c.slides EXCEPT !.blanked = ~@]
<1>1. CASE c.slides = None BY <1>1 DEF SlidesBlank
<1>2. CASE c.slides # None
  <2>d. SlidesBlank(c, t)
          = RenderSlides(ArmSlides([c EXCEPT !.slides = x]), TRUE, t)
    BY <1>2 DEF SlidesBlank
  <2>1. c.slides \in DeckLive BY <1>2, Parts
  <2>2. x \in DeckLive BY <2>1, DeckPut
  <2>3. x.row = c.slides.row BY <2>1, DeckParts DEF SlidesSession
  <2>4. TRUE \in BOOLEAN OBVIOUS
  <2> HIDE DEF x
  <2> QED BY <1>2, <2>d, <2>2, <2>3, <2>4, RenderAgainNamed
<1> QED BY <1>1, <1>2

\* autoAdvance(), after bookkeeping of the session that nobody sees.
LEMMA SlidesAutoAdvanceNamed ==
  ASSUME NEW k, NEW c \in Sound(k), Named(c), c.slides # None,
         NEW x \in DeckLive, x.row = c.slides.row, x.blanked = c.slides.blanked,
         NEW t \in Nat
  PROVE  Named(SlidesAutoAdvance([c EXCEPT !.slides = x], t))
<1> DEFINE put == [c EXCEPT !.slides = x]
           next == ((x.idx - 1 + Min(StepsAhead(x))) % Len(Slides(x.row))) + 1
           e == [x EXCEPT !.atEnd = TRUE, !.autoEnded = TRUE, !.armed = FALSE]
           s == [x EXCEPT !.idx = next]
<1>1. put \in Sound(k) /\ put.slides = x BY PutSlides
<1>2. \A y : [put EXCEPT !.slides = y] = [c EXCEPT !.slides = y]
  BY Parts DEF Channel
<1> HIDE DEF put
<1>3. CASE StepsAhead(x) = {}
  <2>1. SlidesAutoAdvance(put, t)
          = Emit(PublishSlides([put EXCEPT !.slides = e]))
    BY <1>1, <1>3 DEF SlidesAutoAdvance
  <2>2. e \in DeckLive BY DeckPut
  <2>3. e.row = c.slides.row /\ e.blanked = c.slides.blanked
    BY DeckParts DEF SlidesSession
  <2> HIDE DEF e
  <2>4. Named(Emit(PublishSlides([c EXCEPT !.slides = e])))
    BY <2>2, <2>3, SlidesNoteNamed
  <2> QED BY <1>2, <2>1, <2>4 DEF put
<1>4. CASE StepsAhead(x) # {}
  <2>1. SlidesAutoAdvance(put, t)
          = RenderSlides(ArmSlides([put EXCEPT !.slides = s]), FALSE, t)
    BY <1>1, <1>4 DEF SlidesAutoAdvance
  <2>2. next \in DOMAIN Slides(x.row) BY <1>4, NextSlideInDeck
  <2> HIDE DEF next
  <2>3. s \in DeckLive BY <2>2, DeckPut
  <2>4. s.row = c.slides.row BY DeckParts DEF SlidesSession
  <2>5. FALSE \in BOOLEAN OBVIOUS
  <2> HIDE DEF s
  <2>6. Named(RenderSlides(ArmSlides([c EXCEPT !.slides = s]), FALSE, t))
    BY <2>3, <2>4, <2>5, RenderAgainNamed
  <2> QED BY <1>2, <2>1, <2>6 DEF put
<1> QED BY <1>3, <1>4 DEF put

\* The hold timer of a slides deck.
LEMMA SlidesTimerNamed ==
  ASSUME NEW k, NEW c \in Sound(k), Named(c), c.slides # None, NEW t \in Nat
  PROVE  Named(SlidesTimer(c, t))
<1> DEFINE x == [c.slides EXCEPT !.armed = FALSE]
<1>1. c.slides \in DeckLive BY Parts
<1>2. x \in DeckLive BY <1>1, DeckPut
<1>3. x.row = c.slides.row /\ x.blanked = c.slides.blanked
  BY <1>1, DeckParts DEF SlidesSession
<1>d. SlidesTimer(c, t) = SlidesAutoAdvance([c EXCEPT !.slides = x], t)
  BY DEF SlidesTimer
<1> HIDE DEF x
<1> QED BY <1>2, <1>3, <1>d, SlidesAutoAdvanceNamed

\* A renderer's reports to a slides deck.
LEMMA SlidesReportsNamed ==
  ASSUME NEW k, NEW c \in Sound(k), Named(c), NEW at, NEW t \in Nat
  PROVE  /\ Named(SlidesMediaEnded(c, at, t))
         /\ Named(SlidesMediaFailed(c, at, t))
         /\ Named(SlidesMediaPlaying(c, at))
<1> DEFINE d == [c.slides EXCEPT !.playedOut = TRUE]
           p == [c.slides EXCEPT !.playedOut = FALSE]
           f == [c.slides EXCEPT !.playedOut = TRUE,
                                 !.failed = @ \cup {c.slides.idx}]
<1>1. CASE c.slides = None
  BY <1>1 DEF SlidesMediaEnded, SlidesMediaFailed, SlidesMediaPlaying, MovesOnEnd
<1>2. CASE c.slides # None
  <2>1. c.slides \in DeckLive BY <1>2, Parts
  <2>2. d \in DeckLive /\ p \in DeckLive BY <2>1, DeckPut
  <2>3. f \in DeckLive
    <3>1. d.failed = c.slides.failed BY <2>1, DeckParts DEF SlidesSession
    <3>2. c.slides.failed \cup {c.slides.idx} \in SUBSET Nat BY <2>1, DeckParts
    <3> QED BY <2>1, <2>2, <3>1, <3>2, DeckPut
  <2>4. /\ d.row = c.slides.row /\ d.blanked = c.slides.blanked
        /\ f.row = c.slides.row /\ f.blanked = c.slides.blanked
        /\ p.row = c.slides.row /\ p.blanked = c.slides.blanked
    BY <2>1, DeckParts DEF SlidesSession
  <2> HIDE DEF d, p, f
  <2>5. /\ Named(SlidesAutoAdvance([c EXCEPT !.slides = d], t))
        /\ Named(SlidesAutoAdvance([c EXCEPT !.slides = f], t))
    BY <1>2, <2>2, <2>3, <2>4, SlidesAutoAdvanceNamed
  <2>6. Named([c EXCEPT !.slides = p])
    BY <1>2, <2>2, <2>4, SlidesNoteNamed
  <2>7. SlidesMediaEnded(c, at, t) = IF MovesOnEnd(c, at)
          THEN SlidesAutoAdvance([c EXCEPT !.slides = d], t) ELSE c
    BY DEF SlidesMediaEnded, d
  <2>8. SlidesMediaFailed(c, at, t) = IF MovesOnEnd(c, at)
          THEN SlidesAutoAdvance([c EXCEPT !.slides = f], t) ELSE c
    <3>1. [c EXCEPT !.slides.playedOut = TRUE,
                    !.slides.failed = @ \cup {c.slides.idx}]
            = [c EXCEPT !.slides = f]
      BY <2>1, Parts, DeckParts DEF Channel, SlidesSession, f
    <3> QED BY <3>1 DEF SlidesMediaFailed
  <2>9. SlidesMediaPlaying(c, at) = IF c.slides # None /\ c.slides.mediaAt = at
          THEN [c EXCEPT !.slides = p] ELSE c
    BY DEF SlidesMediaPlaying, p
  <2> QED BY <2>5, <2>6, <2>7, <2>8, <2>9
<1> QED BY <1>1, <1>2

----------------------------------------------------------------------------
\* What preview's graphic leaves behind is dark.
LEMMA LeftBehindNamed ==
  ASSUME NEW k, NEW c \in Sound(k), Good(c),
         NEW songToo \in BOOLEAN, NEW scrToo \in BOOLEAN
  PROVE  LET sent == IF songToo THEN DropSongQueue(c) ELSE c
             left == IF scrToo THEN DropScriptureQueue(sent) ELSE sent
         IN  Named(Clear(left, FALSE))
<1> DEFINE sent == IF songToo THEN DropSongQueue(c) ELSE c
           left == IF scrToo THEN DropScriptureQueue(sent) ELSE sent
<1>1. sent \in Sound(k) /\ MediaGood(sent) /\ Mirrors(sent)
  BY QueuesGone DEF Good
<1> HIDE DEF sent
<1>2. left \in Sound(k) /\ MediaGood(left) /\ Mirrors(left)
  BY <1>1, QueuesGone
<1> HIDE DEF left
<1>3. FALSE \in BOOLEAN OBVIOUS
<1>4. Named(Clear(left, FALSE)) BY <1>2, <1>3, ClearsAreDark
<1> QED BY <1>4 DEF left, sent

\* A deck goes to a channel whose song has ended; no song is left queued there.
LEMMA SlidesPromoteNamed ==
  ASSUME NEW j, NEW from \in Sound(j), Good(from), Named(from),
         from.slides # None,
         NEW k, NEW to \in Sound(k), to.song = None, NEW t \in Nat
  PROVE  LET pair == SlidesPromote(from, to, t)
         IN  /\ Named(pair[1])
             /\ (pair[2].slides # None => pair[2].songQ = None) => Named(pair[2])
<1> DEFINE s == from.slides
           deck == NewDeck(s.row, s.idx, s.atEnd)
           up == SlidesUp(to, deck, t)
<1>1. s \in DeckLive BY Parts
<1>2. s.atEnd \in BOOLEAN BY <1>1, DeckParts DEF SlidesSession
<1>3. deck \in DeckLive BY <1>1, <1>2, DeckParts, NewDeckLive
<1>4. ~deck.blanked BY DEF NewDeck
<1>5. SlidesPromote(from, to, t) = <<SlidesEnd(from), up>> BY DEF SlidesPromote
<1> HIDE DEF deck
<1>6. /\ up.songQ = to.songQ /\ up.slides # None
      /\ to.song = None /\ to.songQ = None => Named(up)
  BY <1>3, <1>4, SlidesUpNames
<1> HIDE DEF up
<1>7. Named(SlidesEnd(from)) BY SlidesEndNamed
<1> QED BY <1>5, <1>6, <1>7

\* A graphic goes with its source; what its row is, its source still names.
LEMMA PromoteGraphicNamed ==
  ASSUME NEW j, NEW from \in Sound(j), Good(from), Named(from), Cued(from),
         from.st.active # None, from.slides = None,
         NEW k, NEW to \in Sound(k), Good(to), to.song = None, NEW t \in Nat
  PROVE  /\ Named(PromoteGraphic(from, to, t)[1])
         /\ Named(PromoteGraphic(from, to, t)[2])
<1> DEFINE g == from.st.active
           songQ == IF g.ctx = "intro" THEN from.songQ ELSE None
           scrQ == IF g.ctx = "scrIntro" THEN from.scrQ ELSE None
           queued == [CancelAutoOut(to) EXCEPT !.songQ = songQ, !.st.songQ = songQ]
           free == SlidesDropAll(DropScriptureLive(queued))
           h == [g EXCEPT !.phase = "in", !.at = t]
           row == IF from.source = None THEN free.st.liveRow ELSE from.source
           reads == IF g.tpl \in AutoOut
                      THEN free.lookups \cup {[tpl |-> g.tpl, at |-> t]}
                      ELSE free.lookups
           up == [free EXCEPT !.scrQ = scrQ, !.st.scrQ = scrQ, !.st.active = h,
                              !.st.liveRow = row, !.source = from.source,
                              !.lookups = reads]
           sent == IF songQ = None THEN from ELSE DropSongQueue(from)
           left == IF scrQ = None THEN sent ELSE DropScriptureQueue(sent)
           cleared == Clear(left, FALSE)
           d == Emit(up)
<1>1. PromoteGraphic(from, to, t) = <<cleared, d>> BY DEF PromoteGraphic
<1>2. Named(cleared)
  <2> HIDE DEF songQ, scrQ
  <2>1. (songQ # None) \in BOOLEAN /\ (scrQ # None) \in BOOLEAN OBVIOUS
  <2>2. LET gone == IF songQ # None THEN DropSongQueue(from) ELSE from
            rest == IF scrQ # None THEN DropScriptureQueue(gone) ELSE gone
        IN  Named(Clear(rest, FALSE))
    BY <2>1, LeftBehindNamed
  <2> QED BY <2>2
<1> HIDE DEF cleared
<1>3. h.shows = g.shows
  <2>1. g \in Graphic BY StParts DEF Airable
  <2> QED BY <2>1 DEF Graphic
<1>4. songQ \in SongRows \cup {None} /\ songQ \in {None, from.songQ} BY Parts
<1> HIDE DEF songQ, scrQ, h
<1>5. /\ free \in Sound(k) /\ free.song = None /\ free.slides = None
      /\ free.songQ = songQ
  <2>1. LET q == [CancelAutoOut(to) EXCEPT !.songQ = songQ, !.st.songQ = songQ]
            f == SlidesDropAll(DropScriptureLive(q))
        IN  /\ f \in Sound(k) /\ MediaGood(f) /\ SongMirrored(f)
            /\ f.song = None /\ f.slides = None
            /\ f.scr = None /\ f.st.scr = None
            /\ f.songQ = songQ /\ f.st.songQ = songQ
    BY <1>4, MakesWay, ZenonT(40)
  <2> QED BY <2>1
<1> HIDE DEF free
<1>6. free \in Channel /\ free.st \in State BY <1>5, Parts
<1> HIDE DEF reads, row
<1>7. /\ d.song = None /\ d.slides = None /\ d.songQ = songQ
      /\ d.source = from.source /\ d.st.active = h
  <2>1. /\ up.song = free.song /\ up.slides = free.slides
        /\ up.songQ = free.songQ /\ up.source = from.source
        /\ up.st = [free.st EXCEPT !.scrQ = scrQ, !.active = h, !.liveRow = row]
        /\ d.song = up.song /\ d.slides = up.slides /\ d.songQ = up.songQ
        /\ d.source = up.source /\ d.st = up.st
    BY <1>6 DEF Channel, Emit
  <2> HIDE DEF up, d
  <2>2. up.st.active = h BY <1>6, <2>1 DEF State
  <2> QED BY <1>5, <2>1, <2>2
<1> HIDE DEF d
<1>8. d.source # None => OfRow(from, from.source)
  BY <1>7 DEF Named, SongNamed, GraphicNamed
<1>9. d.source # None => OfRow(d, d.source)
  BY <1>3, <1>7, <1>8 DEF OfRow
<1>10. d.songQ # None => d.source \in {None, d.songQ}
  BY <1>4, <1>7 DEF Named, SongNamed, QueueNamed
<1>11. Named(d)
  BY <1>7, <1>9, <1>10
  DEF Named, SongNamed, DeckNamed, QueueNamed, GraphicNamed
<1> QED BY <1>1, <1>2, <1>11

\* promoteMedia() is a step in the media slot of both channels.
LEMMA PromoteMediaNamed ==
  ASSUME NEW j, NEW from \in Sound(j), Named(from), from.st.media # None,
         NEW k, NEW to \in Sound(k), Named(to), NEW t \in Nat
  PROVE  LET pair == PromoteMedia(from, to, t)
         IN  /\ Named(pair[1]) /\ Named(pair[2])
<1> DEFINE m == from.st.media
           pick == [row |-> m.row, item |-> m.item, kind |-> m.kind,
                    loop |-> m.loop, endAction |-> m.endAction, owner |-> None]
           inShow == from.st.liveRow = m.row
           aired == MediaTake(to, pick, inShow, t)
           off == MediaClear(from)
<1>1. m \in Media BY StParts
<1>2. pick \in MediaPick BY <1>1 DEF MediaPick, Media
<1>3. inShow \in BOOLEAN OBVIOUS
<1>4. PromoteMedia(from, to, t) = <<off, aired>> BY DEF PromoteMedia
<1> HIDE DEF pick, inShow
<1>5. SameGraphics(to, aired) BY <1>2, <1>3, MediaTakeDoes
<1>6. SameGraphics(from, off) BY MediaClearDoes
<1> HIDE DEF aired, off
<1>7. Named(off) /\ Named(aired) BY <1>5, <1>6, MediaStepNamed
<1> QED BY <1>4, <1>7

\* takePvwToPgm().
LEMMA TakePvwToPgmNamed ==
  ASSUME NEW j, NEW from \in Sound(j), Good(from), Named(from), Cued(from),
         NEW k, NEW to \in Sound(k), Good(to), Named(to),
         NEW present \in SUBSET Files, NEW t \in Nat
  PROVE  LET pair == TakePvwToPgm(from, to, present, t)
         IN  /\ Named(pair[1])
             /\ (pair[2].slides # None => pair[2].songQ = None) => Named(pair[2])
<1> DEFINE moved == LoopPromote(from, to, present, t)
           cued == /\ from.deck = None
                   /\ from.st.media # None /\ ~OwnsMediaOn(from)
           pair == IF cued THEN PromoteMedia(moved[1], moved[2], t) ELSE moved
           src == pair[1]
           g == src.st.active
           deckUp == src.slides # None /\ (g # None \/ OwnsMediaOn(src))
           dest == EndLiveSong(pair[2])
           Right(p) == /\ Named(p[1])
                       /\ (p[2].slides # None => p[2].songQ = None) => Named(p[2])
<1>7. TakePvwToPgm(from, to, present, t) =
        CASE g = None /\ ~deckUp -> pair
          [] g # None /\ RefusesDraft(to, g.tpl) -> pair
          [] deckUp /\ ~(g # None /\ RefusesDraft(to, g.tpl)) ->
               SlidesPromote(src, dest, t)
          [] OTHER -> PromoteGraphic(src, dest, t)
  BY DEF TakePvwToPgm, GateRefuses
<1>1. /\ moved[1] \in Sound(j) /\ moved[2] \in Sound(k)
      /\ Good(moved[1]) /\ Good(moved[2])
      /\ Named(moved[1]) /\ Named(moved[2])
  <2>1. MediaStep(from, moved[1]) /\ MediaStep(to, moved[2])
    BY LoopPromoteDoes DEF Good
  <2>2. moved[1] \in Sound(j) /\ moved[2] \in Sound(k) BY LoopPromoteSound
  <2> HIDE DEF moved
  <2> QED BY <2>1, <2>2, MediaStepGood, MediaStepNamed DEF MediaStep
<1>2. cued => moved[1].st.media # None BY DEF LoopPromote
<1> HIDE DEF moved
<1>3. /\ pair[1] \in Sound(j) /\ pair[2] \in Sound(k)
      /\ Good(pair[1]) /\ Good(pair[2])
      /\ Named(pair[1]) /\ Named(pair[2])
  BY <1>1, <1>2, PromoteMediaSound, PromoteMediaGood, PromoteMediaNamed
<1> HIDE DEF pair
<1>4. /\ dest \in Sound(k) /\ src \in Sound(j)
      /\ Good(dest) /\ Good(src) /\ Named(src) /\ dest.song = None
  <2>1. Good(dest) BY <1>3, ClearGood
  <2>2. dest.song = None BY <1>3, EndLiveSongDoes DEF Good
  <2> QED BY <1>3, <2>1, <2>2, EndLiveSongSound
<1>5. Cued(src) BY <1>3, Parts DEF Cued
<1> HIDE DEF src, dest
<1>6. deckUp => Right(SlidesPromote(src, dest, t)) BY <1>4, SlidesPromoteNamed
<1>8. g # None /\ ~deckUp => Right(PromoteGraphic(src, dest, t))
  BY <1>4, <1>5, PromoteGraphicNamed
<1>9. Right(pair) BY <1>3 DEF src
<1> HIDE DEF deckUp
<1>10. Right(TakePvwToPgm(from, to, present, t))
  BY <1>6, <1>7, <1>8, <1>9
<1> QED BY <1>10

\* mediaStatus() and what it tells both kinds of deck.
LEMMA MediaStatusNamed ==
  ASSUME NEW k, NEW c \in Sound(k), Good(c), Named(c), NEW at,
         NEW status \in Reports, NEW present \in SUBSET Files, NEW t \in Nat
  PROVE  Named(MediaStatus(c, at, status, present, t))
<1> DEFINE m == c.st.media
           x == [m EXCEPT !.status = status]
           y == [m EXCEPT !.status = "playing", !.paused = FALSE]
           z == [x EXCEPT !.paused = TRUE]
           told == Emit([c EXCEPT !.st.media = x])
           looped == Emit([c EXCEPT !.st.media = y])
           paused == Emit([told EXCEPT !.st.media = z])
           ended == CASE m.loop -> looped
                      [] ~m.loop /\ m.endAction = "clear" -> MediaClear(c)
                      [] OTHER -> paused
<1>1. CASE m = None \/ m.at # at BY <1>1 DEF MediaStatus
<1>2. CASE m # None /\ m.at = at
  <2>g. MediaGood(c) BY DEF Good
  <2>1. m \in Media BY <1>2, StParts
  <2>2. x \in Media /\ y \in Media /\ z \in Media BY <2>1 DEF Media, Reports
  <2>3. /\ x.owner = m.owner /\ x.item = m.item /\ x.at = m.at
        /\ y.owner = m.owner /\ y.item = m.item /\ y.at = m.at
        /\ z.owner = m.owner /\ z.item = m.item /\ z.at = m.at
    BY <2>1 DEF Media
  <2> HIDE DEF x, y, z
  <2>4. told \in Sound(k) /\ MediaStep(c, told) /\ told.st.media = x
    BY <1>2, <2>g, <2>2, <2>3, MediaEditStep
  <2>5. looped \in Sound(k) /\ MediaStep(c, looped)
    BY <1>2, <2>g, <2>2, <2>3, MediaEditStep
  <2>6. x # None BY <2>2, NoneAssumption
  <2>d. [told EXCEPT !.st.media.paused = TRUE] = [told EXCEPT !.st.media = z]
    BY <2>4 DEF z
  <2> HIDE DEF told, looped
  <2>t. Good(told) /\ Named(told) /\ Good(looped) /\ Named(looped)
    BY <2>4, <2>5, MediaStepGood, MediaStepNamed DEF MediaStep
  <2>7. paused \in Sound(k) /\ MediaStep(told, paused)
    BY <2>2, <2>3, <2>4, <2>6, <2>t, MediaEditStep DEF Good
  <2>e. ended = CASE m.loop -> looped
                  [] ~m.loop /\ m.endAction = "clear" -> MediaClear(c)
                  [] OTHER -> Emit([told EXCEPT !.st.media.paused = TRUE])
    BY <2>d
  <2> HIDE DEF paused
  <2>p. Good(paused) /\ Named(paused)
    BY <2>4, <2>7, <2>t, MediaStepGood, MediaStepNamed DEF MediaStep
  <2>8. /\ MediaClear(c) \in Sound(k) /\ Good(MediaClear(c))
        /\ Named(MediaClear(c))
    <3>1. MediaStep(c, MediaClear(c)) BY <2>g, MediaClearDoes DEF MediaStep
    <3> QED BY <3>1, MediaClearSound, MediaStepGood, MediaStepNamed DEF MediaStep
  <2>9. ended \in Sound(k) /\ Good(ended) /\ Named(ended)
    BY <2>5, <2>7, <2>8, <2>p, <2>t
  <2> HIDE DEF ended
  <2>10. \A e \in Sound(k) : Good(e) /\ Named(e) =>
           /\ LoopMediaEnded(e, at, present, t) \in Sound(k)
           /\ LoopMediaFailed(e, at, present, t) \in Sound(k)
           /\ LoopMediaPlaying(e, at) \in Sound(k)
           /\ Named(LoopMediaEnded(e, at, present, t))
           /\ Named(LoopMediaFailed(e, at, present, t))
           /\ Named(LoopMediaPlaying(e, at))
    BY LoopReportsSound, LoopReportsDo, MediaStepNamed DEF Good, MediaStep
  <2>11. Named(SlidesMediaEnded(LoopMediaEnded(ended, at, present, t), at, t))
    BY <2>9, <2>10, SlidesReportsNamed
  <2>12. Named(SlidesMediaFailed(LoopMediaFailed(told, at, present, t), at, t))
    BY <2>4, <2>t, <2>10, SlidesReportsNamed
  <2>13. Named(SlidesMediaPlaying(LoopMediaPlaying(told, at), at))
    BY <2>4, <2>t, <2>10, SlidesReportsNamed
  <2>14. MediaStatus(c, at, status, present, t) =
           CASE status = "ended" /\ m.kind = "image" -> c
             [] status = "ended" /\ m.kind # "image" ->
                  SlidesMediaEnded(LoopMediaEnded(ended, at, present, t), at, t)
             [] status = "error" ->
                  SlidesMediaFailed(LoopMediaFailed(told, at, present, t), at, t)
             [] OTHER -> SlidesMediaPlaying(LoopMediaPlaying(told, at), at)
    BY <1>2, <2>e DEF MediaStatus, told, looped, x, y
  <2> QED BY <2>11, <2>12, <2>13, <2>14
<1> QED BY <1>1, <1>2

\* clear_all_channels, for one channel.
LEMMA ClearAllNamed ==
  ASSUME NEW k, NEW c \in Sound(k), Good(c), NEW cut \in BOOLEAN
  PROVE  Named(ClearAll(c, cut))
<1> DEFINE off == Clear(c, FALSE)
           d == DropLoopNow(off)
<1>1. FALSE \in BOOLEAN OBVIOUS
<1>2. off \in Sound(k) /\ Named(off) /\ Good(off)
  BY <1>1, ClearSound, ClearGood, ClearsAreDark DEF Good
<1> HIDE DEF off
<1>3. d \in Sound(k) BY <1>2, DropLoopSound
<1>4. SameGraphics(off, d)
  BY <1>2, DropLoopDoes DEF MediaStep, Good
<1> HIDE DEF d
<1>5. Named(d) BY <1>2, <1>4, MediaStepNamed
<1>6. SameGraphics(d, MediaClear(d)) BY <1>3, MediaClearDoes
<1>7. Named(MediaClear(d)) BY <1>5, <1>6, MediaStepNamed
<1> QED BY <1>5, <1>7 DEF ClearAll, d, off

----------------------------------------------------------------------------
(***************************************************************************)
(* The invariant of the names.  Where the system promotes from channel to  *)
(* channel it holds as long as promotions leave the sessions apart: no     *)
(* song beside a deck, no queue under one, no song cued off its slides.    *)
(***************************************************************************)
NamedInv == \A k \in Channels : Named(ch[k])
Apart == Promotions # {} =>
           OneSessionPerSlot /\ DeckDropsTheQueue /\ CuedSongsAreOnSlide

\* Channels start without a session and without a source.
LEMMA InitNamed == Init => NamedInv
<1>1. ASSUME NEW k PROVE Named(InitChannel(k))
  BY DarkNamed DEF InitChannel
<1> QED BY <1>1 DEF Init, NamedInv

\* What a promotion must leave of d's sessions.
SessionsApart(d) ==
  /\ CuedOnSlide(d)
  /\ ~(d.song # None /\ d.slides # None)
  /\ d.slides # None => d.songQ = None

\* An action that replaces one channel's record, or two, by well named ones.
LEMMA BecomeNamed ==
  ASSUME IInv, NamedInv, Apart', NEW k \in Channels, NEW c,
         CuedOnSlide(c) => Named(c), Become(k, c)
  PROVE  NamedInv'
<1>1. ch' = [ch EXCEPT ![k] = c] /\ ch'[k] = c BY DEF Become, IInv
<1>2. CuedOnSlide(c)
  <2>1. CASE Promotions = {} BY <2>1 DEF CuedOnSlide, Cued
  <2>2. CASE Promotions # {} BY <1>1, <2>2 DEF Apart, CuedSongsAreOnSlide
  <2> QED BY <2>1, <2>2
<1> QED BY <1>1, <1>2 DEF NamedInv, IInv

\* A step that replaces two channels: the destination only has to be right
\* about its names when the promotion left its sessions apart.
LEMMA BecomeBothNamed ==
  ASSUME IInv, NamedInv, Apart', NEW p \in Promotions, NEW pair,
         Named(pair[1]), SessionsApart(pair[2]) => Named(pair[2]),
         BecomeBoth(p, pair)
  PROVE  NamedInv'
<1>1. p[1] \in Channels /\ p[2] \in Channels /\ p[1] # p[2]
  BY InputsAssumption
<1>2. /\ ch' = [ch EXCEPT ![p[1]] = pair[1], ![p[2]] = pair[2]]
      /\ ch'[p[2]] = pair[2]
  BY <1>1 DEF BecomeBoth, IInv
<1>3. SessionsApart(pair[2])
  BY <1>1, <1>2
  DEF Apart, CuedSongsAreOnSlide, OneSessionPerSlot, DeckDropsTheQueue,
      SessionsApart
<1>4. Named(pair[2]) BY <1>3
<1>5. \A k \in Channels : ch'[k] \in {pair[1], pair[2], ch[k]}
  BY <1>1, <1>2 DEF IInv
<1> QED BY <1>4, <1>5 DEF NamedInv

\* Messages about graphics, songs and scripture keep the names right.
LEMMA TextMessagesNamed ==
  ASSUME IInv, GoodInv, NamedInv, Apart', NEW k \in Channels,
         \/ TakeOn(k) \/ ClearOn(k) \/ UpdateOn(k)
         \/ SongTakeOn(k) \/ SongAdvanceOn(k) \/ SongJumpOn(k) \/ SongBlankOn(k)
         \/ SongTrustOn(k) \/ SongEndOn(k) \/ SongIntroOn(k) \/ SongOutroOn(k)
         \/ SongLyricsOn(k)
         \/ ScriptureIntroOn(k) \/ ScriptureSlideOn(k) \/ ScriptureAdvanceOn(k)
         \/ ScriptureGoToOn(k) \/ ScriptureEndOn(k)
  PROVE  NamedInv'
<1> DEFINE c == ch[k]
<1>c. c \in Sound(k) /\ Good(c) /\ now \in Nat BY Here
<1>n. Named(c) BY DEF NamedInv
<1>i. \A i \in SlidePicks : i \in Nat /\ i \in Int BY Here
<1>1. CASE TakeOn(k)
  <2>1. \A g \in GraphicTakes : g.tpl \in Templates /\ g.row \in Rows \cup {None}
    BY InputsAssumption DEF Rows
  <2>2. \A g \in GraphicTakes : Named(TakeGraphic(c, g.tpl, g.row, "none", now))
    BY <1>c, <1>n, <2>1, TakeGraphicNamed DEF Contexts
  <2> QED BY <1>1, <2>2, BecomeNamed DEF TakeOn
<1>2. CASE ClearOn(k)
  <2>1. FALSE \in BOOLEAN OBVIOUS
  <2>2. Named(Clear(c, FALSE)) BY <1>c, <2>1, ClearsAreDark DEF Good
  <2> QED BY <1>2, <2>2, BecomeNamed DEF ClearOn
<1>3. CASE UpdateOn(k)
  BY <1>c, <1>n, <1>3, EditFieldsNamed, BecomeNamed DEF UpdateOn
<1>4. CASE SongTakeOn(k)
  <2>1. \A r \in SongRows :
          CuedOnSlide(SongTake(c, r, now)) => Named(SongTake(c, r, now))
    BY <1>c, SongTakeNamed
  <2> QED BY <1>4, <2>1, BecomeNamed DEF SongTakeOn
<1>5. CASE SongAdvanceOn(k)
  <2>1. \A d \in {-1, 1} :
          CuedOnSlide(SongAdvance(c, d, now)) => Named(SongAdvance(c, d, now))
    BY <1>c, <1>n, SongAdvanceNamed
  <2> QED BY <1>5, <2>1, BecomeNamed DEF SongAdvanceOn
<1>6. CASE SongJumpOn(k)
  <2>1. \A sec \in Sections, i \in SlidePicks :
          CuedOnSlide(SongJump(c, sec, i, now)) => Named(SongJump(c, sec, i, now))
    BY <1>c, <1>n, <1>i, SongJumpNamed
  <2> QED BY <1>6, <2>1, BecomeNamed DEF SongJumpOn
<1>7. CASE SongBlankOn(k)
  <2>1. CuedOnSlide(SongBlank(c, now)) => Named(SongBlank(c, now))
    BY <1>c, <1>n, SongBlankNamed
  <2> QED BY <1>7, <2>1, BecomeNamed DEF SongBlankOn
<1>8. CASE SongTrustOn(k)
  BY <1>c, <1>n, <1>8, SongTrustNamed, BecomeNamed DEF SongTrustOn
<1>9. CASE SongEndOn(k)
  <2>1. Named(ClearQueuedSong(c)) /\ Named(EndLiveSong(c))
    BY <1>c, <1>n, ClearQueuedSongNames, ClearsAreDark DEF Good
  <2>2. Named(SongEnd(c)) BY <1>n, <2>1 DEF SongEnd
  <2> QED BY <1>9, <2>2, BecomeNamed DEF SongEndOn
<1>10. CASE SongIntroOn(k)
  BY <1>c, <1>n, <1>10, IntroAndOutroNamed, BecomeNamed DEF SongIntroOn
<1>11. CASE SongOutroOn(k)
  BY <1>c, <1>n, <1>11, IntroAndOutroNamed, BecomeNamed DEF SongOutroOn
<1>12. CASE SongLyricsOn(k)
  <2>1. \A r \in SongRows :
          CuedOnSlide(SongLyrics(c, r, now)) => Named(SongLyrics(c, r, now))
    BY <1>c, <1>n, SongLyricsNamed
  <2> QED BY <1>12, <2>1, BecomeNamed DEF SongLyricsOn
<1>13. CASE ScriptureIntroOn(k)
  BY <1>c, <1>n, <1>13, ScriptureTakesNamed, BecomeNamed DEF ScriptureIntroOn
<1>14. CASE ScriptureSlideOn(k)
  BY <1>c, <1>n, <1>i, <1>14, ScriptureTakesNamed, BecomeNamed
  DEF ScriptureSlideOn
<1>15. CASE ScriptureAdvanceOn(k)
  BY <1>c, <1>n, <1>15, ScriptureStepsNamed, BecomeNamed DEF ScriptureAdvanceOn
<1>16. CASE ScriptureGoToOn(k)
  BY <1>c, <1>n, <1>i, <1>16, ScriptureStepsNamed, BecomeNamed
  DEF ScriptureGoToOn
<1>17. CASE ScriptureEndOn(k)
  BY <1>c, <1>n, <1>17, ScriptureStepsNamed, BecomeNamed DEF ScriptureEndOn
<1> QED BY <1>1, <1>2, <1>3, <1>4, <1>5, <1>6, <1>7, <1>8, <1>9, <1>10, <1>11,
           <1>12, <1>13, <1>14, <1>15, <1>16, <1>17

\* So do messages about decks and the media slot.
LEMMA DeckMessagesNamed ==
  ASSUME IInv, GoodInv, NamedInv, Apart', NEW k \in Channels,
         \/ SlidesTakeOn(k) \/ SlidesAdvanceOn(k) \/ SlidesGoToOn(k)
         \/ SlidesBlankOn(k) \/ SlidesEndOn(k)
         \/ MediaTakeOn(k) \/ MediaClearOn(k) \/ MediaControlOn(k)
         \/ MediaStatusOn(k)
  PROVE  NamedInv'
<1> DEFINE c == ch[k]
<1>c. /\ c \in Sound(k) /\ Good(c) /\ MediaGood(c)
      /\ now \in Nat /\ files \in SUBSET Files
  BY Here
<1>n. Named(c) BY DEF NamedInv
<1>m. \A d : MediaStep(c, d) => Named(d)
  BY <1>n, MediaStepNamed DEF MediaStep
<1>i. \A i \in SlidePicks : i \in Nat BY Here
<1>1. CASE SlidesTakeOn(k)
  <2>1. \A i \in SlidePicks, r \in DeckRows : Named(SlidesStart(c, r, i, now))
    BY <1>c, <1>n, <1>i, SlidesStartNamed
  <2>2. \A i \in SlidePicks, r \in LoopRows : Named(LoopStart(c, r, i, files, now))
    BY <1>c, <1>m, <1>i, LoopStartDoes
  <2> QED BY <1>1, <2>1, <2>2, BecomeNamed DEF SlidesTakeOn
<1>2. CASE SlidesAdvanceOn(k)
  <2>1. \A d \in {-1, 1} : /\ Named(LoopStep(c, d, files, now))
                           /\ Named(SlidesAdvance(c, d, now))
    BY <1>c, <1>n, <1>m, LoopStepDoes, SlidesAdvanceNamed
  <2> QED BY <1>2, <2>1, BecomeNamed DEF SlidesAdvanceOn
<1>3. CASE SlidesGoToOn(k)
  <2>1. \A i \in SlidePicks : /\ Named(LoopGoTo(c, i, files, now))
                              /\ Named(SlidesGoTo(c, i, now))
    BY <1>c, <1>n, <1>m, <1>i, LoopGoToDoes, SlidesGoToNamed
  <2> QED BY <1>3, <2>1, BecomeNamed DEF SlidesGoToOn
<1>4. CASE SlidesBlankOn(k)
  BY <1>c, <1>n, <1>4, SlidesBlankNamed, BecomeNamed DEF SlidesBlankOn
<1>5. CASE SlidesEndOn(k)
  <2>1. Named(LoopEnd(c)) BY <1>c, <1>m, LoopEndDoes DEF MediaGood
  <2>2. Named(SlidesEnd(c)) BY <1>c, <1>n, SlidesEndNamed
  <2> QED BY <1>5, <2>1, <2>2, BecomeNamed DEF SlidesEndOn
<1>6. CASE MediaTakeOn(k)
  <2> DEFINE Pick(m) == [row |-> m.row, item |-> 0, kind |-> m.kind,
                         loop |-> m.loop, endAction |-> m.endAction,
                         owner |-> None]
  <2>1. \A m \in MediaTakes : Pick(m) \in MediaPick /\ m.inShow \in BOOLEAN
    BY InputsAssumption DEF MediaPick, Rows
  <2> HIDE DEF Pick
  <2>2. \A m \in MediaTakes : Named(MediaTake(c, Pick(m), m.inShow, now))
    BY <1>c, <1>n, <2>1, MediaTakeDoes, MediaStepNamed
  <2> QED BY <1>6, <2>2, BecomeNamed DEF MediaTakeOn, Pick
<1>7. CASE MediaClearOn(k)
  <2>1. Named(MediaClear(c)) BY <1>c, <1>n, MediaClearDoes, MediaStepNamed
  <2> QED BY <1>7, <2>1, BecomeNamed DEF MediaClearOn
<1>8. CASE MediaControlOn(k)
  <2>1. \A at, x : Named(MediaControl(c, at, x))
    BY <1>c, <1>n, MediaControlDoes, MediaStepNamed
  <2> QED BY <1>8, <2>1, BecomeNamed DEF MediaControlOn
<1>9. CASE MediaStatusOn(k)
  BY <1>c, <1>n, <1>9, MediaStatusNamed, BecomeNamed DEF MediaStatusOn
<1> QED BY <1>1, <1>2, <1>3, <1>4, <1>5, <1>6, <1>7, <1>8, <1>9

\* So do the timers and template reads.
LEMMA InternalNamed ==
  ASSUME IInv, GoodInv, NamedInv, Apart', NEW k \in Channels, Internal(k)
  PROVE  NamedInv'
<1> DEFINE c == ch[k]
<1>c. /\ c \in Sound(k) /\ Good(c) /\ MediaGood(c)
      /\ now \in Nat /\ files \in SUBSET Files
  BY Here
<1>n. Named(c) BY DEF NamedInv
<1>1. CASE AutoOutLookup(k)
  BY <1>c, <1>n, <1>1, AutoOutAnswerNamed, BecomeNamed DEF AutoOutLookup
<1>2. CASE AutoOutTimer(k)
  BY <1>c, <1>n, <1>2, AutoOutFiresNamed, BecomeNamed DEF AutoOutTimer
<1>3. CASE SweepTimer(k)
  BY <1>c, <1>n, <1>3, SweepNamed, BecomeNamed DEF SweepTimer
<1>4. CASE SttTimer(k)
  <2>1. c.stt # None BY <1>4 DEF SttTimer
  <2>2. CuedOnSlide(SttFires(c, now)) => Named(SttFires(c, now))
    BY <1>c, <1>n, <2>1, SttFiresNamed
  <2> QED BY <1>4, <2>2, BecomeNamed DEF SttTimer
<1>5. CASE DeckTimer(k)
  BY <1>c, <1>n, <1>5, SlidesTimerNamed, BecomeNamed DEF DeckTimer
<1>6. CASE MediaDeckTimer(k)
  <2>1. c.deck # None /\ c.deck.armed BY <1>6 DEF MediaDeckTimer
  <2>2. MediaStep(c, LoopTimer(c, files, now)) BY <1>c, <2>1, LoopTimerDoes
  <2>3. Named(LoopTimer(c, files, now))
    BY <1>n, <2>2, MediaStepNamed DEF MediaStep
  <2> QED BY <1>6, <2>3, BecomeNamed DEF MediaDeckTimer
<1> QED BY <1>1, <1>2, <1>3, <1>4, <1>5, <1>6 DEF Internal

\* Every step that leaves the sessions apart keeps the names right.
LEMMA NextNamed ==
  IInv /\ GoodInv /\ NamedInv /\ Apart' /\ [Next]_vars => NamedInv'
<1> SUFFICES ASSUME IInv, GoodInv, NamedInv, Apart', [Next]_vars
             PROVE  NamedInv'
  OBVIOUS
<1>c. /\ \A k \in Channels : /\ ch[k] \in Sound(k) /\ Good(ch[k])
                             /\ MediaGood(ch[k]) /\ Named(ch[k])
      /\ now \in Nat /\ files \in SUBSET Files
  BY DEF IInv, GoodInv, Good, NamedInv
<1>p. \A p \in Promotions : /\ p[1] \in Channels /\ p[2] \in Channels
                            /\ Cued(ch[p[1]])
  <2>1. \A p \in Promotions : p[1] \in Channels /\ p[2] \in Channels
    BY InputsAssumption
  <2>2. \A k \in Channels : ch[k].name = k BY <1>c, Parts
  <2> QED BY <2>1, <2>2 DEF Cued
<1>1. CASE \E k \in Channels : ClientMessage(k) \/ Internal(k)
  <2>1. PICK k \in Channels : ClientMessage(k) \/ Internal(k) BY <1>1
  <2>2. CASE ClientMessage(k)
    BY <2>2, TextMessagesNamed, DeckMessagesNamed DEF ClientMessage
  <2> QED BY <2>1, <2>2, InternalNamed
<1>2. CASE ClearAllChannels
  BY <1>c, <1>2, ClearAllNamed DEF ClearAllChannels, NamedInv
<1>3. CASE PvwToPgm
  <2>1. PICK p \in Promotions :
          BecomeBoth(p, TakePvwToPgm(ch[p[1]], ch[p[2]], files, now))
    BY <1>3 DEF PvwToPgm
  <2> DEFINE pair == TakePvwToPgm(ch[p[1]], ch[p[2]], files, now)
  <2>2. /\ Named(pair[1])
        /\ (pair[2].slides # None => pair[2].songQ = None) => Named(pair[2])
    BY <1>c, <1>p, TakePvwToPgmNamed
  <2>3. BecomeBoth(p, pair) BY <2>1
  <2> HIDE DEF pair
  <2>4. Named(pair[1]) /\ (SessionsApart(pair[2]) => Named(pair[2]))
    BY <2>2 DEF SessionsApart
  <2> QED BY <2>3, <2>4, BecomeBothNamed
<1>4. CASE SongPvwToPgm
  <2>1. PICK p \in Promotions, r \in SongRows :
          BecomeBoth(p, SongPromote(ch[p[1]], ch[p[2]], r, now))
    BY <1>4 DEF SongPvwToPgm
  <2> DEFINE pair == SongPromote(ch[p[1]], ch[p[2]], r, now)
  <2>2. /\ Named(pair[1])
        /\ /\ CuedOnSlide(pair[2])
           /\ ~(pair[2].song # None /\ pair[2].slides # None)
           => Named(pair[2])
    BY <1>c, <1>p, SongPromoteNamed
  <2>3. BecomeBoth(p, pair) BY <2>1
  <2> HIDE DEF pair
  <2>4. Named(pair[1]) /\ (SessionsApart(pair[2]) => Named(pair[2]))
    BY <2>2 DEF SessionsApart
  <2> QED BY <2>3, <2>4, BecomeBothNamed
<1>5. CASE SttHypothesis
  <2> DEFINE live == {k \in Channels : ch[k].song # None}
             heard == {None} \cup UNION {Matchable(ch[k]) : k \in live}
  <2>1. PICK p \in [live -> heard], sure \in [live -> BOOLEAN] :
          ch' = [k \in Channels |->
                   IF k \in live THEN Hypothesis(ch[k], p[k], sure[k])
                                 ELSE ch[k]]
    BY <1>5 DEF SttHypothesis
  <2>2. \A k \in live : Named(Hypothesis(ch[k], p[k], sure[k]))
    BY <1>c, HypothesisNamed
  <2> QED BY <1>c, <2>1, <2>2 DEF NamedInv
<1>6. CASE FolderChange
  <2>1. PICK present \in FolderContents :
          ch' = [k \in Channels |-> LoopFolderChange(ch[k], present, now)]
    BY <1>6 DEF FolderChange
  <2>2. present \in SUBSET Files BY InputsAssumption
  <2>3. \A k \in Channels : Named(LoopFolderChange(ch[k], present, now))
    BY <1>c, <2>2, LoopFolderChangeDoes, MediaStepNamed DEF MediaStep
  <2> QED BY <2>1, <2>3 DEF NamedInv
<1>7. CASE Tick BY <1>7 DEF Tick, NamedInv
<1>8. CASE UNCHANGED vars BY <1>8 DEF vars, NamedInv
<1> QED BY <1>1, <1>2, <1>3, <1>4, <1>5, <1>6, <1>7, <1>8 DEF Next

\* Names are right as long as promotions leave the sessions apart.
LEMMA AlwaysNamed == Spec /\ []Apart => [](GoodInv /\ NamedInv)
<1>1. IInv /\ GoodInv /\ NamedInv /\ Apart' /\ [Next]_vars
        => (IInv /\ GoodInv /\ NamedInv)'
  BY NextIInv, NextGood, NextNamed
<1>2. Init => IInv /\ GoodInv /\ NamedInv
  BY InitIInv, InitGoodInv, InitNamed
<1> QED BY <1>1, <1>2, PTL DEF Spec

\* The source of a channel, which PVW to PGM hands on as the row on program,
\* names the row of the graphic on screen.
THEOREM SourceIsNamed == Spec /\ []Apart => []SourceNamesTheGraphic
<1>1. GoodInv /\ NamedInv => SourceNamesTheGraphic
  BY NamedShows DEF GoodInv, NamedInv, SourceNamesTheGraphic
<1> QED BY <1>1, AlwaysNamed, PTL

\* Only a promotion can put a song beside a deck or a deck over a queue: where
\* there is none, each session ends the other of its slot as it starts.
THEOREM SessionsStayApart ==
  ASSUME Promotions = {}
  PROVE  Spec => [](OneSessionPerSlot /\ DeckDropsTheQueue
                    /\ SourceNamesTheGraphic)
<1>1. Apart BY DEF Apart
<1>2. NamedInv => OneSessionPerSlot /\ DeckDropsTheQueue
  BY DEF NamedInv, Named, SongNamed, DeckNamed, OneSessionPerSlot,
         DeckDropsTheQueue
<1> QED BY <1>1, <1>2, AlwaysNamed, SourceIsNamed, PTL
=============================================================================
