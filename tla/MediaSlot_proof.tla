----------------------------- MODULE MediaSlot_proof ---------------------------
(***************************************************************************)
(* What the media slot and the decks in it do to a channel: they leave the *)
(* graphics slot and its sessions alone, they tell the clients of whatever *)
(* they change, and they keep the slot, the deck in it and the published   *)
(* summary in agreement (MediaGood).                                       *)
(***************************************************************************)
EXTENDS LiveControl_proof

\* d has the graphics, the sessions and the timers of c.
SameGraphics(c, d) ==
  /\ d.name = c.name /\ d.source = c.source
  /\ d.song = c.song /\ d.songQ = c.songQ /\ d.stt = c.stt
  /\ d.scr = c.scr /\ d.scrQ = c.scrQ /\ d.slides = c.slides
  /\ d.autoOut = c.autoOut /\ d.lookups = c.lookups
  /\ d.st.active = c.st.active
  /\ d.st.song = c.st.song /\ d.st.songQ = c.st.songQ
  /\ d.st.scr = c.st.scr /\ d.st.scrQ = c.st.scrQ

\* d has the media slot and the media deck of c.
SameMedia(c, d) == d.st.media = c.st.media /\ d.deck = c.deck

\* A change of c to d leaves nothing unsent that was not before.
Tells(c, d) == Told(c) => Told(d)

LoopShown(c) ==
  c.slides = None =>
    c.st.slides = IF c.deck # None THEN LoopSummary(c.deck) ELSE None
DeckShown(c) == c.slides # None => c.st.slides = DeckSummary(c.slides)
LoopRests(c) == c.deck # None => (c.deck.armed => ~c.deck.atEnd)
SlideMedia == {<<"slides", r>> : r \in DeckRows}
NoStray(c) ==
  c.st.media # None =>
    (c.st.media.owner \in SlideMedia =>
       /\ c.slides # None
       /\ c.st.media.owner[2] = c.slides.row /\ ~c.slides.blanked
       /\ c.st.media.item = c.slides.idx /\ c.st.media.at = c.slides.mediaAt)

Framed(c) == DeckShown(c) /\ LoopOwns(c) /\ NoStray(c)
MediaGood(c) == Framed(c) /\ LoopShown(c) /\ LoopRests(c)

\* A step of a handler in the media slot: the graphics are left alone, what
\* changes is told, and slot, deck and summary agree afterwards.
MediaStep(c, d) == SameGraphics(c, d) /\ Tells(c, d) /\ MediaGood(d)

----------------------------------------------------------------------------
(***************************************************************************)
(* Updates of single fields.                                               *)
(***************************************************************************)
\* emit() tells everyone and changes nothing else.
LEMMA EmitDoes ==
  ASSUME NEW c \in Channel
  PROVE  LET d == Emit(c)
         IN  /\ SameGraphics(c, d) /\ SameMedia(c, d) /\ Told(d)
             /\ d.st = c.st
BY DEF Emit, Channel, SameGraphics, SameMedia, Told

\* The deck's session alone.
LEMMA PutDeck ==
  ASSUME NEW c \in Channel, NEW x
  PROVE  LET d == [c EXCEPT !.deck = x]
         IN  /\ SameGraphics(c, d) /\ d.deck = x
             /\ d.st = c.st /\ d.sent = c.sent
BY DEF Channel, SameGraphics

\* The published summary alone.
LEMMA PutStSlides ==
  ASSUME NEW c \in Channel, NEW x
  PROVE  LET d == [c EXCEPT !.st.slides = x]
         IN  /\ SameGraphics(c, d) /\ SameMedia(c, d)
             /\ d.st.slides = x /\ d.sent = c.sent
BY DEF Channel, State, SameGraphics, SameMedia

\* The media alone.
LEMMA PutMedia ==
  ASSUME NEW c \in Channel, NEW x
  PROVE  LET d == [c EXCEPT !.st.media = x]
         IN  /\ SameGraphics(c, d)
             /\ d.st.media = x /\ d.deck = c.deck /\ d.st.slides = c.st.slides
BY DEF Channel, State, SameGraphics, SameMedia

\* The live row alone.
LEMMA PutLiveRow ==
  ASSUME NEW c \in Channel, NEW x
  PROVE  LET d == [c EXCEPT !.st.liveRow = x]
         IN  SameGraphics(c, d) /\ SameMedia(c, d) /\ d.st.slides = c.st.slides
BY DEF Channel, State, SameGraphics, SameMedia

\* SameGraphics composes.
LEMMA SameGraphicsTrans ==
  ASSUME NEW b, NEW c, NEW d, SameGraphics(b, c), SameGraphics(c, d)
  PROVE  SameGraphics(b, d)
BY DEF SameGraphics

\* setMediaDeckSummary(): the summary is held back while a graphics-slot deck
\* is live.
LEMMA PublishLoopDoes ==
  ASSUME NEW k, NEW c \in Sound(k), NEW x
  PROVE  LET d == PublishLoop(c, x)
             e == PublishLoopNow(c, x)
         IN  /\ SameGraphics(c, d) /\ SameMedia(c, d)
             /\ d.st.slides = IF c.slides = None THEN x ELSE c.st.slides
             /\ SameGraphics(c, e) /\ SameMedia(c, e) /\ Tells(c, e)
             /\ e.st.slides = IF c.slides = None THEN x ELSE c.st.slides
<1>c. c \in Channel BY Parts
<1> DEFINE put == [c EXCEPT !.st.slides = x]
<1>1. SameGraphics(c, put) /\ SameMedia(c, put) /\ put.st.slides = x
  BY <1>c, PutStSlides
<1>2. LET e == Emit(put)
      IN  /\ SameGraphics(c, e) /\ SameMedia(c, e) /\ Told(e)
          /\ e.st.slides = x
  BY <1>c DEF Channel, State, SameGraphics, SameMedia, Told, Emit
<1>3. SameGraphics(c, c) /\ SameMedia(c, c) BY DEF SameGraphics, SameMedia
<1> HIDE DEF put
<1> QED BY <1>1, <1>2, <1>3 DEF PublishLoop, PublishLoopNow, put, Tells

\* showMediaDeckSummary(): the media deck's summary comes back, or none.
LEMMA ShowLoopSummaryDoes ==
  ASSUME NEW k, NEW c \in Sound(k)
  PROVE  LET d == ShowLoopSummary(c)
         IN  /\ SameGraphics(c, d) /\ SameMedia(c, d)
             /\ d.st.slides = IF c.deck # None THEN LoopSummary(c.deck) ELSE None
<1>c. c \in Channel BY Parts
<1> DEFINE x == IF c.deck = None THEN None ELSE LoopSummary(c.deck)
<1> HIDE DEF x
<1>1. LET d == [c EXCEPT !.st.slides = x]
      IN  SameGraphics(c, d) /\ SameMedia(c, d) /\ d.st.slides = x
  BY <1>c, PutStSlides
<1> QED BY <1>1 DEF ShowLoopSummary, x

\* mediaDeckSession.dropAll() and releaseForMediaTake(): the deck is gone, its
\* summary too unless a graphics-slot deck hides it; only dropAll() tells.
LEMMA DropLoopDoes ==
  ASSUME NEW k, NEW c \in Sound(k)
  PROVE  LET d == DropLoop(c)
             e == DropLoopNow(c)
         IN  /\ SameGraphics(c, d) /\ d.st.media = c.st.media /\ d.deck = None
             /\ SameGraphics(c, e) /\ e.st.media = c.st.media /\ e.deck = None
             /\ MediaGood(c) => MediaGood(d) /\ MediaGood(e)
             /\ DeckShown(c) => DeckShown(d) /\ DeckShown(e)
             /\ LoopShown(c) => LoopShown(d) /\ LoopShown(e)
             /\ Tells(c, e)
             /\ c.deck = None => d = c
<1> DEFINE g == [c EXCEPT !.deck = None]
<1>1. CASE c.deck = None
  BY <1>1 DEF DropLoop, DropLoopNow, SameGraphics, Tells
<1>2. CASE c.deck # None
  <2>1. g \in Sound(k) BY Put
  <2>2. SameGraphics(c, g) /\ g.deck = None /\ g.st = c.st /\ g.sent = c.sent
    BY Parts, PutDeck
  <2> HIDE DEF g
  <2>3. DropLoop(c) = PublishLoop(g, None) /\ DropLoopNow(c) = PublishLoopNow(g, None)
    BY <1>2 DEF DropLoop, DropLoopNow, g
  <2> DEFINE d == DropLoop(c)
             e == DropLoopNow(c)
  <2>4. /\ SameGraphics(c, d) /\ d.st.media = c.st.media /\ d.deck = None
        /\ SameGraphics(c, e) /\ e.st.media = c.st.media /\ e.deck = None
        /\ d.st.slides = IF c.slides = None THEN None ELSE c.st.slides
        /\ e.st.slides = IF c.slides = None THEN None ELSE c.st.slides
        /\ Tells(c, e)
    BY <2>1, <2>2, <2>3, PublishLoopDoes
    DEF SameGraphics, SameMedia, Tells, Told
  <2> HIDE DEF d, e
  <2>5. DeckShown(c) => DeckShown(d) /\ DeckShown(e)
    BY <2>4 DEF SameGraphics, DeckShown
  <2>6. LoopShown(d) /\ LoopShown(e) BY <2>4 DEF SameGraphics, LoopShown
  <2>7. MediaGood(c) => MediaGood(d) /\ MediaGood(e)
    BY <2>4, <2>5, <2>6
    DEF SameGraphics, MediaGood, Framed, LoopOwns, LoopRests, NoStray
  <2> QED BY <1>2, <2>4, <2>5, <2>6, <2>7 DEF d, e
<1> QED BY <1>1, <1>2

\* mediaTake(): everyone is told of the new take; a deck it does not belong to
\* stops, and nothing else changes.
LEMMA MediaTakeDoes ==
  ASSUME NEW k, NEW c \in Sound(k), NEW m \in MediaPick,
         NEW inShow \in BOOLEAN, NEW t \in Nat
  PROVE  LET d == MediaTake(c, m, inShow, t)
         IN  /\ SameGraphics(c, d) /\ Told(d)
             /\ d.st.media # None /\ d.st.media \in Media
             /\ d.st.media.owner = m.owner /\ d.st.media.item = m.item
             /\ d.deck = IF c.deck # None /\ m.owner # LoopOwner(c.deck)
                           THEN None ELSE c.deck
             /\ DeckShown(c) => DeckShown(d)
             /\ LoopShown(c) => LoopShown(d)
             /\ LoopRests(c) => LoopRests(d)
<1> DEFINE kept == IF c.deck # None /\ m.owner # LoopOwner(c.deck)
                     THEN DropLoop(c) ELSE c
           prev == IF c.st.media = None THEN 0 ELSE c.st.media.at
           media == [row |-> m.row, item |-> m.item, kind |-> m.kind,
                     loop |-> m.loop, endAction |-> m.endAction,
                     owner |-> m.owner,
                     at |-> IF t > prev THEN t ELSE prev + 1,
                     status |-> "loading", paused |-> FALSE]
           row == IF inShow THEN m.row ELSE c.st.liveRow
           mid == [kept EXCEPT !.st.media = media]
           aired == [mid EXCEPT !.st.liveRow = row]
           d == MediaTake(c, m, inShow, t)
<1>1. prev \in Nat BY StParts DEF Media
<1>2. media \in Media /\ media.owner = m.owner /\ media.item = m.item
  BY <1>1 DEF Media, MediaPick
<1>3. row \in Rows \cup {None} BY StParts DEF MediaPick
<1>4. kept \in Sound(k) BY DropLoopSound
<1>5. /\ SameGraphics(c, kept) /\ kept.st.media = c.st.media
      /\ kept.deck = IF c.deck # None /\ m.owner # LoopOwner(c.deck)
                       THEN None ELSE c.deck
      /\ DeckShown(c) => DeckShown(kept)
      /\ LoopRests(c) => LoopRests(kept)
  BY DropLoopDoes DEF SameGraphics, LoopRests
<1>6. LoopShown(c) => LoopShown(kept) BY DropLoopDoes
<1>7. d = Emit(aired) BY DEF MediaTake
<1> HIDE DEF kept, media, row
<1>8. mid \in Sound(k) BY <1>2, <1>4, StPut
<1>9. /\ SameGraphics(kept, mid) /\ mid.st.media = media
      /\ mid.deck = kept.deck /\ mid.st.slides = kept.st.slides
  BY <1>4, Parts, PutMedia
<1> HIDE DEF mid
<1>10. aired \in Sound(k) BY <1>3, <1>8, StPut
<1>11. SameGraphics(mid, aired) /\ SameMedia(mid, aired) /\ aired.st.slides = mid.st.slides
  BY <1>8, Parts, PutLiveRow
<1> HIDE DEF aired
<1>12. SameGraphics(aired, d) /\ SameMedia(aired, d) /\ Told(d) /\ d.st = aired.st
  BY <1>7, <1>10, Parts, EmitDoes
<1> HIDE DEF d
<1>13. /\ SameGraphics(kept, d) /\ d.st.media = media /\ d.deck = kept.deck
       /\ d.st.slides = kept.st.slides
  BY <1>9, <1>11, <1>12 DEF SameGraphics, SameMedia
<1>14. SameGraphics(c, d) BY <1>5, <1>13, SameGraphicsTrans
<1>15. DeckShown(kept) => DeckShown(d) BY <1>13 DEF SameGraphics, DeckShown
<1>16. LoopShown(kept) => LoopShown(d) BY <1>13 DEF SameGraphics, LoopShown
<1>17. LoopRests(kept) => LoopRests(d) BY <1>13 DEF LoopRests
<1>18. d.st.media # None /\ d.st.media \in Media
  BY <1>2, <1>13, NoneAssumption
<1> QED BY <1>2, <1>5, <1>6, <1>12, <1>13, <1>14, <1>15, <1>16, <1>17, <1>18 DEF d

\* A deck's owner tag is neither absent nor a graphics-slot deck's.
LEMMA OwnersDiffer ==
  ASSUME NEW d \in LoopSession
  PROVE  /\ LoopOwner(d) # None /\ LoopOwner(d) \notin SlideMedia
         /\ None \notin SlideMedia
<1>1. LoopOwner(d) \in {"slides", "deck"} \X Rows
  BY DEF LoopOwner, LoopSession, Rows
<1>2. \A r \in DeckRows : <<"slides", r>> \in {"slides", "deck"} \X Rows
  BY DEF Rows
<1> QED BY <1>1, <1>2, NoneAssumption DEF LoopOwner, SlideMedia

\* Media of no deck stops the one in the slot.
LEMMA MediaTakeGood ==
  ASSUME NEW k, NEW c \in Sound(k), NEW m \in MediaPick,
         NEW inShow \in BOOLEAN, NEW t \in Nat,
         m.owner = None \/ m.owner \in SlideMedia
  PROVE  LET d == MediaTake(c, m, inShow, t)
         IN  /\ d.deck = None
             /\ DeckShown(c) => DeckShown(d)
             /\ LoopShown(c) => LoopShown(d)
             /\ LoopOwns(d) /\ LoopRests(d)
             /\ MediaGood(c) /\ m.owner = None => MediaGood(d)
<1> DEFINE d == MediaTake(c, m, inShow, t)
<1>1. c.deck # None => m.owner # LoopOwner(c.deck)
  BY Parts, OwnersDiffer DEF LoopLive
<1>n. None \notin SlideMedia
  BY NoneAssumption DEF SlideMedia, Rows
<1>2. /\ d.deck = None /\ d.st.media.owner = m.owner
      /\ DeckShown(c) => DeckShown(d)
      /\ LoopShown(c) => LoopShown(d)
  BY <1>1, MediaTakeDoes
<1> HIDE DEF d
<1>3. LoopOwns(d) /\ LoopRests(d) BY <1>2 DEF LoopOwns, LoopRests
<1>4. m.owner = None => NoStray(d) BY <1>2, <1>n DEF NoStray
<1> QED BY <1>2, <1>3, <1>4 DEF MediaGood, Framed, d

\* mediaClear(): nothing of the slot or its deck stays.
LEMMA MediaClearDoes ==
  ASSUME NEW k, NEW c \in Sound(k)
  PROVE  LET d == MediaClear(c)
         IN  /\ SameGraphics(c, d) /\ Tells(c, d)
             /\ d.st.media = None /\ d.deck = None
             /\ c.st.media # None => Told(d)
             /\ DeckShown(c) => DeckShown(d)
             /\ LoopShown(c) => LoopShown(d)
             /\ LoopOwns(d) /\ LoopRests(d)
             /\ MediaGood(c) => MediaGood(d)
<1> DEFINE g == DropLoop(c)
           p == [g EXCEPT !.st.media = None]
           d == MediaClear(c)
<1>1. /\ g \in Sound(k) /\ SameGraphics(c, g) /\ g.st.media = c.st.media
      /\ g.deck = None
      /\ DeckShown(c) => DeckShown(g)
      /\ LoopShown(c) => LoopShown(g)
      /\ c.deck = None => g = c
  BY DropLoopSound, DropLoopDoes
<1>d. d = IF c.st.media = None THEN IF c.deck = None THEN g ELSE Emit(g)
                               ELSE Emit(p)
  BY DEF MediaClear
<1> HIDE DEF g
<1>2. /\ p \in Sound(k) /\ SameGraphics(g, p) /\ p.st.media = None
      /\ p.deck = g.deck /\ p.st.slides = g.st.slides
  BY <1>1, StPut, Parts, PutMedia
<1> HIDE DEF p
<1>3. /\ SameGraphics(g, Emit(g)) /\ SameMedia(g, Emit(g)) /\ Told(Emit(g))
      /\ Emit(g).st = g.st
      /\ SameGraphics(p, Emit(p)) /\ SameMedia(p, Emit(p)) /\ Told(Emit(p))
      /\ Emit(p).st = p.st
  BY <1>1, <1>2, Parts, EmitDoes
<1> HIDE DEF d
<1>4. /\ SameGraphics(g, d) /\ d.st.media = None /\ d.deck = None
      /\ d.st.slides = g.st.slides
      /\ c.st.media # None => Told(d)
      /\ Tells(c, d)
  BY <1>1, <1>d, <1>2, <1>3 DEF SameGraphics, SameMedia, Tells
<1>5. SameGraphics(c, d) BY <1>1, <1>4, SameGraphicsTrans
<1>6. DeckShown(g) => DeckShown(d) BY <1>4 DEF SameGraphics, DeckShown
<1>7. LoopShown(g) => LoopShown(d)
  BY <1>1, <1>4 DEF SameGraphics, LoopShown
<1>8. LoopOwns(d) /\ LoopRests(d) /\ NoStray(d)
  BY <1>4 DEF LoopOwns, LoopRests, NoStray
<1>9. MediaGood(c) => MediaGood(d)
  BY <1>1, <1>6, <1>7, <1>8 DEF MediaGood, Framed
<1> QED BY <1>1, <1>4, <1>5, <1>6, <1>7, <1>8, <1>9 DEF d

\* A record that differs from a good one in transport alone is good.
LEMMA StillGood ==
  ASSUME NEW c, NEW d, SameGraphics(c, d), d.deck = c.deck,
         d.st.slides = c.st.slides,
         d.st.media = None <=> c.st.media = None,
         d.st.media.owner = c.st.media.owner,
         d.st.media.item = c.st.media.item, d.st.media.at = c.st.media.at
  PROVE  /\ Framed(c) => Framed(d)
         /\ MediaGood(c) => MediaGood(d)
BY DEF SameGraphics, MediaGood, Framed, LoopShown, DeckShown, LoopOwns, LoopRests, NoStray

\* mediaControl() changes the transport of the take, not the take.
LEMMA MediaControlDoes ==
  ASSUME NEW k, NEW c \in Sound(k), NEW at, NEW control
  PROVE  LET d == MediaControl(c, at, control)
         IN  /\ SameGraphics(c, d) /\ Tells(c, d)
             /\ d.deck = c.deck /\ d.st.slides = c.st.slides
             /\ Framed(c) => Framed(d)
             /\ MediaGood(c) => MediaGood(d)
<1> DEFINE m == c.st.media
           p == CASE control = "pause" -> TRUE
                  [] control \in {"play", "restart"} -> FALSE
                  [] OTHER -> m.paused
           s == IF control = "seek" /\ m.status = "ended"
                  THEN "paused" ELSE m.status
           x == [m EXCEPT !.paused = p, !.status = s]
           put == [c EXCEPT !.st.media = x]
           d == MediaControl(c, at, control)
<1>1. CASE m = None \/ m.at # at
  BY <1>1 DEF MediaControl, SameGraphics, Tells
<1>2. CASE m # None /\ m.at = at
  <2>1. m \in Media BY <1>2, StParts
  <2>2. p \in BOOLEAN /\ s \in {"loading", "playing", "paused", "ended", "error"}
    BY <2>1 DEF Media
  <2>3. d = Emit(put) BY <1>2 DEF MediaControl
  <2> HIDE DEF p, s
  <2>4. x \in Media /\ x.owner = m.owner /\ x.item = m.item /\ x.at = m.at
    BY <2>1, <2>2 DEF Media
  <2>5. x # None BY <2>4, NoneAssumption
  <2> HIDE DEF x
  <2>6. /\ put \in Sound(k) /\ SameGraphics(c, put) /\ put.st.media = x
        /\ put.deck = c.deck /\ put.st.slides = c.st.slides
    BY <2>4, StPut, Parts, PutMedia
  <2> HIDE DEF put
  <2>7. /\ SameGraphics(put, d) /\ SameMedia(put, d) /\ Told(d)
        /\ d.st = put.st
    BY <2>3, <2>6, Parts, EmitDoes
  <2> HIDE DEF d
  <2>8. SameGraphics(c, d) /\ d.deck = c.deck /\ d.st.slides = c.st.slides /\ d.st.media = x
    BY <2>6, <2>7, SameGraphicsTrans DEF SameMedia
  <2>9. (Framed(c) => Framed(d)) /\ (MediaGood(c) => MediaGood(d))
    BY <1>2, <2>4, <2>5, <2>8, StillGood
  <2> QED BY <2>7, <2>8, <2>9 DEF Tells, d
<1> QED BY <1>1, <1>2

----------------------------------------------------------------------------
(***************************************************************************)
(* mediaDeckSession.ts.                                                    *)
(***************************************************************************)
\* A session edited in place.
LEMMA DeckEdit ==
  ASSUME NEW k, NEW c \in Sound(k), NEW x \in LoopLive
  PROVE  LET d == [c EXCEPT !.deck = x]
         IN  /\ d \in Sound(k) /\ SameGraphics(c, d) /\ d.deck = x
             /\ d.st = c.st /\ d.sent = c.sent
             /\ DeckShown(c) => DeckShown(d)
             /\ NoStray(c) => NoStray(d)
             /\ /\ Framed(c) /\ c.deck # None
                /\ x.row = c.deck.row /\ x.at = c.deck.at
                /\ x.onAir = c.deck.onAir
                => Framed(d)
             /\ /\ MediaGood(c) /\ c.deck # None
                /\ x.row = c.deck.row /\ x.at = c.deck.at
                /\ x.onAir = c.deck.onAir /\ x.idx = c.deck.idx
                /\ x.atEnd = c.deck.atEnd /\ x.armed = c.deck.armed
                => MediaGood(d)
<1> DEFINE d == [c EXCEPT !.deck = x]
<1>1. d \in Sound(k) BY Put
<1>2. SameGraphics(c, d) /\ d.deck = x /\ d.st = c.st /\ d.sent = c.sent
  BY Parts, PutDeck
<1> HIDE DEF d
<1>3. (DeckShown(c) => DeckShown(d)) /\ (NoStray(c) => NoStray(d))
  BY <1>2 DEF SameGraphics, DeckShown, NoStray
<1>4. /\ LoopOwns(c) /\ c.deck # None
      /\ x.row = c.deck.row /\ x.at = c.deck.at /\ x.onAir = c.deck.onAir
      => LoopOwns(d)
  BY <1>2 DEF LoopOwns, LoopOwner
<1>5. /\ LoopShown(c) /\ c.deck # None
      /\ x.row = c.deck.row /\ x.idx = c.deck.idx
      /\ x.atEnd = c.deck.atEnd /\ x.armed = c.deck.armed
      => LoopShown(d)
  BY <1>2, NoneAssumption DEF SameGraphics, LoopShown, LoopSummary, LoopLive
<1>6. /\ LoopRests(c) /\ c.deck # None
      /\ x.atEnd = c.deck.atEnd /\ x.armed = c.deck.armed
      => LoopRests(d)
  BY <1>2 DEF LoopRests
<1> QED BY <1>1, <1>2, <1>3, <1>4, <1>5, <1>6 DEF Framed, MediaGood, d

\* arm(): the hold timer runs only short of the end.
LEMMA ArmLoopDoes ==
  ASSUME NEW k, NEW c \in Sound(k), c.deck \in LoopLive
  PROVE  LET d == ArmLoop(c)
         IN  /\ d \in Sound(k) /\ SameGraphics(c, d) /\ d.deck \in LoopLive
             /\ d.st = c.st /\ d.sent = c.sent
             /\ d.deck.row = c.deck.row /\ d.deck.onAir = c.deck.onAir
             /\ d.deck.at = c.deck.at
             /\ LoopRests(d)
             /\ DeckShown(c) => DeckShown(d)
             /\ Framed(c) => Framed(d)
<1> DEFINE b == /\ c.name # Preview
                /\ ~c.deck.atEnd /\ ~c.deck.starved
                /\ HoldsFor(c.deck.slides[c.deck.idx])
           x == [c.deck EXCEPT !.armed = b]
           d == ArmLoop(c)
<1>1. b \in BOOLEAN /\ (b => ~c.deck.atEnd) OBVIOUS
<1>d. d = [c EXCEPT !.deck = x] BY DEF ArmLoop
<1> HIDE DEF b
<1>2. x \in LoopLive BY <1>1, LoopPut
<1>3. /\ x.row = c.deck.row /\ x.at = c.deck.at /\ x.onAir = c.deck.onAir
      /\ x.atEnd = c.deck.atEnd /\ x.armed = b
  BY LoopParts DEF LoopSession
<1> HIDE DEF x, d
<1>4. c.deck # None BY LoopParts, NoneAssumption
<1>5. /\ d \in Sound(k) /\ SameGraphics(c, d) /\ d.deck = x
      /\ d.st = c.st /\ d.sent = c.sent
      /\ DeckShown(c) => DeckShown(d)
      /\ Framed(c) => Framed(d)
  BY <1>d, <1>2, <1>3, <1>4, DeckEdit
<1>6. LoopRests(d) BY <1>1, <1>3, <1>5 DEF LoopRests
<1> QED BY <1>2, <1>3, <1>5, <1>6 DEF d

\* hold() arms and publishes the session as it is.
LEMMA HoldLoopDoes ==
  ASSUME NEW k, NEW c \in Sound(k), c.deck \in LoopLive, Framed(c)
  PROVE  MediaStep(c, HoldLoop(c))
<1> DEFINE a == ArmLoop(c)
           d == HoldLoop(c)
<1>1. /\ a \in Sound(k) /\ SameGraphics(c, a) /\ a.deck \in LoopLive
      /\ a.st = c.st /\ a.sent = c.sent /\ LoopRests(a) /\ Framed(a)
  BY ArmLoopDoes
<1>d. d = PublishLoopNow(a, LoopSummary(a.deck)) BY DEF HoldLoop
<1> HIDE DEF a, d
<1>2. /\ SameGraphics(a, d) /\ SameMedia(a, d) /\ Tells(a, d)
      /\ d.st.slides = IF a.slides = None THEN LoopSummary(a.deck) ELSE a.st.slides
  BY <1>1, <1>d, PublishLoopDoes
<1>3. a.deck # None BY <1>1, LoopParts, NoneAssumption
<1>4. LoopShown(d) /\ LoopRests(d)
  BY <1>1, <1>2, <1>3 DEF SameGraphics, SameMedia, LoopShown, LoopRests
<1>5. Framed(d)
  BY <1>1, <1>2 DEF SameGraphics, SameMedia, Framed, DeckShown, LoopOwns, NoStray
<1>6. SameGraphics(c, d) BY <1>1, <1>2, SameGraphicsTrans
<1>7. Tells(c, d) BY <1>1, <1>2 DEF Tells, Told
<1> QED BY <1>4, <1>5, <1>6, <1>7 DEF MediaStep, MediaGood, d

\* show(): the current file goes on air, the take is the session's own, and
\* everyone is told.
LEMMA ShowSlideDoes ==
  ASSUME NEW k, NEW c \in Sound(k), c.deck \in LoopLive,
         NEW inShow \in BOOLEAN, NEW t \in Nat, DeckShown(c)
  PROVE  LET d == ShowSlide(c, inShow, t)
         IN  SameGraphics(c, d) /\ Told(d) /\ MediaGood(d)
<1> DEFINE file == c.deck.slides[c.deck.idx]
           x == [c.deck EXCEPT !.onAir = file, !.onAirFailed = FALSE,
                               !.playedOut = FALSE]
           put == [c EXCEPT !.deck = x]
           armed == ArmLoop(put)
           told == PublishLoop(armed, LoopSummary(armed.deck))
           m == [row |-> c.deck.row, item |-> file,
                 kind |-> FileInfo[file].kind, loop |-> FALSE,
                 endAction |-> "hold", owner |-> LoopOwner(c.deck)]
           shown == MediaTake(told, m, inShow, t)
           y == [shown.deck EXCEPT !.at = shown.st.media.at]
           d == ShowSlide(c, inShow, t)
<1>1. file \in Files BY LoopParts
<1>2. m \in MediaPick
  BY <1>1, LoopParts, LoopsAssumption DEF MediaPick, LoopOwner
<1>d. d = [shown EXCEPT !.deck = y] BY DEF ShowSlide
<1>3. x \in LoopLive /\ x.row = c.deck.row /\ x.onAir = file
  <2>1. x \in LoopLive BY <1>1, LoopPut
  <2>2. c.deck \in LoopSession BY LoopParts
  <2> QED BY <2>1, <2>2 DEF LoopSession
<1>4. /\ put \in Sound(k) /\ put.deck = x /\ SameGraphics(c, put)
      /\ DeckShown(put)
  BY <1>3, DeckEdit
<1>m. m.owner = LoopOwner(c.deck) /\ m.item = file OBVIOUS
<1> HIDE DEF put, x, file, m, d
<1>5. /\ armed \in Sound(k) /\ armed.deck \in LoopLive
      /\ SameGraphics(put, armed) /\ DeckShown(armed) /\ LoopRests(armed)
      /\ armed.deck.row = c.deck.row /\ armed.deck.onAir = file
  BY <1>3, <1>4, ArmLoopDoes
<1> HIDE DEF armed
<1>6. armed.deck # None BY <1>5, LoopParts, NoneAssumption
<1>7. /\ told \in Sound(k) /\ SameGraphics(armed, told) /\ SameMedia(armed, told)
      /\ told.st.slides = IF armed.slides = None THEN LoopSummary(armed.deck)
                                                ELSE armed.st.slides
  BY <1>5, LoopParts, SummaryTypes, PublishLoopSound, PublishLoopDoes
<1> HIDE DEF told
<1>8. told.deck # None /\ LoopShown(told) /\ DeckShown(told) /\ LoopRests(told)
  BY <1>5, <1>6, <1>7
  DEF SameGraphics, SameMedia, LoopShown, DeckShown, LoopRests
<1>9. m.owner = LoopOwner(told.deck)
  BY <1>5, <1>7, <1>m DEF SameMedia, LoopOwner
<1>10. /\ shown \in Sound(k) /\ SameGraphics(told, shown) /\ Told(shown)
       /\ shown.st.media # None /\ shown.st.media \in Media
       /\ shown.st.media.owner = m.owner /\ shown.st.media.item = file
       /\ shown.deck = told.deck
       /\ DeckShown(shown) /\ LoopShown(shown) /\ LoopRests(shown)
  <2>1. shown \in Sound(k) BY <1>2, <1>7, MediaTakeSound
  <2>2. /\ SameGraphics(told, shown) /\ Told(shown)
        /\ shown.st.media # None /\ shown.st.media \in Media
        /\ shown.st.media.owner = m.owner /\ shown.st.media.item = m.item
        /\ shown.deck = IF told.deck # None /\ m.owner # LoopOwner(told.deck)
                          THEN None ELSE told.deck
        /\ DeckShown(told) => DeckShown(shown)
        /\ DeckShown(told) /\ LoopShown(told) => LoopShown(shown)
        /\ LoopRests(told) => LoopRests(shown)
    BY <1>2, <1>7, MediaTakeDoes
  <2> QED BY <2>1, <2>2, <1>8, <1>9, <1>m
<1> HIDE DEF shown
<1>11. /\ shown.deck \in LoopLive /\ shown.deck.row = c.deck.row
       /\ shown.deck.onAir = file
  BY <1>5, <1>7, <1>10 DEF SameMedia
<1>12. y \in LoopLive BY <1>10, <1>11, LoopPut DEF Media
<1>13. /\ y.row = c.deck.row /\ y.onAir = file /\ y.at = shown.st.media.at
       /\ y.idx = shown.deck.idx /\ y.atEnd = shown.deck.atEnd
       /\ y.armed = shown.deck.armed
  BY <1>11, LoopParts DEF LoopSession
<1> HIDE DEF y
<1>14. /\ SameGraphics(shown, d) /\ d.deck = y /\ d.st = shown.st
       /\ d.sent = shown.sent /\ DeckShown(d)
  BY <1>d, <1>10, <1>12, DeckEdit
<1>15. LoopOwns(d) BY <1>10, <1>13, <1>14, <1>m DEF LoopOwns, LoopOwner
<1>16. y # None /\ shown.deck # None BY <1>11, <1>12, LoopParts, NoneAssumption
<1>17. LoopShown(d)
  BY <1>10, <1>11, <1>13, <1>14, <1>16 DEF SameGraphics, LoopShown, LoopSummary
<1>18. LoopRests(d) BY <1>10, <1>13, <1>14, <1>16 DEF LoopRests
<1>19. NoStray(d)
  <2>1. LoopOwner(c.deck) \notin SlideMedia BY LoopParts, OwnersDiffer
  <2> QED BY <2>1, <1>10, <1>14, <1>m DEF NoStray
<1>20. SameGraphics(c, d) BY <1>4, <1>5, <1>7, <1>10, <1>14, SameGraphicsTrans
<1>21. Told(d) BY <1>10, <1>14 DEF Told
<1> QED BY <1>14, <1>15, <1>17, <1>18, <1>19, <1>20, <1>21 DEF MediaGood, Framed, d

LEMMA ShowSlideStep ==
  ASSUME NEW k, NEW c \in Sound(k), NEW d \in Sound(k), d.deck \in LoopLive,
         SameGraphics(c, d), DeckShown(d), NEW inShow \in BOOLEAN, NEW t \in Nat
  PROVE  MediaStep(c, ShowSlide(d, inShow, t))
<1>1. LET e == ShowSlide(d, inShow, t)
      IN  SameGraphics(d, e) /\ Told(e) /\ MediaGood(e)
  BY ShowSlideDoes
<1> QED BY <1>1, SameGraphicsTrans DEF MediaStep, Tells

\* Moving to slide i.
LEMMA ShowIndexDoes ==
  ASSUME NEW k, NEW c \in Sound(k), c.deck \in LoopLive, DeckShown(c),
         NEW i \in DOMAIN c.deck.slides, NEW t \in Nat
  PROVE  MediaStep(c, ShowIndex(c, i, t))
<1> DEFINE x == [c.deck EXCEPT !.idx = i, !.atEnd = FALSE]
           put == [c EXCEPT !.deck = x]
<1>1. x \in LoopLive BY LoopPut
<1> HIDE DEF x
<1>2. /\ put \in Sound(k) /\ put.deck = x /\ SameGraphics(c, put)
      /\ DeckShown(put)
  BY <1>1, DeckEdit
<1>3. ShowIndex(c, i, t) = ShowSlide(put, FALSE, t) BY DEF ShowIndex, x
<1> HIDE DEF put
<1> QED BY <1>1, <1>2, <1>3, ShowSlideStep

\* The wrap onto the file that is up plays it again without a new take.
LEMMA ReplayDoes ==
  ASSUME NEW k, NEW c \in Sound(k), c.deck \in LoopLive, Framed(c)
  PROVE  MediaStep(c, Replay(c))
<1> DEFINE again == MediaControl(c, c.deck.at, "restart")
<1>1. /\ again \in Sound(k) /\ again.deck = c.deck
      /\ SameGraphics(c, again) /\ Tells(c, again) /\ Framed(again)
  BY MediaControlSound, MediaControlDoes
<1>r. Replay(c) = HoldLoop(IF IsVideo(c.deck.slides[c.deck.idx]) THEN again ELSE c)
  BY DEF Replay
<1> HIDE DEF again
<1>2. MediaStep(again, HoldLoop(again)) /\ MediaStep(c, HoldLoop(c))
  BY <1>1, HoldLoopDoes
<1>3. SameGraphics(c, HoldLoop(again)) BY <1>1, <1>2, SameGraphicsTrans DEF MediaStep
<1> QED BY <1>r, <1>1, <1>2, <1>3 DEF MediaStep, Tells

\* restartFromTop(): starves, plays the first file again or shows it.
LEMMA RestartFromTopDoes ==
  ASSUME NEW k, NEW c \in Sound(k), c.deck \in LoopLive, Framed(c),
         NEW present \in SUBSET Files, NEW t \in Nat
  PROVE  MediaStep(c, RestartFromTop(c, present, t))
<1> DEFINE r == Resolve(c.deck.row, c.deck.order, present)
           play == Playable(c.deck, r.slides, present)
           x == [c.deck EXCEPT !.atEnd = FALSE, !.starved = FALSE,
                   !.order = r.order, !.slides = r.slides, !.idx = Min(play)]
           top == [c EXCEPT !.deck = x]
           held == [c.deck EXCEPT !.atEnd = FALSE, !.starved = TRUE]
           wait == [c EXCEPT !.deck = held]
<1>1. r.order \in Orders /\ r.slides \in Orders BY LoopParts, ResolveType
<1>2. play \subseteq DOMAIN r.slides /\ play \subseteq Nat
  BY <1>1, PlayableType
<1>3. c.deck # None /\ c.deck \in LoopSession BY LoopParts, NoneAssumption
<1>r. RestartFromTop(c, present, t) =
        IF play = {} THEN HoldLoop(wait)
        ELSE IF IsOnAir(c, r.slides[Min(play)])
               THEN Replay(top) ELSE ShowSlide(top, FALSE, t)
  <2>1. top = [c EXCEPT !.deck.atEnd = FALSE, !.deck.starved = FALSE,
                        !.deck.order = r.order, !.deck.slides = r.slides,
                        !.deck.idx = Min(play)]
    OBVIOUS
  <2>2. wait = [c EXCEPT !.deck.atEnd = FALSE, !.deck.starved = TRUE] OBVIOUS
  <2> HIDE DEF top, wait
  <2> QED BY <2>1, <2>2 DEF RestartFromTop, r, play
<1> HIDE DEF r, play
<1>4. MediaStep(c, HoldLoop(wait))
  <2>1. held \in LoopLive BY LoopPut
  <2>2. held.row = c.deck.row /\ held.at = c.deck.at /\ held.onAir = c.deck.onAir
    BY <1>3 DEF LoopSession
  <2> HIDE DEF held
  <2>3. /\ wait \in Sound(k) /\ wait.deck = held /\ SameGraphics(c, wait)
        /\ Framed(wait) /\ wait.st = c.st /\ wait.sent = c.sent
    BY <1>3, <2>1, <2>2, DeckEdit
  <2> HIDE DEF wait
  <2>4. MediaStep(wait, HoldLoop(wait)) BY <2>1, <2>3, HoldLoopDoes
  <2>5. SameGraphics(c, HoldLoop(wait))
    BY <2>3, <2>4, SameGraphicsTrans DEF MediaStep
  <2> QED BY <2>3, <2>4, <2>5 DEF MediaStep, Tells, Told
<1>5. ASSUME play # {}
      PROVE  MediaStep(c, Replay(top)) /\ MediaStep(c, ShowSlide(top, FALSE, t))
  <2>1. Min(play) \in DOMAIN r.slides BY <1>2, <1>5, MinOfNat
  <2>2. [c.deck EXCEPT !.atEnd = FALSE, !.starved = FALSE] \in LoopLive
    BY LoopPut
  <2>3. x \in LoopLive BY <1>1, <2>1, <2>2, LoopPut
  <2>4. x.row = c.deck.row /\ x.at = c.deck.at /\ x.onAir = c.deck.onAir
    BY <1>3 DEF LoopSession
  <2> HIDE DEF x
  <2>5. /\ top \in Sound(k) /\ top.deck = x /\ SameGraphics(c, top)
        /\ Framed(top) /\ top.st = c.st /\ top.sent = c.sent
    BY <1>3, <2>3, <2>4, DeckEdit
  <2> HIDE DEF top
  <2>6. MediaStep(top, Replay(top)) BY <2>3, <2>5, ReplayDoes
  <2>7. SameGraphics(c, Replay(top))
    BY <2>5, <2>6, SameGraphicsTrans DEF MediaStep
  <2>8. MediaStep(c, Replay(top))
    BY <2>5, <2>6, <2>7 DEF MediaStep, Tells, Told
  <2>9. MediaStep(c, ShowSlide(top, FALSE, t))
    BY <2>3, <2>5, ShowSlideStep DEF Framed
  <2> QED BY <2>8, <2>9
<1> QED BY <1>r, <1>4, <1>5

\* mediaDeckSession.end().
LEMMA LoopEndDoes ==
  ASSUME NEW k, NEW c \in Sound(k), Framed(c)
  PROVE  MediaStep(c, LoopEnd(c))
<1> DEFINE gone == [c EXCEPT !.deck = None]
           p == PublishLoop(gone, None)
           n == PublishLoopNow(gone, None)
<1>1. /\ gone \in Sound(k) /\ SameGraphics(c, gone) /\ gone.deck = None
      /\ gone.st = c.st /\ gone.sent = c.sent
  BY Put, Parts, PutDeck
<1>e. LoopEnd(c) = MediaClear(IF c.st.media = None THEN n ELSE p)
  BY DEF LoopEnd
<1> HIDE DEF gone
<1>2. /\ p \in Sound(k) /\ n \in Sound(k)
      /\ SameGraphics(gone, p) /\ SameMedia(gone, p)
      /\ p.st.slides = IF gone.slides = None THEN None ELSE gone.st.slides
      /\ SameGraphics(gone, n) /\ SameMedia(gone, n) /\ Tells(gone, n)
      /\ n.st.slides = IF gone.slides = None THEN None ELSE gone.st.slides
  BY <1>1, PublishLoopSound, PublishLoopDoes
<1> HIDE DEF p, n
<1>3. MediaGood(p) /\ MediaGood(n)
  BY <1>1, <1>2
  DEF SameGraphics, SameMedia, MediaGood, Framed, LoopShown, DeckShown,
      LoopOwns, LoopRests, NoStray
<1>4. /\ MediaStep(n, MediaClear(n)) /\ MediaGood(MediaClear(p))
      /\ SameGraphics(p, MediaClear(p))
      /\ p.st.media # None => Told(MediaClear(p))
  BY <1>2, <1>3, MediaClearDoes DEF MediaStep
<1>5. CASE c.st.media = None
  <2>1. SameGraphics(c, MediaClear(n))
    BY <1>1, <1>2, <1>4, SameGraphicsTrans DEF MediaStep
  <2>2. Tells(c, MediaClear(n)) BY <1>1, <1>2, <1>4 DEF MediaStep, Tells, Told
  <2> QED BY <1>e, <1>4, <1>5, <2>1, <2>2 DEF MediaStep
<1>6. CASE c.st.media # None
  <2>1. SameGraphics(c, MediaClear(p))
    BY <1>1, <1>2, <1>4, SameGraphicsTrans
  <2>2. Told(MediaClear(p)) BY <1>1, <1>2, <1>4, <1>6 DEF SameMedia
  <2> QED BY <1>e, <1>4, <1>6, <2>1, <2>2 DEF MediaStep, Tells
<1> QED BY <1>5, <1>6

\* forward(): when it moves nothing, the session must have been shown as it is.
LEMMA ForwardDoes ==
  ASSUME NEW k, NEW c \in Sound(k), c.deck \in LoopLive, Framed(c),
         NEW manual \in BOOLEAN, NEW present \in SUBSET Files, NEW t \in Nat,
         ~manual /\ c.deck.atEnd => MediaGood(c)
  PROVE  MediaStep(c, Forward(c, manual, present, t))
<1> DEFINE later == {i \in Playable(c.deck, c.deck.slides, present) :
                       i > c.deck.idx}
           held == [c.deck EXCEPT !.atEnd = TRUE]
           wait == [c EXCEPT !.deck = held]
<1>1. later \in SUBSET Nat /\ later \subseteq DOMAIN c.deck.slides
  BY PlayableType, LoopParts
<1>2. later # {} => Min(later) \in DOMAIN c.deck.slides BY <1>1, MinOfNat
<1>3. later # {} => MediaStep(c, ShowIndex(c, Min(later), t))
  BY <1>2, ShowIndexDoes DEF Framed
<1>4. MediaStep(c, HoldLoop(wait))
  <2>1. held \in LoopLive BY LoopPut
  <2>2. /\ held.row = c.deck.row /\ held.at = c.deck.at
        /\ held.onAir = c.deck.onAir /\ c.deck # None
    BY LoopParts, NoneAssumption DEF LoopSession
  <2> HIDE DEF held
  <2>3. /\ wait \in Sound(k) /\ wait.deck = held /\ SameGraphics(c, wait)
        /\ Framed(wait) /\ wait.st = c.st /\ wait.sent = c.sent
    BY <2>1, <2>2, DeckEdit
  <2> HIDE DEF wait
  <2>4. MediaStep(wait, HoldLoop(wait)) BY <2>1, <2>3, HoldLoopDoes
  <2>5. SameGraphics(c, HoldLoop(wait))
    BY <2>3, <2>4, SameGraphicsTrans DEF MediaStep
  <2> QED BY <2>3, <2>4, <2>5 DEF MediaStep, Tells, Told
<1>5. MediaStep(c, RestartFromTop(c, present, t)) BY RestartFromTopDoes
<1>6. MediaStep(c, LoopEnd(c)) BY LoopEndDoes
<1>7. MediaGood(c) => MediaStep(c, c) BY DEF MediaStep, SameGraphics, Tells
<1>8. Forward(c, manual, present, t) =
        CASE later # {} -> ShowIndex(c, Min(later), t)
          [] later = {} /\ LoopInfo[c.deck.row].loop -> RestartFromTop(c, present, t)
          [] later = {} /\ ~LoopInfo[c.deck.row].loop /\ ~c.deck.atEnd ->
               HoldLoop(wait)
          [] OTHER -> IF manual THEN LoopEnd(c) ELSE c
  BY DEF Forward
<1> HIDE DEF later, wait
<1>9. CASE later # {} BY <1>3, <1>8, <1>9
<1>10. CASE later = {} /\ LoopInfo[c.deck.row].loop BY <1>5, <1>8, <1>10
<1>11. CASE later = {} /\ ~LoopInfo[c.deck.row].loop /\ ~c.deck.atEnd
  BY <1>4, <1>8, <1>11
<1>12. CASE later = {} /\ ~LoopInfo[c.deck.row].loop /\ c.deck.atEnd
  <2>1. Forward(c, manual, present, t) = IF manual THEN LoopEnd(c) ELSE c
    BY <1>8, <1>12
  <2> QED BY <1>6, <1>7, <1>12, <2>1
<1> QED BY <1>9, <1>10, <1>11, <1>12

\* back(): an earlier slide, the last one again or nothing.
LEMMA BackDoes ==
  ASSUME NEW k, NEW c \in Sound(k), c.deck \in LoopLive, MediaGood(c),
         NEW present \in SUBSET Files, NEW t \in Nat
  PROVE  MediaStep(c, Back(c, present, t))
<1> DEFINE earlier == {i \in Playable(c.deck, c.deck.slides, present) :
                         i < c.deck.idx}
           x == [c.deck EXCEPT !.starved = FALSE]
           put == [c EXCEPT !.deck = x]
<1>1. /\ earlier \subseteq DOMAIN c.deck.slides
      /\ earlier \in SUBSET (0..Len(c.deck.slides))
      /\ Len(c.deck.slides) \in Nat
  BY PlayableType, LoopParts
<1> HIDE DEF earlier
<1>2. earlier # {} => Max(earlier) \in DOMAIN c.deck.slides BY <1>1, MaxOfNat
<1>3. ASSUME earlier # {}
      PROVE  MediaStep(c, ShowIndex(put, Max(earlier), t))
  <2>1. x \in LoopLive /\ x.slides = c.deck.slides
    BY LoopPut, LoopParts DEF LoopSession
  <2> HIDE DEF x
  <2>2. /\ put \in Sound(k) /\ put.deck = x /\ SameGraphics(c, put)
        /\ DeckShown(put) /\ put.st = c.st /\ put.sent = c.sent
    BY <2>1, DeckEdit DEF MediaGood, Framed
  <2> HIDE DEF put
  <2>3. MediaStep(put, ShowIndex(put, Max(earlier), t))
    BY <1>2, <1>3, <2>1, <2>2, ShowIndexDoes
  <2>4. SameGraphics(c, ShowIndex(put, Max(earlier), t))
    BY <2>2, <2>3, SameGraphicsTrans DEF MediaStep
  <2> QED BY <2>2, <2>3, <2>4 DEF MediaStep, Tells, Told
<1>4. MediaStep(c, ShowIndex(c, c.deck.idx, t))
  BY LoopParts, ShowIndexDoes DEF MediaGood, Framed
<1>5. MediaStep(c, c) BY DEF MediaStep, SameGraphics, Tells
<1> QED BY <1>3, <1>4, <1>5 DEF Back, earlier

\* Next and Previous.
LEMMA LoopStepDoes ==
  ASSUME NEW k, NEW c \in Sound(k), MediaGood(c), NEW d \in {-1, 1},
         NEW present \in SUBSET Files, NEW t \in Nat
  PROVE  MediaStep(c, LoopStep(c, d, present, t))
<1>1. MediaStep(c, c) BY DEF MediaStep, SameGraphics, Tells
<1>2. c.deck # None => c.deck \in LoopLive BY Parts
<1>3. c.deck # None => MediaStep(c, Forward(c, TRUE, present, t))
  BY <1>2, ForwardDoes DEF MediaGood
<1>4. c.deck # None => MediaStep(c, Back(c, present, t)) BY <1>2, BackDoes
<1> QED BY <1>1, <1>3, <1>4 DEF LoopStep

\* start() of a media deck replaces whatever deck was there.
LEMMA LoopStartDoes ==
  ASSUME NEW k, NEW c \in Sound(k), MediaGood(c), NEW row \in LoopRows,
         NEW i \in Nat, NEW present \in SUBSET Files, NEW t \in Nat
  PROVE  MediaStep(c, LoopStart(c, row, i, present, t))
<1> DEFINE r == Resolve(row, LoopInfo[row].order, present)
           x == [row |-> row, inShow |-> LoopInfo[row].inShow,
                 order |-> r.order, slides |-> r.slides, idx |-> i,
                 atEnd |-> FALSE, starved |-> FALSE, failed |-> {}, at |-> 0,
                 onAir |-> None, onAirFailed |-> FALSE, playedOut |-> FALSE,
                 armed |-> FALSE]
           free == DropLoop(c)
           up == [free EXCEPT !.deck = x]
<1>1. CASE i \notin DOMAIN r.slides
  BY <1>1 DEF LoopStart, MediaStep, SameGraphics, Tells
<1>2. CASE i \in DOMAIN r.slides
  <2>1. r.order \in Orders /\ r.slides \in Orders
    BY LoopsAssumption, ResolveType
  <2>s. LoopStart(c, row, i, present, t) = ShowSlide(up, LoopInfo[row].inShow, t)
    BY <1>2 DEF LoopStart
  <2> HIDE DEF r
  <2>2. x \in LoopLive
    BY <1>2, <2>1, LoopsAssumption DEF LoopLive, LoopSession
  <2>3. LoopInfo[row].inShow \in BOOLEAN BY LoopsAssumption
  <2> HIDE DEF x
  <2>4. free \in Sound(k) /\ SameGraphics(c, free) /\ DeckShown(free)
    BY DropLoopSound, DropLoopDoes DEF MediaGood, Framed
  <2> HIDE DEF free
  <2>5. /\ up \in Sound(k) /\ up.deck = x /\ SameGraphics(free, up)
        /\ DeckShown(up)
    BY <2>2, <2>4, DeckEdit
  <2> HIDE DEF up
  <2>6. SameGraphics(c, up) BY <2>4, <2>5, SameGraphicsTrans
  <2> QED BY <2>2, <2>3, <2>5, <2>6, <2>s, ShowSlideStep
<1> QED BY <1>1, <1>2

\* goTo() retries a file that failed; one that cannot play yet changes nothing
\* clients see.
LEMMA LoopGoToDoes ==
  ASSUME NEW k, NEW c \in Sound(k), MediaGood(c), NEW i \in Nat,
         NEW present \in SUBSET Files, NEW t \in Nat
  PROVE  MediaStep(c, LoopGoTo(c, i, present, t))
<1> DEFINE x == [c.deck EXCEPT !.failed = @ \ {c.deck.slides[i]}]
           y == [x EXCEPT !.starved = FALSE]
           retried == [c EXCEPT !.deck = x]
           again == [retried EXCEPT !.deck = y]
<1>1. CASE c.deck = None \/ i \notin DOMAIN c.deck.slides
  BY <1>1 DEF LoopGoTo, MediaStep, SameGraphics, Tells
<1>2. CASE c.deck # None /\ i \in DOMAIN c.deck.slides
  <2>1. c.deck \in LoopLive BY <1>2, Parts
  <2>2. x \in LoopLive BY <2>1, LoopPut, LoopParts
  <2>3. /\ x.slides = c.deck.slides /\ x.row = c.deck.row
        /\ x.at = c.deck.at /\ x.onAir = c.deck.onAir /\ x.idx = c.deck.idx
        /\ x.atEnd = c.deck.atEnd /\ x.armed = c.deck.armed
    BY <2>1, LoopParts DEF LoopSession
  <2> HIDE DEF x
  <2>4. y \in LoopLive /\ y.slides = c.deck.slides
    BY <2>2, <2>3, LoopPut, LoopParts DEF LoopSession
  <2>5. /\ retried \in Sound(k) /\ retried.deck = x /\ SameGraphics(c, retried)
        /\ MediaGood(retried) /\ retried.st = c.st /\ retried.sent = c.sent
    BY <1>2, <2>2, <2>3, DeckEdit
  <2>6. again = [retried EXCEPT !.deck.starved = FALSE] BY <2>5
  <2> HIDE DEF y, retried
  <2>7. /\ again \in Sound(k) /\ again.deck = y /\ SameGraphics(retried, again)
        /\ DeckShown(again) /\ again.st = c.st /\ again.sent = c.sent
    BY <2>4, <2>5, DeckEdit DEF MediaGood, Framed
  <2> HIDE DEF again
  <2>8. MediaStep(again, ShowIndex(again, i, t))
    BY <1>2, <2>4, <2>7, ShowIndexDoes
  <2>9. SameGraphics(c, ShowIndex(again, i, t))
    BY <2>5, <2>7, <2>8, SameGraphicsTrans DEF MediaStep
  <2>10. MediaStep(c, ShowIndex(again, i, t))
    BY <2>7, <2>8, <2>9 DEF MediaStep, Tells, Told
  <2>11. MediaStep(c, retried) BY <2>5 DEF MediaStep, Tells, Told
  <2> QED BY <1>2, <2>6, <2>10, <2>11 DEF LoopGoTo, retried, x
<1> QED BY <1>1, <1>2

\* The hold timer runs only short of the end, so it always moves the deck.
LEMMA LoopTimerDoes ==
  ASSUME NEW k, NEW c \in Sound(k), MediaGood(c), c.deck # None, c.deck.armed,
         NEW present \in SUBSET Files, NEW t \in Nat
  PROVE  MediaStep(c, LoopTimer(c, present, t))
<1> DEFINE x == [c.deck EXCEPT !.armed = FALSE]
           put == [c EXCEPT !.deck = x]
<1>1. x \in LoopLive BY Parts, LoopPut, ZenonT(40)
<1>2. /\ x.row = c.deck.row /\ x.at = c.deck.at /\ x.onAir = c.deck.onAir
      /\ x.atEnd = c.deck.atEnd
  BY Parts, LoopParts DEF LoopSession
<1>3. ~x.atEnd BY <1>2 DEF MediaGood, LoopRests
<1>4. LoopTimer(c, present, t) = Forward(put, FALSE, present, t) BY DEF LoopTimer
<1> HIDE DEF x
<1>5. /\ put \in Sound(k) /\ put.deck = x /\ SameGraphics(c, put)
      /\ Framed(put) /\ put.st = c.st /\ put.sent = c.sent
  BY <1>1, <1>2, DeckEdit DEF MediaGood
<1> HIDE DEF put
<1>6. MediaStep(put, Forward(put, FALSE, present, t))
  BY <1>1, <1>3, <1>5, ForwardDoes
<1>7. SameGraphics(c, Forward(put, FALSE, present, t))
  BY <1>5, <1>6, SameGraphicsTrans DEF MediaStep
<1> QED BY <1>4, <1>5, <1>6, <1>7 DEF MediaStep, Tells, Told

\* onFolderChange().
LEMMA LoopFolderChangeDoes ==
  ASSUME NEW k, NEW c \in Sound(k), MediaGood(c),
         NEW present \in SUBSET Files, NEW t \in Nat
  PROVE  MediaStep(c, LoopFolderChange(c, present, t))
<1> DEFINE x == [c.deck EXCEPT !.failed = {}]
           put == [c EXCEPT !.deck = x]
<1>1. MediaStep(c, c) BY DEF MediaStep, SameGraphics, Tells
<1>2. ASSUME c.deck # None PROVE MediaStep(c, RestartFromTop(put, present, t))
  <2>1. x \in LoopLive BY <1>2, Parts, LoopPut
  <2>2. x.row = c.deck.row /\ x.at = c.deck.at /\ x.onAir = c.deck.onAir
    BY <1>2, Parts, LoopParts DEF LoopSession
  <2> HIDE DEF x
  <2>3. /\ put \in Sound(k) /\ put.deck = x /\ SameGraphics(c, put)
        /\ Framed(put) /\ put.st = c.st /\ put.sent = c.sent
    BY <1>2, <2>1, <2>2, DeckEdit DEF MediaGood
  <2> HIDE DEF put
  <2>4. MediaStep(put, RestartFromTop(put, present, t))
    BY <2>1, <2>3, RestartFromTopDoes
  <2>5. SameGraphics(c, RestartFromTop(put, present, t))
    BY <2>3, <2>4, SameGraphicsTrans DEF MediaStep
  <2> QED BY <2>3, <2>4, <2>5 DEF MediaStep, Tells, Told
<1> QED BY <1>1, <1>2 DEF LoopFolderChange

\* A renderer's reports.
LEMMA LoopReportsDo ==
  ASSUME NEW k, NEW c \in Sound(k), MediaGood(c), NEW at,
         NEW present \in SUBSET Files, NEW t \in Nat
  PROVE  /\ MediaStep(c, LoopMediaEnded(c, at, present, t))
         /\ MediaStep(c, LoopMediaPlaying(c, at))
         /\ MediaStep(c, LoopMediaFailed(c, at, present, t))
<1> DEFINE x == [c.deck EXCEPT !.playedOut = TRUE]
           p == [c.deck EXCEPT !.playedOut = FALSE]
           f == [c.deck EXCEPT !.failed = @ \cup {Failing(c.deck)},
                               !.onAirFailed = TRUE]
           Same(y) == /\ y \in LoopLive
                      /\ y.row = c.deck.row /\ y.at = c.deck.at
                      /\ y.onAir = c.deck.onAir /\ y.idx = c.deck.idx
                      /\ y.atEnd = c.deck.atEnd /\ y.armed = c.deck.armed
<1>c. MediaStep(c, c) BY DEF MediaStep, SameGraphics, Tells
<1>1. CASE c.deck = None
  BY <1>c, <1>1 DEF LoopMediaEnded, LoopMediaPlaying, LoopMediaFailed, IsLoopTake
<1>2. CASE c.deck # None
  <2>1. c.deck \in LoopLive /\ c.deck \in LoopSession BY <1>2, Parts, LoopParts
  <2>2. Failing(c.deck) \in Files BY <2>1, LoopParts DEF Failing
  <2>3. Same(x) /\ Same(p)
    <3>1. x \in LoopLive /\ p \in LoopLive BY <2>1, LoopPut
    <3> QED BY <3>1, <2>1 DEF LoopSession
  <2>4. Same(f)
    <3>1. f \in LoopLive BY <2>1, <2>2, LoopPut, LoopParts, ZenonT(40)
    <3> QED BY <3>1, <2>1 DEF LoopSession
  <2> HIDE DEF x, p, f
  <2>5. ASSUME NEW y, Same(y)
        PROVE  LET d == [c EXCEPT !.deck = y]
               IN  MediaStep(c, d) /\ MediaStep(c, Forward(d, FALSE, present, t))
    <3> DEFINE d == [c EXCEPT !.deck = y]
    <3>1. /\ d \in Sound(k) /\ d.deck = y /\ SameGraphics(c, d)
          /\ MediaGood(d) /\ d.st = c.st /\ d.sent = c.sent
      BY <1>2, <2>5, DeckEdit
    <3> HIDE DEF d
    <3>2. MediaStep(d, Forward(d, FALSE, present, t))
      BY <2>5, <3>1, ForwardDoes DEF MediaGood
    <3>3. SameGraphics(c, Forward(d, FALSE, present, t))
      BY <3>1, <3>2, SameGraphicsTrans DEF MediaStep
    <3>4. MediaStep(c, d) BY <3>1 DEF MediaStep, Tells, Told
    <3>5. MediaStep(c, Forward(d, FALSE, present, t))
      BY <3>1, <3>2, <3>3 DEF MediaStep, Tells, Told
    <3> QED BY <3>4, <3>5 DEF d
  <2> HIDE DEF Same
  <2>6. /\ MediaStep(c, Forward([c EXCEPT !.deck = x], FALSE, present, t))
        /\ MediaStep(c, [c EXCEPT !.deck = p])
        /\ MediaStep(c, Forward([c EXCEPT !.deck = f], FALSE, present, t))
    BY <2>3, <2>4, <2>5
  <2> QED
    BY <1>c, <2>6 DEF LoopMediaEnded, LoopMediaPlaying, LoopMediaFailed, x, p, f
<1> QED BY <1>1, <1>2

\* promote(): the deck leaves preview and starts on program.
LEMMA LoopPromoteDoes ==
  ASSUME NEW j, NEW from \in Sound(j), MediaGood(from),
         NEW k, NEW to \in Sound(k), MediaGood(to),
         NEW present \in SUBSET Files, NEW t \in Nat
  PROVE  /\ MediaStep(from, LoopPromote(from, to, present, t)[1])
         /\ MediaStep(to, LoopPromote(from, to, present, t)[2])
<1> DEFINE x == PromotedLoop(from, present)
           free == DropLoop(to)
           up == [free EXCEPT !.deck = x]
<1>1. CASE from.deck = None \/ x = None
  BY <1>1 DEF LoopPromote, MediaStep, SameGraphics, Tells
<1>2. CASE from.deck # None /\ x # None
  <2>1. x \in LoopLive BY <1>2, PromotedLoopType
  <2>2. LoopPromote(from, to, present, t) = <<LoopEnd(from), ShowSlide(up, x.inShow, t)>>
    BY <1>2 DEF LoopPromote
  <2> HIDE DEF x
  <2>3. free \in Sound(k) /\ SameGraphics(to, free) /\ DeckShown(free)
    BY DropLoopSound, DropLoopDoes DEF MediaGood, Framed
  <2> HIDE DEF free
  <2>4. /\ up \in Sound(k) /\ up.deck = x /\ SameGraphics(free, up)
        /\ DeckShown(up)
    BY <2>1, <2>3, DeckEdit
  <2> HIDE DEF up
  <2>5. SameGraphics(to, up) BY <2>3, <2>4, SameGraphicsTrans
  <2>6. MediaStep(to, ShowSlide(up, x.inShow, t))
    BY <2>1, <2>4, <2>5, LoopParts, ShowSlideStep
  <2>7. MediaStep(from, LoopEnd(from)) BY LoopEndDoes DEF MediaGood
  <2> QED BY <2>2, <2>6, <2>7
<1> QED BY <1>1, <1>2
===============================================================================
