----------------------------- MODULE LiveSafety -----------------------------
(***************************************************************************)
(* What the live control plane promises of every channel, between the      *)
(* sessions' own records, the state published to clients and the screen.   *)
(***************************************************************************)
EXTENDS LiveControl

\* Every client has been sent the state as it is: no handler leaves a change
\* that no emit carried (channels.ts emit, and the deferEmit paths that rely
\* on a later call to publish what they changed).
Told(c) == c.sent = c.st
NothingUnsent == \A k \in Channels : Told(ch[k])

\* The summaries clients see agree with the session maps, whichever of the
\* many paths ended or replaced a session; a graphics-slot deck's summary
\* hides a media-slot deck's, which comes back when it ends.
Mirrored(c) ==
  /\ c.st.song = c.song /\ c.st.songQ = c.songQ
  /\ c.st.scr = c.scr /\ c.st.scrQ = c.scrQ
  /\ c.st.slides = IF c.slides # None THEN DeckSummary(c.slides)
                   ELSE IF c.deck # None THEN LoopSummary(c.deck) ELSE None
SummariesMirrorSessions == \A k \in Channels : Mirrored(ch[k])

\* An unsaved designer draft only ever sits on preview: take() and
\* takePvwToPgm() are the single gate (channels.ts refuseDraft).
NoDraft(c) == c.name # Preview /\ c.st.active # None
                => c.st.active.tpl \notin Drafts
NoDraftOnAir == \A k \in Channels : NoDraft(ch[k])

\* The graphic up is template tpl saying text, but for an operator's edits.
Displays(c, tpl, text) ==
  /\ OnScreen(c) /\ c.st.active.tpl = tpl
  /\ c.st.active.shows \in {text, [text EXCEPT !.edited = TRUE]}

SongIsOnSlide(c) == OnSlide(SongInfo[c.song.row].song, c.song.arr, c.song.cur)

\* A live song that is not blanked is what the screen shows, at its cursor
\* (songSession.ts render, against every other owner of the slot).
SongOnScreen ==
  \A k \in Channels :
    LET c == ch[k]
    IN  c.song # None /\ c.slides = None =>
          (~c.song.blanked /\ SongIsOnSlide(c) =>
            Displays(c, SongInfo[c.song.row].lyric,
                     Says(c.song.row, c.song.cur.sec, c.song.cur.slide)))

\* A live scripture session's slide is on screen.
ScriptureOnScreen ==
  \A k \in Channels :
    LET c == ch[k]
    IN  c.scr # None /\ c.song = None =>
          Displays(c, ScriptureInfo[c.scr.row].tpl,
                   Says(c.scr.row, 0, c.scr.slide))

\* A live deck that is not blanked shows its slide: a graphic one on screen,
\* a photo or video one with no graphic of the deck left over it.
SlidesOnScreen ==
  \A k \in Channels :
    LET c == ch[k]
    IN  c.slides # None /\ c.song = None =>
          (~c.slides.blanked =>
            IF Airing(c).kind = "graphic"
              THEN Displays(c, Airing(c).tpl,
                            Says(c.slides.row, 0, c.slides.idx))
              ELSE ~OnScreen(c))

\* A media-slot deck is live exactly while the slot shows the take it made,
\* of the file it believes is on air: whatever takes the slot stops the deck
\* (mediaTake, releaseForMediaTake, mediaClear, dropAll).
LoopOwns(c) ==
  c.deck # None =>
    /\ c.st.media # None /\ c.st.media.owner = LoopOwner(c.deck)
    /\ c.st.media.at = c.deck.at /\ c.st.media.item = c.deck.onAir
LoopOwnsItsMedia == \A k \in Channels : LoopOwns(ch[k])

\* A media deck puts on air only what can play: a file that has not failed in
\* this session and, of a live folder, is still there, whether a step, a timer,
\* a wrap, a report or a promotion brings it up.  Only stepping back from the
\* end shows the last one again, whatever became of it (mediaDeckSession.ts
\* presence, mediaFailed, promote, back).
FreshTake(was, d) == d # None /\ (was = None \/ d.at # was.at)
SteppedBack(was, d) == was # None /\ was.atEnd /\ d.idx = was.idx
PlaysWhatCan ==
  [][\A k \in Channels :
       LET was == ch[k].deck
           d == ch'[k].deck
       IN  FreshTake(was, d) =>
             \/ SteppedBack(was, d)
             \/ /\ d.onAir \notin d.failed
                /\ LoopInfo[d.row].folder => d.onAir \in files']_vars

\* A deck's photo or video never outlives its slide: media a graphics-slot
\* deck put up belongs to the live session, to the slide it is on, and is the
\* take whose end the session waits for.
NoOrphanedSlideMedia ==
  \A k \in Channels :
    LET c == ch[k]
        m == c.st.media
    IN  m # None =>
          (m.owner \in {<<"slides", r>> : r \in DeckRows} =>
             /\ c.slides # None
             /\ m.owner[2] = c.slides.row /\ ~c.slides.blanked
             /\ m.item = c.slides.idx /\ m.at = c.slides.mediaAt)

\* A graphic going out has the sweep pending that will drop it, so no
\* interleaving of takes and clears leaves it going out for good.
Swept(c) ==
  c.st.active # None =>
    (c.st.active.phase = "out" => c.st.active.at \in c.sweeps)
OutgoingIsSwept == \A k \in Channels : Swept(ch[k])

\* activeSource, when set, is the row of the graphic on screen: PVW to PGM
\* carries it as program's liveRow (channels.ts:49-53).
SourceNamesTheGraphic ==
  \A k \in Channels :
    LET c == ch[k]
    IN  /\ OnScreen(c) /\ c.source # None
        /\ c.song # None => c.slides = None /\ SongIsOnSlide(c)
        => c.st.active.shows.row = c.source

\* No song runs beside a slides deck on one channel: each ends the other as
\* it starts (songSession.ts:152, slidesSession.ts:228).
OneSessionPerSlot ==
  \A k \in Channels : ~(ch[k].song # None /\ ch[k].slides # None)

\* A deck that takes a channel over drops the song queued there: PVW to PGM of
\* something else drops program's stale queued song
\* (songSession.test.ts:515), as a deck's start does (slidesSession.ts:230).
DeckDropsTheQueue ==
  \A k \in Channels : ch[k].slides # None => ch[k].songQ = None

\* The pending auto-advance is towards what the last hypothesis matched: a
\* hypothesis that disagrees cancels it (songSession.ts:510-513).
AdvanceAgreesWithMatch ==
  \A k \in Channels : ch[k].stt # None => ch[k].stt = ch[k].match

\* A song's pending auto-advance dies with it: no end, clear or take leaves
\* one behind to move the next song (songSession.ts tearDownSession).
AdvanceHasASong == \A k \in Channels : ch[k].stt # None => ch[k].song # None

\* A blanked song keeps the screen dark until it is unblanked, whichever of
\* Next, a jump and the speech auto-advance moves its cursor meanwhile.
BlankIsDark ==
  \A k \in Channels :
    LET c == ch[k]
    IN  c.song # None /\ c.slides = None =>
          (c.song.blanked => ~OnScreen(c))

\* A pending auto-out timer, were it to fire now, would take down the graphic
\* it was set for and nothing else: never a song, a passage or a deck that
\* went up since (channels.ts:46-49, 250-253).
AutoOutSparesSessions ==
  \A k \in Channels :
    LET fired == AutoOutFires(ch[k])
    IN  ch[k].autoOut # None => /\ fired.song = ch[k].song
                                /\ fired.scr = ch[k].scr
                                /\ fired.slides = ch[k].slides

\* The auto-out of a graphic on screen is never lost while it stays there:
\* either its template read or its timer is pending (channels.ts:69-75), and
\* no cancel, race of reads or later session forgets it.
AutoOutPending(c) ==
  LET a == c.st.active
      ref == [tpl |-> a.tpl, at |-> a.at]
  IN  /\ OnScreen(c) /\ (a # None => a.tpl \in AutoOut)
      /\ c.song = None /\ c.scr = None /\ c.slides = None
      => ref \in c.lookups \/ c.autoOut = ref
AutoOutIsPending == \A k \in Channels : AutoOutPending(ch[k])

\* A graphic going out leaves the screen for good or gives way to a new take.
OutgoingGoes ==
  \A k \in Channels :
    (ch[k].st.active # None /\ ~OnScreen(ch[k])) ~>
      (ch[k].st.active = None \/ OnScreen(ch[k]))
=============================================================================
