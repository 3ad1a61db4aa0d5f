---------------------------- MODULE LiveControl ----------------------------
(***************************************************************************)
(* The live control plane: one action per client message that changes a    *)
(* channel, and one per timer, template read or folder event that does so  *)
(* by itself.  Every handler runs to completion on the server's one event  *)
(* loop; what interleaves is the order of messages and timers.             *)
(***************************************************************************)
EXTENDS GraphicsSlot

CONSTANTS
  GraphicTakes,    \* [tpl, row] of the takes clients send
  MediaTakes,      \* [row, kind, loop, endAction, inShow] of the media takes
  SlidePicks,      \* slide numbers a jump or go-to names, valid or not
  Promotions,      \* <<from, to>> channel pairs of PVW to PGM
  FolderContents,  \* what the live folder may hold
  Listening,       \* whether a speech-to-text listener is connected
  Controls,        \* media transport controls clients send
  MaxNow,          \* the clock stops here
  MaxAt            \* media take identities stay below this

VARIABLES
  ch,     \* the channels' states and sessions
  now,    \* Date.now()
  files   \* files present in the live folder

vars == <<ch, now, files>>

ASSUME InputsAssumption ==
  /\ GraphicTakes \subseteq [tpl : Templates, row : GraphicRows \cup {None}]
  /\ MediaTakes \subseteq [row : MediaRows, kind : {"image", "video"},
                           loop : BOOLEAN, endAction : {"hold", "clear"},
                           inShow : BOOLEAN]
  /\ SlidePicks \subseteq Nat
  /\ Promotions \subseteq {p \in Channels \X Channels : p[1] # p[2]}
  /\ FolderContents \subseteq SUBSET Files
  /\ Controls \subseteq MediaControls /\ Listening \in BOOLEAN
  /\ MaxNow \in Nat /\ MaxAt \in Nat

Init == /\ ch = [k \in Channels |-> InitChannel(k)]
        /\ now = 1
        /\ files \in FolderContents

\* Channel k becomes c, unless that exceeds the bound on media identities.
Become(k, c) ==
  /\ c.st.media # None => c.st.media.at <= MaxAt
  /\ ch' = [ch EXCEPT ![k] = c]
  /\ UNCHANGED <<now, files>>

\* Channels p[1] and p[2] become pair[1] and pair[2].
BecomeBoth(p, pair) ==
  /\ \A i \in {1, 2} :
       pair[i].st.media # None => pair[i].st.media.at <= MaxAt
  /\ ch' = [ch EXCEPT ![p[1]] = pair[1], ![p[2]] = pair[2]]
  /\ UNCHANGED <<now, files>>

----------------------------------------------------------------------------
\* Graphics and clears.
TakeOn(k) ==
  \E g \in GraphicTakes :
    Become(k, TakeGraphic(ch[k], g.tpl, g.row, "none", now))
ClearOn(k) == Become(k, Clear(ch[k], FALSE))
UpdateOn(k) == Become(k, EditFields(ch[k]))
ClearAllChannels ==
  \E cut \in BOOLEAN :
    /\ ch' = [k \in Channels |-> ClearAll(ch[k], cut)]
    /\ UNCHANGED <<now, files>>
PvwToPgm ==
  \E p \in Promotions :
    BecomeBoth(p, TakePvwToPgm(ch[p[1]], ch[p[2]], files, now))

\* Songs.
SongTakeOn(k) == \E r \in SongRows : Become(k, SongTake(ch[k], r, now))
SongPvwToPgm ==
  \E p \in Promotions, r \in SongRows :
    BecomeBoth(p, SongPromote(ch[p[1]], ch[p[2]], r, now))
SongAdvanceOn(k) == \E d \in {-1, 1} : Become(k, SongAdvance(ch[k], d, now))
SongJumpOn(k) ==
  \E sec \in Sections, i \in SlidePicks : Become(k, SongJump(ch[k], sec, i, now))
SongBlankOn(k) == Become(k, SongBlank(ch[k], now))
SongTrustOn(k) == \E b \in BOOLEAN : Become(k, SongTrust(ch[k], b))
SongEndOn(k) == Become(k, SongEnd(ch[k]))
SongIntroOn(k) == \E r \in SongRows : Become(k, SongIntro(ch[k], r, now))
SongOutroOn(k) == \E r \in SongRows : Become(k, SongOutro(ch[k], r, now))
SongLyricsOn(k) == \E r \in SongRows : Become(k, SongLyrics(ch[k], r, now))

\* One hypothesis reaches every channel with a song; each matches its own.
SttHypothesis ==
  LET live == {k \in Channels : ch[k].song # None}
      heard == {None} \cup UNION {Matchable(ch[k]) : k \in live}
  IN  /\ Listening
      /\ \E p \in [live -> heard], sure \in [live -> BOOLEAN] :
           /\ \A k \in live : p[k] \in {None} \cup Matchable(ch[k])
           /\ ch' = [k \in Channels |->
                       IF k \in live THEN Hypothesis(ch[k], p[k], sure[k])
                                     ELSE ch[k]]
      /\ UNCHANGED <<now, files>>

\* Scripture.
ScriptureIntroOn(k) ==
  \E r \in ScriptureRows : Become(k, ScriptureIntro(ch[k], r, now))
ScriptureSlideOn(k) ==
  \E r \in ScriptureRows, i \in SlidePicks :
    Become(k, ScriptureSlide(ch[k], r, i, now))
ScriptureAdvanceOn(k) ==
  \E d \in {-1, 1} : Become(k, ScriptureAdvance(ch[k], d, now))
ScriptureGoToOn(k) ==
  \E i \in SlidePicks : Become(k, ScriptureGoTo(ch[k], i, now))
ScriptureEndOn(k) == Become(k, ScriptureEnd(ch[k]))

\* Slides decks.  The controls drive a media-slot deck, of row LoopRows, when
\* no graphics-slot deck is live on the channel.
IsLoopSession(c) == c.slides = None /\ c.deck # None

SlidesTakeOn(k) ==
  \E i \in SlidePicks :
    \/ \E r \in DeckRows : Become(k, SlidesStart(ch[k], r, i, now))
    \/ \E r \in LoopRows : Become(k, LoopStart(ch[k], r, i, files, now))
SlidesAdvanceOn(k) ==
  \E d \in {-1, 1} :
    Become(k, IF IsLoopSession(ch[k]) THEN LoopStep(ch[k], d, files, now)
                                      ELSE SlidesAdvance(ch[k], d, now))
SlidesGoToOn(k) ==
  \E i \in SlidePicks :
    Become(k, IF IsLoopSession(ch[k]) THEN LoopGoTo(ch[k], i, files, now)
                                      ELSE SlidesGoTo(ch[k], i, now))
SlidesBlankOn(k) == Become(k, SlidesBlank(ch[k], now))
SlidesEndOn(k) ==
  Become(k, IF IsLoopSession(ch[k]) THEN LoopEnd(ch[k]) ELSE SlidesEnd(ch[k]))

\* The media slot.
MediaTakeOn(k) ==
  \E m \in MediaTakes :
    Become(k, MediaTake(ch[k], [row |-> m.row, item |-> 0, kind |-> m.kind,
                                loop |-> m.loop, endAction |-> m.endAction,
                                owner |-> None], m.inShow, now))
MediaClearOn(k) == Become(k, MediaClear(ch[k]))
MediaControlOn(k) ==
  \E at \in 1 .. MaxAt, x \in Controls : Become(k, MediaControl(ch[k], at, x))
\* The reporting renderer's status of some take, perhaps no longer on air.
MediaStatusOn(k) ==
  \E at \in 1 .. MaxAt, s \in Reports :
    Become(k, MediaStatus(ch[k], at, s, files, now))

----------------------------------------------------------------------------
\* What happens by itself.  A delay is never measured: a timer that is set
\* may fire at any later moment, a template read may answer at any moment.
AutoOutLookup(k) ==
  \E ref \in ch[k].lookups : Become(k, AutoOutAnswer(ch[k], ref))
AutoOutTimer(k) == ch[k].autoOut # None /\ Become(k, AutoOutFires(ch[k]))
SweepTimer(k) == \E at \in ch[k].sweeps : Become(k, Sweep(ch[k], at))
SttTimer(k) == ch[k].stt # None /\ Become(k, SttFires(ch[k], now))
DeckTimer(k) ==
  /\ ch[k].slides # None /\ ch[k].slides.armed
  /\ Become(k, SlidesTimer(ch[k], now))
MediaDeckTimer(k) ==
  /\ ch[k].deck # None /\ ch[k].deck.armed
  /\ Become(k, LoopTimer(ch[k], files, now))

\* Files come and go; a starved session starts again when some appear.
FolderChange ==
  \E present \in FolderContents \ {files} :
    /\ files' = present
    /\ ch' = [k \in Channels |-> LoopFolderChange(ch[k], present, now)]
    /\ \A k \in Channels :
         ch'[k].st.media # None => ch'[k].st.media.at <= MaxAt
    /\ UNCHANGED now

Tick == now < MaxNow /\ now' = now + 1 /\ UNCHANGED <<ch, files>>

ClientMessage(k) ==
  \/ TakeOn(k) \/ ClearOn(k) \/ UpdateOn(k)
  \/ SongTakeOn(k) \/ SongAdvanceOn(k) \/ SongJumpOn(k) \/ SongBlankOn(k)
  \/ SongTrustOn(k) \/ SongEndOn(k) \/ SongIntroOn(k) \/ SongOutroOn(k)
  \/ SongLyricsOn(k)
  \/ ScriptureIntroOn(k) \/ ScriptureSlideOn(k) \/ ScriptureAdvanceOn(k)
  \/ ScriptureGoToOn(k) \/ ScriptureEndOn(k)
  \/ SlidesTakeOn(k) \/ SlidesAdvanceOn(k) \/ SlidesGoToOn(k)
  \/ SlidesBlankOn(k) \/ SlidesEndOn(k)
  \/ MediaTakeOn(k) \/ MediaClearOn(k) \/ MediaControlOn(k)
  \/ MediaStatusOn(k)

Internal(k) ==
  \/ AutoOutLookup(k) \/ AutoOutTimer(k) \/ SweepTimer(k)
  \/ SttTimer(k) \/ DeckTimer(k) \/ MediaDeckTimer(k)

Next == \/ \E k \in Channels : ClientMessage(k) \/ Internal(k)
        \/ ClearAllChannels \/ PvwToPgm \/ SongPvwToPgm \/ SttHypothesis
        \/ FolderChange \/ Tick

\* A sweep that is set fires; clients owe nothing.
Fairness == \A k \in Channels : WF_vars(SweepTimer(k))

Spec == Init /\ [][Next]_vars

----------------------------------------------------------------------------
TypeOK == /\ ch \in [Channels -> Channel]
          /\ now \in Nat \ {0}
          /\ files \in SUBSET Files
=============================================================================
