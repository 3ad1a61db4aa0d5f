--------------------------- MODULE LiveControl_proof --------------------------
(***************************************************************************)
(* Proofs about the live control plane, for every rundown, set of channels *)
(* and bound.  Sound(k) is the set of records channel k may be at any      *)
(* point of a handler; one lemma per operator says that it maps Sound(k)   *)
(* into itself, and an operator built from others follows from theirs.     *)
(***************************************************************************)
EXTENDS LiveSafety, WellFoundedInduction, TLAPS

\* Live sessions whose index is within the list they play.
DeckLive == {s \in SlidesSession : s.idx \in DOMAIN Slides(s.row)}
LoopLive == {d \in LoopSession : d.idx \in DOMAIN d.slides}

\* Graphics channel k may show.
Airable(k) == {g \in Graphic : k # Preview => g.tpl \notin Drafts}

Sound(k) == {c \in Channel : /\ c.name = k
                             /\ c.st.active \in Airable(k) \cup {None}
                             /\ c.slides \in DeckLive \cup {None}
                             /\ c.deck \in LoopLive \cup {None}
                             /\ Swept(c)}

----------------------------------------------------------------------------
(***************************************************************************)
(* Parts of a sound record, and the updates that keep it sound.  An EXCEPT *)
(* with several updates is a sequence of these.                            *)
(***************************************************************************)
LEMMA Parts ==
  ASSUME NEW k, NEW c \in Sound(k)
  PROVE  /\ c \in Channel /\ c.name = k
         /\ c.st \in State /\ c.sent \in State
         /\ c.source \in Rows \cup {None}
         /\ c.song \in SongSession \cup {None}
         /\ c.songQ \in SongRows \cup {None}
         /\ c.stt \in Cursor \cup {None}
         /\ c.heard \in Nat
         /\ c.match \in Cursor \cup {None}
         /\ c.scr \in ScriptureSession \cup {None}
         /\ c.scrQ \in ScriptureRows \cup {None}
         /\ c.slides \in DeckLive \cup {None}
         /\ c.deck \in LoopLive \cup {None}
         /\ c.autoOut \in TakeRef \cup {None}
         /\ c.lookups \in SUBSET TakeRef
         /\ c.sweeps \in SUBSET Nat
         /\ Swept(c)
BY DEF Sound, Channel

\* The published state of a sound record has its type and is airable.
LEMMA StParts ==
  ASSUME NEW k, NEW c \in Sound(k)
  PROVE  /\ c.st.active \in Airable(k) \cup {None}
         /\ c.st.liveRow \in Rows \cup {None}
         /\ c.st.song \in SongSession \cup {None}
         /\ c.st.songQ \in SongRows \cup {None}
         /\ c.st.scr \in ScriptureSession \cup {None}
         /\ c.st.scrQ \in ScriptureRows \cup {None}
         /\ c.st.slides \in SlidesSummary \cup {None}
         /\ c.st.media \in Media \cup {None}
BY DEF Sound, Channel, State

\* Updates of one field that keep a record a Channel.
LEMMA ChannelPut ==
  ASSUME NEW c \in Channel
  PROVE  /\ \A x \in State : [c EXCEPT !.st = x] \in Channel
         /\ \A x \in State : [c EXCEPT !.sent = x] \in Channel
         /\ \A x \in Rows \cup {None} : [c EXCEPT !.source = x] \in Channel
         /\ \A x \in SongSession \cup {None} : [c EXCEPT !.song = x] \in Channel
         /\ \A x \in SongRows \cup {None} : [c EXCEPT !.songQ = x] \in Channel
         /\ \A x \in Cursor \cup {None} : [c EXCEPT !.stt = x] \in Channel
         /\ \A x \in Nat : [c EXCEPT !.heard = x] \in Channel
         /\ \A x \in Cursor \cup {None} : [c EXCEPT !.match = x] \in Channel
         /\ \A x \in ScriptureSession \cup {None} :
              [c EXCEPT !.scr = x] \in Channel
         /\ \A x \in ScriptureRows \cup {None} : [c EXCEPT !.scrQ = x] \in Channel
         /\ \A x \in SlidesSession \cup {None} : [c EXCEPT !.slides = x] \in Channel
         /\ \A x \in LoopSession \cup {None} : [c EXCEPT !.deck = x] \in Channel
         /\ \A x \in TakeRef \cup {None} : [c EXCEPT !.autoOut = x] \in Channel
         /\ \A x \in SUBSET TakeRef : [c EXCEPT !.lookups = x] \in Channel
         /\ \A x \in SUBSET Nat : [c EXCEPT !.sweeps = x] \in Channel
BY DEF Channel

\* A record that differs only where soundness does not look is sound.
LEMMA StillSound ==
  ASSUME NEW k, NEW c \in Sound(k), NEW d \in Channel,
         d.name = c.name, d.st.active = c.st.active,
         d.slides = c.slides, d.deck = c.deck, c.sweeps \subseteq d.sweeps
  PROVE  d \in Sound(k)
BY DEF Sound, Swept

\* Updates of one field beside the published state that keep it sound.
LEMMA Put ==
  ASSUME NEW k, NEW c \in Sound(k)
  PROVE  /\ \A x \in State : [c EXCEPT !.sent = x] \in Sound(k)
         /\ \A x \in Rows \cup {None} : [c EXCEPT !.source = x] \in Sound(k)
         /\ \A x \in SongSession \cup {None} : [c EXCEPT !.song = x] \in Sound(k)
         /\ \A x \in SongRows \cup {None} : [c EXCEPT !.songQ = x] \in Sound(k)
         /\ \A x \in Cursor \cup {None} : [c EXCEPT !.stt = x] \in Sound(k)
         /\ \A x \in Nat : [c EXCEPT !.heard = x] \in Sound(k)
         /\ \A x \in Cursor \cup {None} : [c EXCEPT !.match = x] \in Sound(k)
         /\ \A x \in ScriptureSession \cup {None} :
              [c EXCEPT !.scr = x] \in Sound(k)
         /\ \A x \in ScriptureRows \cup {None} :
              [c EXCEPT !.scrQ = x] \in Sound(k)
         /\ \A x \in DeckLive \cup {None} : [c EXCEPT !.slides = x] \in Sound(k)
         /\ \A x \in LoopLive \cup {None} : [c EXCEPT !.deck = x] \in Sound(k)
         /\ \A x \in TakeRef \cup {None} : [c EXCEPT !.autoOut = x] \in Sound(k)
         /\ \A x \in SUBSET TakeRef : [c EXCEPT !.lookups = x] \in Sound(k)
         /\ \A x \in SUBSET Nat : c.sweeps \subseteq x
                                    => [c EXCEPT !.sweeps = x] \in Sound(k)
<1>c. c \in Channel BY Parts
<1>1. \A x \in State : [c EXCEPT !.sent = x] \in Sound(k)
  BY <1>c, ChannelPut, StillSound DEF Channel
<1>2. \A x \in Rows \cup {None} : [c EXCEPT !.source = x] \in Sound(k)
  BY <1>c, ChannelPut, StillSound DEF Channel
<1>3. \A x \in SongSession \cup {None} : [c EXCEPT !.song = x] \in Sound(k)
  BY <1>c, ChannelPut, StillSound DEF Channel
<1>4. \A x \in SongRows \cup {None} : [c EXCEPT !.songQ = x] \in Sound(k)
  BY <1>c, ChannelPut, StillSound DEF Channel
<1>5. \A x \in Cursor \cup {None} : [c EXCEPT !.stt = x] \in Sound(k)
  BY <1>c, ChannelPut, StillSound DEF Channel
<1>6. \A x \in Nat : [c EXCEPT !.heard = x] \in Sound(k)
  BY <1>c, ChannelPut, StillSound DEF Channel
<1>7. \A x \in Cursor \cup {None} : [c EXCEPT !.match = x] \in Sound(k)
  BY <1>c, ChannelPut, StillSound DEF Channel
<1>8. \A x \in ScriptureSession \cup {None} : [c EXCEPT !.scr = x] \in Sound(k)
  BY <1>c, ChannelPut, StillSound DEF Channel
<1>9. \A x \in ScriptureRows \cup {None} : [c EXCEPT !.scrQ = x] \in Sound(k)
  BY <1>c, ChannelPut, StillSound DEF Channel
<1>10. \A x \in DeckLive \cup {None} : [c EXCEPT !.slides = x] \in Sound(k)
  <2> SUFFICES ASSUME NEW x \in DeckLive \cup {None} PROVE [c EXCEPT !.slides = x] \in Sound(k)
    OBVIOUS
  <2>1. [c EXCEPT !.slides = x] \in Channel BY <1>c, ChannelPut DEF DeckLive
  <2> QED BY <1>c, <2>1 DEF Sound, Swept, Channel
<1>11. \A x \in LoopLive \cup {None} : [c EXCEPT !.deck = x] \in Sound(k)
  <2> SUFFICES ASSUME NEW x \in LoopLive \cup {None} PROVE [c EXCEPT !.deck = x] \in Sound(k)
    OBVIOUS
  <2>1. [c EXCEPT !.deck = x] \in Channel BY <1>c, ChannelPut DEF LoopLive
  <2> QED BY <1>c, <2>1 DEF Sound, Swept, Channel
<1>12. \A x \in TakeRef \cup {None} : [c EXCEPT !.autoOut = x] \in Sound(k)
  BY <1>c, ChannelPut, StillSound DEF Channel
<1>13. \A x \in SUBSET TakeRef : [c EXCEPT !.lookups = x] \in Sound(k)
  BY <1>c, ChannelPut, StillSound DEF Channel
<1>14. \A x \in SUBSET Nat : c.sweeps \subseteq x => [c EXCEPT !.sweeps = x] \in Sound(k)
  BY <1>c, ChannelPut, StillSound DEF Channel
<1> QED BY <1>1, <1>2, <1>3, <1>4, <1>5, <1>6, <1>7, <1>8, <1>9, <1>10, <1>11, <1>12, <1>13, <1>14

\* Updates of one part of the published state that keep it sound.
LEMMA StPut ==
  ASSUME NEW k, NEW c \in Sound(k)
  PROVE  /\ \A x \in Airable(k) \cup {None} :
              (x # None => (x.phase = "out" => x.at \in c.sweeps))
                => [c EXCEPT !.st.active = x] \in Sound(k)
         /\ \A x \in Rows \cup {None} : [c EXCEPT !.st.liveRow = x] \in Sound(k)
         /\ \A x \in SongSession \cup {None} :
              [c EXCEPT !.st.song = x] \in Sound(k)
         /\ \A x \in SongRows \cup {None} : [c EXCEPT !.st.songQ = x] \in Sound(k)
         /\ \A x \in ScriptureSession \cup {None} :
              [c EXCEPT !.st.scr = x] \in Sound(k)
         /\ \A x \in ScriptureRows \cup {None} :
              [c EXCEPT !.st.scrQ = x] \in Sound(k)
         /\ \A x \in SlidesSummary \cup {None} :
              [c EXCEPT !.st.slides = x] \in Sound(k)
         /\ \A x \in Media \cup {None} : [c EXCEPT !.st.media = x] \in Sound(k)
<1>c. c \in Channel /\ c.st \in State BY Parts
<1>st. \A x \in State : x.active = c.st.active => [c EXCEPT !.st = x] \in Sound(k)
  BY <1>c, ChannelPut, StillSound DEF Channel
<1>1. \A x \in Airable(k) \cup {None} :
        (x # None => (x.phase = "out" => x.at \in c.sweeps))
          => [c EXCEPT !.st.active = x] \in Sound(k)
  <2> SUFFICES ASSUME NEW x \in Airable(k) \cup {None},
                      x # None => (x.phase = "out" => x.at \in c.sweeps)
               PROVE  [c EXCEPT !.st.active = x] \in Sound(k)
    OBVIOUS
  <2>1. [c.st EXCEPT !.active = x] \in State
    BY <1>c DEF State, Airable
  <2>2. [c.st EXCEPT !.active = x].active = x BY <1>c DEF State
  <2> DEFINE d == [c EXCEPT !.st = [c.st EXCEPT !.active = x]]
  <2>3. d \in Channel BY <1>c, <2>1, ChannelPut
  <2>4. /\ d.name = c.name /\ d.st = [c.st EXCEPT !.active = x]
        /\ d.slides = c.slides /\ d.deck = c.deck /\ d.sweeps = c.sweeps
    BY <1>c DEF Channel
  <2> HIDE DEF d
  <2>5. d \in Sound(k) BY <2>2, <2>3, <2>4, Parts DEF Sound, Swept
  <2> QED BY <2>5 DEF d
<1>2. \A x \in Rows \cup {None} : [c EXCEPT !.st.liveRow = x] \in Sound(k)
  BY <1>c, <1>st DEF State
<1>3. \A x \in SongSession \cup {None} : [c EXCEPT !.st.song = x] \in Sound(k)
  BY <1>c, <1>st DEF State
<1>4. \A x \in SongRows \cup {None} : [c EXCEPT !.st.songQ = x] \in Sound(k)
  BY <1>c, <1>st DEF State
<1>5. \A x \in ScriptureSession \cup {None} : [c EXCEPT !.st.scr = x] \in Sound(k)
  BY <1>c, <1>st DEF State
<1>6. \A x \in ScriptureRows \cup {None} : [c EXCEPT !.st.scrQ = x] \in Sound(k)
  BY <1>c, <1>st DEF State
<1>7. \A x \in SlidesSummary \cup {None} : [c EXCEPT !.st.slides = x] \in Sound(k)
  BY <1>c, <1>st DEF State
<1>8. \A x \in Media \cup {None} : [c EXCEPT !.st.media = x] \in Sound(k)
  BY <1>c, <1>st DEF State
<1> QED BY <1>1, <1>2, <1>3, <1>4, <1>5, <1>6, <1>7, <1>8

----------------------------------------------------------------------------
(***************************************************************************)
(* Rundown: minima and maxima, cursors, occurrences.                       *)
(***************************************************************************)
\* A nonempty set of naturals has a least element.
LEMMA MinOfNat ==
  ASSUME NEW S \in SUBSET Nat, S # {}
  PROVE  Min(S) \in S /\ \A y \in S : Min(S) <= y
<1> DEFINE R == {ss \in Nat \X Nat : ss[1] < ss[2]}
<1>1. IsWellFoundedOn(R, Nat) BY NatLessThanWellFounded, Zenon DEF OpToRel
<1>r. \A y, z \in Nat : y < z => <<y, z>> \in R OBVIOUS
<1> HIDE DEF R
<1>2. PICK x \in S : \A y \in S : <<y, x>> \notin R BY <1>1, WFMin
<1>n. x \in Nat /\ \A y \in S : y \in Nat OBVIOUS
<1>3. ASSUME NEW y \in S PROVE x <= y
  <2>1. ~(y < x) BY <1>2, <1>r, <1>n
  <2> QED BY <2>1, <1>n
<1> QED BY <1>3 DEF Min

\* A nonempty set of naturals bounded by n has a greatest element: n - x is
\* least for it.
LEMMA MaxOfNat ==
  ASSUME NEW n \in Nat, NEW S \in SUBSET (0..n), S # {}
  PROVE  Max(S) \in S /\ \A y \in S : Max(S) >= y
<1> DEFINE T == {n - x : x \in S}
<1>1. \A x \in S : x \in Nat /\ n - x \in Nat OBVIOUS
<1>2. T \in SUBSET Nat /\ T # {} BY <1>1
<1> HIDE DEF T
<1>3. PICK m \in T : \A y \in T : m <= y BY <1>2, MinOfNat
<1>4. PICK x \in S : m = n - x BY <1>3 DEF T
<1>5. \A y \in S : n - y \in T BY DEF T
<1>6. \A y \in S : x >= y BY <1>1, <1>3, <1>4, <1>5
<1> QED BY <1>6 DEF Max

\* A section has a natural number of slides.
LEMMA SlidesAtNat ==
  ASSUME NEW song \in Songs, NEW arr, NEW i
  PROVE  SlidesAt(song, arr, i) \in Nat
BY SongsAssumption DEF SlidesAt

\* Next and Previous stay in the arrangement.
LEMMA StepCursorType ==
  ASSUME NEW song \in Songs, NEW arr, DOMAIN arr \subseteq Nat,
         NEW cur \in Cursor, NEW d \in {-1, 1}
  PROVE  StepCursor(song, arr, cur, d) \in Cursor
<1> DEFINE here == SlidesAt(song, arr, cur.sec)
           next == cur.sec + d
           there == SlidesAt(song, arr, next)
<1>1. here \in Nat /\ there \in Nat BY SlidesAtNat
<1>2. cur.sec \in Nat /\ cur.slide \in Nat BY DEF Cursor
<1> HIDE DEF here, there
<1>3. cur.slide + d \in 1..here => [cur EXCEPT !.slide = cur.slide + d] \in Cursor
  BY <1>1, <1>2 DEF Cursor
<1>4. next \in DOMAIN arr =>
        /\ [cur EXCEPT !.sec = next] \in Cursor
        /\ [sec |-> next, slide |-> IF d = 1 THEN 1 ELSE there] \in Cursor
  BY <1>1, <1>2 DEF Cursor
<1> QED BY <1>1, <1>3, <1>4 DEF StepCursor, here, there

\* A jump lands on an occurrence of the section, or nowhere.
LEMMA OccurrenceForType ==
  ASSUME NEW arr \in Seq(Sections), NEW section, NEW i \in Nat
  PROVE  LET j == OccurrenceFor(arr, section, i)
         IN  j \in Nat /\ (j # 0 => j \in DOMAIN arr /\ arr[j] = section)
<1> DEFINE all == {j \in DOMAIN arr : arr[j] = section}
           later == {j \in all : j > i}
<1>1. DOMAIN arr \subseteq Nat OBVIOUS
<1>2. all \in SUBSET Nat /\ later \in SUBSET all BY <1>1
<1>3. all # {} => Min(all) \in all BY <1>2, MinOfNat
<1>4. later # {} => Min(later) \in all BY <1>2, MinOfNat
<1>5. all \in SUBSET DOMAIN arr /\ \A j \in all : arr[j] = section OBVIOUS
<1> HIDE DEF all
<1> QED BY <1>1, <1>2, <1>3, <1>4, <1>5 DEF OccurrenceFor, all

----------------------------------------------------------------------------
(***************************************************************************)
(* ChannelState and MediaSlot.                                             *)
(***************************************************************************)
LEMMA InitSound ==
  ASSUME NEW k \in Channels PROVE InitChannel(k) \in Sound(k)
<1>1. EmptyState \in State BY DEF EmptyState, State
<1>2. InitChannel(k) \in Channel BY <1>1 DEF InitChannel, Channel
<1> QED BY <1>2 DEF Sound, Swept, InitChannel, EmptyState

\* emit() changes what clients have been sent and nothing else.
LEMMA EmitSound ==
  ASSUME NEW k, NEW c \in Sound(k) PROVE Emit(c) \in Sound(k)
BY Put, Parts DEF Emit

\* setLiveRow() records a rundown row.
LEMMA SetLiveRowSound ==
  ASSUME NEW k, NEW c \in Sound(k), NEW row \in Rows
  PROVE  SetLiveRow(c, row) \in Sound(k)
BY Put, StPut, EmitSound DEF SetLiveRow

\* Both decks' summaries are summaries clients can be shown.
LEMMA SummaryTypes ==
  /\ \A d \in LoopSession : LoopSummary(d) \in SlidesSummary
  /\ \A s \in SlidesSession : DeckSummary(s) \in SlidesSummary
BY DEF LoopSummary, DeckSummary, LoopSession, SlidesSession, SlidesSummary

\* setMediaDeckSummary(), with its emit or without it.
LEMMA PublishLoopSound ==
  ASSUME NEW k, NEW c \in Sound(k), NEW x \in SlidesSummary \cup {None}
  PROVE  PublishLoop(c, x) \in Sound(k) /\ PublishLoopNow(c, x) \in Sound(k)
BY StPut, EmitSound DEF PublishLoop, PublishLoopNow

\* showMediaDeckSummary(): the media deck's summary comes back.
LEMMA ShowLoopSummarySound ==
  ASSUME NEW k, NEW c \in Sound(k)
  PROVE  ShowLoopSummary(c) \in Sound(k)
<1>1. c.deck = None \/ LoopSummary(c.deck) \in SlidesSummary
  BY Parts, SummaryTypes DEF LoopLive
<1> QED BY <1>1, StPut DEF ShowLoopSummary

\* mediaDeckSession.dropAll() and releaseForMediaTake().
LEMMA DropLoopSound ==
  ASSUME NEW k, NEW c \in Sound(k)
  PROVE  DropLoop(c) \in Sound(k) /\ DropLoopNow(c) \in Sound(k)
BY Put, PublishLoopSound DEF DropLoop, DropLoopNow

\* What a media take airs.
MediaPick == [row : Rows, item : Nat, kind : {"image", "video"},
              loop : BOOLEAN, endAction : {"hold", "clear"},
              owner : ({"slides", "deck"} \X Rows) \cup {None}]

\* mediaTake() leaves well-formed media, whatever owner takes it.
LEMMA MediaTakeSound ==
  ASSUME NEW k, NEW c \in Sound(k), NEW m \in MediaPick,
         NEW inShow \in BOOLEAN, NEW t \in Nat
  PROVE  LET taken == MediaTake(c, m, inShow, t)
         IN  /\ taken \in Sound(k)
             /\ taken.st.media \in Media
             /\ taken.slides = c.slides
             /\ m.owner = LoopOwner(c.deck) => taken.deck = c.deck
<1> DEFINE kept == IF c.deck # None /\ m.owner # LoopOwner(c.deck)
                     THEN DropLoop(c) ELSE c
           prev == IF c.st.media = None THEN 0 ELSE c.st.media.at
           media == [row |-> m.row, item |-> m.item, kind |-> m.kind,
                     loop |-> m.loop, endAction |-> m.endAction,
                     owner |-> m.owner,
                     at |-> IF t > prev THEN t ELSE prev + 1,
                     status |-> "loading", paused |-> FALSE]
           row == IF inShow THEN m.row ELSE c.st.liveRow
           aired == [kept EXCEPT !.st.media = media, !.st.liveRow = row]
<1>1. prev \in Nat BY StParts DEF Media
<1>2. media \in Media BY <1>1 DEF Media, MediaPick
<1>3. row \in Rows \cup {None} BY StParts DEF MediaPick
<1>4. kept \in Sound(k) BY DropLoopSound
<1>5. /\ kept.slides = c.slides
      /\ m.owner = LoopOwner(c.deck) => kept.deck = c.deck
  BY Parts DEF DropLoop, PublishLoop, Channel
<1> HIDE DEF kept, media, row
<1>6. aired \in Sound(k) BY <1>2, <1>3, <1>4, StPut
<1>7. /\ aired.st.media = media
      /\ aired.slides = kept.slides /\ aired.deck = kept.deck
  <2>1. kept \in Channel /\ kept.st \in State BY <1>4, Parts
  <2>2. [kept.st EXCEPT !.media = media, !.liveRow = row].media = media
    BY <2>1 DEF State
  <2>3. aired = [kept EXCEPT !.st =
                   [kept.st EXCEPT !.media = media, !.liveRow = row]]
    OBVIOUS
  <2> QED BY <2>1, <2>2, <2>3 DEF Channel
<1> HIDE DEF aired
<1>8. /\ Emit(aired) \in Sound(k) /\ Emit(aired).st = aired.st
      /\ Emit(aired).slides = aired.slides /\ Emit(aired).deck = aired.deck
  BY <1>6, EmitSound, Parts DEF Emit, Channel
<1>9. MediaTake(c, m, inShow, t) = Emit(aired)
  BY DEF MediaTake, aired, kept, media, row
<1> QED BY <1>2, <1>5, <1>7, <1>8, <1>9

\* mediaClear() empties the media slot.
LEMMA MediaClearSound ==
  ASSUME NEW k, NEW c \in Sound(k) PROVE MediaClear(c) \in Sound(k)
BY DropLoopSound, EmitSound, StPut DEF MediaClear

\* mediaControl() changes transport and status only.
LEMMA MediaControlSound ==
  ASSUME NEW k, NEW c \in Sound(k), NEW at, NEW control
  PROVE  /\ MediaControl(c, at, control) \in Sound(k)
         /\ MediaControl(c, at, control).deck = c.deck
<1> DEFINE m == c.st.media
           p == CASE control = "pause" -> TRUE
                  [] control \in {"play", "restart"} -> FALSE
                  [] OTHER -> m.paused
           s == IF control = "seek" /\ m.status = "ended"
                  THEN "paused" ELSE m.status
           x == [m EXCEPT !.paused = p, !.status = s]
           told == [c EXCEPT !.st.media = x]
<1>1. CASE m = None \/ m.at # at BY <1>1 DEF MediaControl
<1>2. CASE m # None /\ m.at = at
  <2>1. m \in Media BY <1>2, StParts
  <2>2. p \in BOOLEAN /\ s \in {"loading", "playing", "paused", "ended", "error"}
    BY <2>1 DEF Media
  <2> HIDE DEF p, s
  <2>3. x \in Media BY <2>1, <2>2 DEF Media
  <2>4. told \in Sound(k) /\ told.deck = c.deck BY <2>3, StPut, Parts DEF Channel
  <2>5. told = [c EXCEPT !.st.media.paused = p, !.st.media.status = s]
    OBVIOUS
  <2> HIDE DEF told
  <2>6. Emit(told) \in Sound(k) /\ Emit(told).deck = c.deck
    BY <2>4, EmitSound, Parts DEF Emit, Channel
  <2> QED BY <1>2, <2>5, <2>6 DEF MediaControl, p, s
<1> QED BY <1>1, <1>2

----------------------------------------------------------------------------
(***************************************************************************)
(* mediaDeckSession.ts.                                                    *)
(***************************************************************************)
LEMMA LoopParts ==
  ASSUME NEW d \in LoopLive
  PROVE  /\ d \in LoopSession /\ d.row \in LoopRows /\ d.row \in Rows
         /\ d.order \in Orders /\ d.slides \in Orders
         /\ d.idx \in DOMAIN d.slides /\ d.idx \in Nat
         /\ \A i \in DOMAIN d.slides : d.slides[i] \in Files
         /\ d.failed \in SUBSET Files /\ d.onAir \in Files \cup {None}
         /\ d.inShow \in BOOLEAN
<1>1. d \in LoopSession /\ d.idx \in DOMAIN d.slides BY DEF LoopLive
<1>2. d.slides \in Seq(Files) BY <1>1, LoopsAssumption DEF LoopSession
<1> QED BY <1>1, <1>2 DEF LoopSession, Rows

\* Updates of a live media deck that keep it one.
LEMMA LoopPut ==
  ASSUME NEW d \in LoopLive
  PROVE  /\ \A x \in DOMAIN d.slides : [d EXCEPT !.idx = x] \in LoopLive
         /\ \A x \in BOOLEAN : [d EXCEPT !.atEnd = x] \in LoopLive
         /\ \A x \in BOOLEAN : [d EXCEPT !.starved = x] \in LoopLive
         /\ \A x \in BOOLEAN : [d EXCEPT !.armed = x] \in LoopLive
         /\ \A x \in BOOLEAN : [d EXCEPT !.playedOut = x] \in LoopLive
         /\ \A x \in BOOLEAN : [d EXCEPT !.onAirFailed = x] \in LoopLive
         /\ \A x \in SUBSET Files : [d EXCEPT !.failed = x] \in LoopLive
         /\ \A x \in Nat : [d EXCEPT !.at = x] \in LoopLive
         /\ \A x \in Files \cup {None} : [d EXCEPT !.onAir = x] \in LoopLive
         /\ \A x \in Orders, y \in Orders : \A i \in DOMAIN y :
              [d EXCEPT !.order = x, !.slides = y, !.idx = i] \in LoopLive
<1>1. DOMAIN d.slides \subseteq Nat /\ \A y \in Orders : DOMAIN y \subseteq Nat
  BY LoopsAssumption DEF LoopLive, LoopSession
<1> QED BY <1>1 DEF LoopLive, LoopSession

\* resolveSlides() gives an order and a list the session may hold.
LEMMA ResolveType ==
  ASSUME NEW row \in LoopRows, NEW order \in Orders, NEW present \in SUBSET Files
  PROVE  /\ Resolve(row, order, present).order \in Orders
         /\ Resolve(row, order, present).slides \in Orders
<1>1. <<order, present>> \in Orders \X SUBSET Files OBVIOUS
<1>2. NextFolderOrder[<<order, present>>] \in Orders BY <1>1, LoopsAssumption
<1>3. <<NextFolderOrder[<<order, present>>], present>> \in Orders \X SUBSET Files
  BY <1>2
<1>4. FolderSlides[<<NextFolderOrder[<<order, present>>], present>>] \in Orders
  BY <1>3, LoopsAssumption
<1> QED BY <1>2, <1>4, LoopsAssumption DEF Resolve

\* Playable indexes are indexes of the list.
LEMMA PlayableType ==
  ASSUME NEW d, NEW list \in Orders, NEW present
  PROVE  /\ Playable(d, list, present) \subseteq DOMAIN list
         /\ DOMAIN list = 1..Len(list) /\ Len(list) \in Nat
<1>1. list \in Seq(Files) BY LoopsAssumption
<1> QED BY <1>1 DEF Playable

\* arm() (media deck) changes the hold timer alone.
LEMMA ArmLoopSound ==
  ASSUME NEW k, NEW c \in Sound(k), c.deck \in LoopLive
  PROVE  /\ ArmLoop(c) \in Sound(k) /\ ArmLoop(c).deck \in LoopLive
         /\ ArmLoop(c).deck.row = c.deck.row
<1> DEFINE b == /\ c.name # Preview
                /\ ~c.deck.atEnd /\ ~c.deck.starved
                /\ HoldsFor(c.deck.slides[c.deck.idx])
           d == [c.deck EXCEPT !.armed = b]
<1>1. b \in BOOLEAN OBVIOUS
<1> HIDE DEF b
<1>2. d \in LoopLive /\ d.row = c.deck.row
  <2>1. d \in LoopLive BY <1>1, LoopPut
  <2>2. c.deck \in LoopSession BY LoopParts
  <2> QED BY <2>1, <2>2 DEF LoopSession
<1> HIDE DEF d
<1>3. [c EXCEPT !.deck = d] \in Sound(k) /\ [c EXCEPT !.deck = d].deck = d
  BY <1>2, Put, Parts DEF Channel
<1> QED BY <1>2, <1>3 DEF ArmLoop, b, d

\* hold() publishes the session as it is.
LEMMA HoldLoopSound ==
  ASSUME NEW k, NEW c \in Sound(k), c.deck \in LoopLive
  PROVE  HoldLoop(c) \in Sound(k)
<1>1. LoopSummary(ArmLoop(c).deck) \in SlidesSummary
  BY ArmLoopSound, LoopParts, SummaryTypes
<1> QED BY <1>1, ArmLoopSound, PublishLoopSound DEF HoldLoop

\* show() puts the current file on air and keeps the session on it.
LEMMA ShowSlideSound ==
  ASSUME NEW k, NEW c \in Sound(k), c.deck \in LoopLive,
         NEW inShow \in BOOLEAN, NEW t \in Nat
  PROVE  ShowSlide(c, inShow, t) \in Sound(k)
<1> DEFINE file == c.deck.slides[c.deck.idx]
           d == [c.deck EXCEPT !.onAir = file, !.onAirFailed = FALSE,
                               !.playedOut = FALSE]
           put == [c EXCEPT !.deck = d]
           armed == ArmLoop(put)
           told == PublishLoop(armed, LoopSummary(armed.deck))
           m == [row |-> c.deck.row, item |-> file,
                 kind |-> FileInfo[file].kind, loop |-> FALSE,
                 endAction |-> "hold", owner |-> LoopOwner(c.deck)]
           shown == MediaTake(told, m, inShow, t)
<1>1. file \in Files BY LoopParts
<1>2. m \in MediaPick
  BY <1>1, LoopParts, LoopsAssumption DEF MediaPick, LoopOwner
<1>3. d \in LoopLive /\ d.row = c.deck.row
  <2>1. d \in LoopLive BY <1>1, LoopPut
  <2>2. c.deck \in LoopSession BY LoopParts
  <2> QED BY <2>1, <2>2 DEF LoopSession
<1>4. put \in Sound(k) /\ put.deck = d BY <1>3, Put, Parts DEF Channel
<1>5. put = [c EXCEPT !.deck.onAir = file, !.deck.onAirFailed = FALSE,
                      !.deck.playedOut = FALSE]
  OBVIOUS
<1> HIDE DEF put, d, file, m
<1>6. /\ armed \in Sound(k) /\ armed.deck \in LoopLive
      /\ armed.deck.row = c.deck.row
  BY <1>3, <1>4, ArmLoopSound
<1> HIDE DEF armed
<1>7. told \in Sound(k) /\ told.deck = armed.deck
  <2>1. LoopSummary(armed.deck) \in SlidesSummary
    BY <1>6, LoopParts, SummaryTypes
  <2>2. told \in Sound(k) BY <1>6, <2>1, PublishLoopSound
  <2> QED BY <2>2, <1>6, Parts DEF PublishLoop, Channel
<1> HIDE DEF told
<1>8. m.owner = LoopOwner(told.deck) BY <1>6, <1>7 DEF m, LoopOwner
<1>9. shown \in Sound(k) /\ shown.deck \in LoopLive /\ shown.st.media.at \in Nat
  <2>1. shown \in Sound(k) /\ shown.st.media \in Media
    BY <1>2, <1>7, MediaTakeSound
  <2>2. shown.deck = told.deck BY <1>2, <1>7, <1>8, MediaTakeSound
  <2> QED BY <2>1, <2>2, <1>6, <1>7 DEF Media
<1> HIDE DEF shown
<1>10. [shown EXCEPT !.deck.at = shown.st.media.at] \in Sound(k)
  BY <1>9, LoopPut, Put
<1> QED BY <1>5, <1>10 DEF ShowSlide, shown, told, armed, m, file

\* Showing slide i of the list keeps the index within it.
LEMMA ShowIndexSound ==
  ASSUME NEW k, NEW c \in Sound(k), c.deck \in LoopLive,
         NEW i \in DOMAIN c.deck.slides, NEW t \in Nat
  PROVE  ShowIndex(c, i, t) \in Sound(k)
<1> DEFINE d == [c.deck EXCEPT !.idx = i, !.atEnd = FALSE]
<1>1. d \in LoopLive BY LoopPut
<1> HIDE DEF d
<1>2. [c EXCEPT !.deck = d] \in Sound(k) /\ [c EXCEPT !.deck = d].deck = d
  BY <1>1, Put, Parts DEF Channel
<1>3. ShowSlide([c EXCEPT !.deck = d], FALSE, t) \in Sound(k)
  BY <1>1, <1>2, ShowSlideSound
<1> QED BY <1>3 DEF ShowIndex, d

\* replay(): wrapping onto the file that is up.
LEMMA ReplaySound ==
  ASSUME NEW k, NEW c \in Sound(k), c.deck \in LoopLive
  PROVE  Replay(c) \in Sound(k)
<1> DEFINE again == MediaControl(c, c.deck.at, "restart")
<1>1. again \in Sound(k) /\ again.deck = c.deck BY MediaControlSound
<1> HIDE DEF again
<1>2. HoldLoop(again) \in Sound(k) /\ HoldLoop(c) \in Sound(k)
  BY <1>1, HoldLoopSound
<1> QED BY <1>2 DEF Replay, again

\* restartFromTop() starts at a slide of the list it resolved.
LEMMA RestartFromTopSound ==
  ASSUME NEW k, NEW c \in Sound(k), c.deck \in LoopLive,
         NEW present \in SUBSET Files, NEW t \in Nat
  PROVE  RestartFromTop(c, present, t) \in Sound(k)
<1> DEFINE r == Resolve(c.deck.row, c.deck.order, present)
           play == Playable(c.deck, r.slides, present)
           d == [c.deck EXCEPT !.atEnd = FALSE, !.starved = FALSE,
                   !.order = r.order, !.slides = r.slides, !.idx = Min(play)]
           held == [c.deck EXCEPT !.atEnd = FALSE, !.starved = TRUE]
<1>1. r.order \in Orders /\ r.slides \in Orders BY LoopParts, ResolveType
<1>2. play \subseteq DOMAIN r.slides /\ play \subseteq Nat
  BY <1>1, PlayableType
<1> HIDE DEF r, play
<1>3. HoldLoop([c EXCEPT !.deck = held]) \in Sound(k)
  <2>1. held \in LoopLive BY LoopPut
  <2> HIDE DEF held
  <2>2. [c EXCEPT !.deck = held] \in Sound(k) /\ [c EXCEPT !.deck = held].deck = held
    BY <2>1, Put, Parts DEF Channel
  <2> QED BY <2>1, <2>2, HoldLoopSound
<1>4. ASSUME play # {}
      PROVE  /\ Replay([c EXCEPT !.deck = d]) \in Sound(k)
             /\ ShowSlide([c EXCEPT !.deck = d], FALSE, t) \in Sound(k)
  <2>1. Min(play) \in DOMAIN r.slides BY <1>2, <1>4, MinOfNat
  <2>2. [c.deck EXCEPT !.atEnd = FALSE, !.starved = FALSE] \in LoopLive
    BY LoopPut
  <2>3. d \in LoopLive BY <1>1, <2>1, <2>2, LoopPut
  <2> HIDE DEF d
  <2>4. [c EXCEPT !.deck = d] \in Sound(k) /\ [c EXCEPT !.deck = d].deck = d
    BY <2>3, Put, Parts DEF Channel
  <2> QED BY <2>3, <2>4, ReplaySound, ShowSlideSound
<1> QED BY <1>3, <1>4 DEF RestartFromTop, r, play

\* mediaDeckSession.end().
LEMMA LoopEndSound ==
  ASSUME NEW k, NEW c \in Sound(k) PROVE LoopEnd(c) \in Sound(k)
BY Put, PublishLoopSound, MediaClearSound DEF LoopEnd

\* forward(): the next playable slide, the wrap, the end or nothing.
LEMMA ForwardSound ==
  ASSUME NEW k, NEW c \in Sound(k), c.deck \in LoopLive,
         NEW manual \in BOOLEAN, NEW present \in SUBSET Files, NEW t \in Nat
  PROVE  Forward(c, manual, present, t) \in Sound(k)
<1> DEFINE later == {i \in Playable(c.deck, c.deck.slides, present) :
                       i > c.deck.idx}
           held == [c.deck EXCEPT !.atEnd = TRUE]
<1>1. later \in SUBSET Nat /\ later \subseteq DOMAIN c.deck.slides
  BY PlayableType, LoopParts
<1>2. later # {} => Min(later) \in DOMAIN c.deck.slides BY <1>1, MinOfNat
<1>3. later # {} => ShowIndex(c, Min(later), t) \in Sound(k)
  BY <1>2, ShowIndexSound
<1>4. HoldLoop([c EXCEPT !.deck = held]) \in Sound(k)
  <2>1. held \in LoopLive BY LoopPut
  <2> HIDE DEF held
  <2>2. [c EXCEPT !.deck = held] \in Sound(k) /\ [c EXCEPT !.deck = held].deck = held
    BY <2>1, Put, Parts DEF Channel
  <2> QED BY <2>1, <2>2, HoldLoopSound
<1> QED BY <1>3, <1>4, RestartFromTopSound, LoopEndSound DEF Forward

\* back(): an earlier playable slide, the last one again or nothing.
LEMMA BackSound ==
  ASSUME NEW k, NEW c \in Sound(k), c.deck \in LoopLive,
         NEW present \in SUBSET Files, NEW t \in Nat
  PROVE  Back(c, present, t) \in Sound(k)
<1> DEFINE earlier == {i \in Playable(c.deck, c.deck.slides, present) :
                         i < c.deck.idx}
           d == [c.deck EXCEPT !.starved = FALSE]
<1>1. /\ earlier \subseteq DOMAIN c.deck.slides
      /\ earlier \in SUBSET (0..Len(c.deck.slides))
      /\ Len(c.deck.slides) \in Nat
  BY PlayableType, LoopParts
<1> HIDE DEF earlier
<1>2. earlier # {} => Max(earlier) \in DOMAIN c.deck.slides BY <1>1, MaxOfNat
<1>3. ASSUME earlier # {}
      PROVE  ShowIndex([c EXCEPT !.deck = d], Max(earlier), t) \in Sound(k)
  <2>1. d \in LoopLive BY LoopPut
  <2>2. d.slides = c.deck.slides BY LoopParts DEF LoopSession
  <2> HIDE DEF d
  <2>3. [c EXCEPT !.deck = d] \in Sound(k) /\ [c EXCEPT !.deck = d].deck = d
    BY <2>1, Put, Parts DEF Channel
  <2> QED BY <1>2, <1>3, <2>1, <2>2, <2>3, ShowIndexSound
<1>4. ShowIndex(c, c.deck.idx, t) \in Sound(k) BY LoopParts, ShowIndexSound
<1> QED BY <1>3, <1>4 DEF Back, earlier

\* step(): Next and Previous on a media deck.
LEMMA LoopStepSound ==
  ASSUME NEW k, NEW c \in Sound(k), NEW d \in {-1, 1},
         NEW present \in SUBSET Files, NEW t \in Nat
  PROVE  LoopStep(c, d, present, t) \in Sound(k)
BY Parts, ForwardSound, BackSound DEF LoopStep

\* start() begins within the list it resolved.
LEMMA LoopStartSound ==
  ASSUME NEW k, NEW c \in Sound(k), NEW row \in LoopRows, NEW i \in Nat,
         NEW present \in SUBSET Files, NEW t \in Nat
  PROVE  LoopStart(c, row, i, present, t) \in Sound(k)
<1> DEFINE r == Resolve(row, LoopInfo[row].order, present)
           d == [row |-> row, inShow |-> LoopInfo[row].inShow,
                 order |-> r.order, slides |-> r.slides, idx |-> i,
                 atEnd |-> FALSE, starved |-> FALSE, failed |-> {}, at |-> 0,
                 onAir |-> None, onAirFailed |-> FALSE, playedOut |-> FALSE,
                 armed |-> FALSE]
           up == [DropLoop(c) EXCEPT !.deck = d]
<1>1. CASE i \notin DOMAIN r.slides BY <1>1 DEF LoopStart
<1>2. CASE i \in DOMAIN r.slides
  <2>1. r.order \in Orders /\ r.slides \in Orders
    BY LoopsAssumption, ResolveType
  <2> HIDE DEF r
  <2>2. d \in LoopLive
    BY <1>2, <2>1, LoopsAssumption DEF LoopLive, LoopSession
  <2>3. LoopInfo[row].inShow \in BOOLEAN BY LoopsAssumption
  <2> HIDE DEF d
  <2>4. up \in Sound(k) /\ up.deck = d
    BY <2>2, DropLoopSound, Put, Parts DEF Channel
  <2> HIDE DEF up
  <2>5. ShowSlide(up, LoopInfo[row].inShow, t) \in Sound(k)
    BY <2>2, <2>3, <2>4, ShowSlideSound
  <2> QED BY <1>2, <2>5 DEF LoopStart, up, d, r
<1> QED BY <1>1, <1>2

\* goTo() refuses an index outside the list.
LEMMA LoopGoToSound ==
  ASSUME NEW k, NEW c \in Sound(k), NEW i \in Nat,
         NEW present \in SUBSET Files, NEW t \in Nat
  PROVE  LoopGoTo(c, i, present, t) \in Sound(k)
<1> DEFINE d == [c.deck EXCEPT !.failed = @ \ {c.deck.slides[i]}]
           e == [d EXCEPT !.starved = FALSE]
           retried == [c EXCEPT !.deck = d]
<1>1. CASE c.deck = None \/ i \notin DOMAIN c.deck.slides
  BY <1>1 DEF LoopGoTo
<1>2. CASE c.deck # None /\ i \in DOMAIN c.deck.slides
  <2>1. c.deck \in LoopLive BY <1>2, Parts
  <2>2. d \in LoopLive BY <2>1, LoopPut, LoopParts
  <2>3. d.slides = c.deck.slides BY <2>1, LoopParts DEF LoopSession
  <2> HIDE DEF d
  <2>4. e \in LoopLive BY <2>2, LoopPut
  <2>5. e.slides = c.deck.slides BY <2>2, <2>3, LoopParts DEF LoopSession
  <2>6. retried \in Sound(k) /\ retried.deck = d
    BY <2>2, Put, Parts DEF Channel
  <2> HIDE DEF e
  <2>7. [c EXCEPT !.deck = e] \in Sound(k) /\ [c EXCEPT !.deck = e].deck = e
    BY <2>4, Put, Parts DEF Channel
  <2>8. ShowIndex([c EXCEPT !.deck = e], i, t) \in Sound(k)
    BY <1>2, <2>4, <2>5, <2>7, ShowIndexSound
  <2>9. [retried EXCEPT !.deck.starved = FALSE] = [c EXCEPT !.deck = e]
    BY <2>6, Parts DEF Channel, e
  <2> HIDE DEF retried
  <2> QED BY <1>2, <2>6, <2>8, <2>9 DEF LoopGoTo, retried, d
<1> QED BY <1>1, <1>2

\* The hold timer of a media deck.
LEMMA LoopTimerSound ==
  ASSUME NEW k, NEW c \in Sound(k), c.deck # None,
         NEW present \in SUBSET Files, NEW t \in Nat
  PROVE  LoopTimer(c, present, t) \in Sound(k)
<1> DEFINE d == [c.deck EXCEPT !.armed = FALSE]
<1>1. d \in LoopLive BY Parts, LoopPut
<1> HIDE DEF d
<1>2. [c EXCEPT !.deck = d] \in Sound(k) /\ [c EXCEPT !.deck = d].deck = d
  BY <1>1, Put, Parts DEF Channel
<1>3. Forward([c EXCEPT !.deck = d], FALSE, present, t) \in Sound(k)
  BY <1>1, <1>2, ForwardSound
<1> QED BY <1>3 DEF LoopTimer, d

\* onFolderChange(): a starved deck starts again.
LEMMA LoopFolderChangeSound ==
  ASSUME NEW k, NEW c \in Sound(k), NEW present \in SUBSET Files, NEW t \in Nat
  PROVE  LoopFolderChange(c, present, t) \in Sound(k)
<1> DEFINE d == [c.deck EXCEPT !.failed = {}]
<1>1. CASE c.deck = None BY <1>1 DEF LoopFolderChange
<1>2. CASE c.deck # None
  <2>1. d \in LoopLive BY <1>2, Parts, LoopPut
  <2> HIDE DEF d
  <2>2. [c EXCEPT !.deck = d] \in Sound(k) /\ [c EXCEPT !.deck = d].deck = d
    BY <2>1, Put, Parts DEF Channel
  <2>3. RestartFromTop([c EXCEPT !.deck = d], present, t) \in Sound(k)
    BY <2>1, <2>2, RestartFromTopSound
  <2> QED BY <2>3 DEF LoopFolderChange, d
<1> QED BY <1>1, <1>2

\* A renderer's ended, playing and error reports to a media deck.
LEMMA LoopReportsSound ==
  ASSUME NEW k, NEW c \in Sound(k), NEW at,
         NEW present \in SUBSET Files, NEW t \in Nat
  PROVE  /\ LoopMediaEnded(c, at, present, t) \in Sound(k)
         /\ LoopMediaPlaying(c, at) \in Sound(k)
         /\ LoopMediaFailed(c, at, present, t) \in Sound(k)
<1> DEFINE d == [c.deck EXCEPT !.playedOut = TRUE]
           p == [c.deck EXCEPT !.playedOut = FALSE]
           f == [c.deck EXCEPT !.failed = @ \cup {Failing(c.deck)},
                               !.onAirFailed = TRUE]
<1>1. CASE c.deck = None
  BY <1>1 DEF LoopMediaEnded, LoopMediaPlaying, LoopMediaFailed, IsLoopTake
<1>2. CASE c.deck # None
  <2>1. c.deck \in LoopLive BY <1>2, Parts
  <2>2. Failing(c.deck) \in Files BY <2>1, LoopParts DEF Failing
  <2>3. d \in LoopLive /\ p \in LoopLive BY <2>1, LoopPut
  <2>4. f \in LoopLive BY <2>1, <2>2, LoopPut, LoopParts, ZenonT(40)
  <2> HIDE DEF d, p, f
  <2>5. /\ [c EXCEPT !.deck = d] \in Sound(k) /\ [c EXCEPT !.deck = d].deck = d
        /\ [c EXCEPT !.deck = p] \in Sound(k)
        /\ [c EXCEPT !.deck = f] \in Sound(k) /\ [c EXCEPT !.deck = f].deck = f
    BY <2>3, <2>4, Put, Parts DEF Channel
  <2>6. /\ Forward([c EXCEPT !.deck = d], FALSE, present, t) \in Sound(k)
        /\ Forward([c EXCEPT !.deck = f], FALSE, present, t) \in Sound(k)
    BY <2>3, <2>4, <2>5, ForwardSound
  <2> QED
    BY <2>5, <2>6 DEF LoopMediaEnded, LoopMediaPlaying, LoopMediaFailed, d, p, f
<1> QED BY <1>1, <1>2

\* The session promote() moves has its index within its list.
LEMMA PromotedLoopType ==
  ASSUME NEW k, NEW c \in Sound(k), c.deck # None, NEW present \in SUBSET Files
  PROVE  PromotedLoop(c, present) \in LoopLive \cup {None}
<1> DEFINE d == [c.deck EXCEPT !.starved = FALSE, !.at = 0, !.onAir = None,
                               !.armed = FALSE]
           here == Playable(d, d.slides, present)
           onward == {i \in here : i >= d.idx}
           r == Resolve(d.row, d.order, present)
           anew == Playable(d, r.slides, present)
           At(i) == [d EXCEPT !.idx = i, !.atEnd = d.atEnd /\ i = d.idx]
<1>1. d \in LoopLive BY Parts, LoopPut, ZenonT(40)
<1> HIDE DEF d
<1>2. /\ r.order \in Orders /\ r.slides \in Orders
      /\ d \in LoopSession /\ d.slides \in Orders
  BY <1>1, LoopParts, ResolveType
<1> HIDE DEF r
<1>3. /\ here \subseteq DOMAIN d.slides /\ here \in SUBSET Nat
      /\ anew \subseteq DOMAIN r.slides /\ anew \in SUBSET Nat
      /\ onward \subseteq here /\ onward \in SUBSET Nat
  BY <1>2, PlayableType
<1> HIDE DEF here, anew
<1>4. ASSUME NEW i \in DOMAIN d.slides PROVE At(i) \in LoopLive
  BY <1>1, <1>4, LoopPut
<1>5. ASSUME NEW i \in DOMAIN r.slides
      PROVE  [At(i) EXCEPT !.order = r.order, !.slides = r.slides] \in LoopLive
  <2> DEFINE e == [d EXCEPT !.atEnd = d.atEnd /\ i = d.idx]
  <2>1. e \in LoopLive BY <1>1, LoopPut
  <2> HIDE DEF e
  <2>2. [e EXCEPT !.order = r.order, !.slides = r.slides, !.idx = i] \in LoopLive
    BY <1>2, <1>5, <2>1, LoopPut
  <2>3. [At(i) EXCEPT !.order = r.order, !.slides = r.slides]
          = [e EXCEPT !.order = r.order, !.slides = r.slides, !.idx = i]
    BY <1>2 DEF LoopSession, e
  <2> QED BY <2>2, <2>3
<1> HIDE DEF At
<1>6. onward # {} => At(Min(onward)) \in LoopLive BY <1>3, <1>4, MinOfNat
<1>7. here # {} => At(Min(here)) \in LoopLive BY <1>3, <1>4, MinOfNat
<1>8. anew # {} => [At(Min(anew)) EXCEPT !.order = r.order, !.slides = r.slides]
                     \in LoopLive
  BY <1>3, <1>5, MinOfNat
<1> HIDE DEF onward
<1>9. PromotedLoop(c, present) =
        CASE onward # {} -> At(Min(onward))
          [] onward = {} /\ here # {} -> At(Min(here))
          [] here = {} /\ anew # {} ->
               [At(Min(anew)) EXCEPT !.order = r.order, !.slides = r.slides]
          [] OTHER -> None
  BY DEF PromotedLoop, onward, here, anew, r, d, At
<1>10. onward # {} => here # {} BY <1>3
<1> QED BY <1>6, <1>7, <1>8, <1>9, <1>10

\* mediaDeckSession.promote(): both channels stay sound.
LEMMA LoopPromoteSound ==
  ASSUME NEW j, NEW from \in Sound(j), NEW k, NEW to \in Sound(k),
         NEW present \in SUBSET Files, NEW t \in Nat
  PROVE  /\ LoopPromote(from, to, present, t)[1] \in Sound(j)
         /\ LoopPromote(from, to, present, t)[2] \in Sound(k)
<1> DEFINE d == PromotedLoop(from, present)
           up == [DropLoop(to) EXCEPT !.deck = d]
<1>1. CASE from.deck = None \/ d = None
  BY <1>1 DEF LoopPromote
<1>2. CASE from.deck # None /\ d # None
  <2>1. d \in LoopLive BY <1>2, PromotedLoopType
  <2> HIDE DEF d
  <2>2. up \in Sound(k) /\ up.deck = d
    BY <2>1, DropLoopSound, Put, Parts DEF Channel
  <2>3. d.inShow \in BOOLEAN BY <2>1, LoopParts
  <2> HIDE DEF up
  <2>4. ShowSlide(up, d.inShow, t) \in Sound(k)
    BY <2>1, <2>2, <2>3, ShowSlideSound
  <2>5. LoopPromote(from, to, present, t) = <<LoopEnd(from), ShowSlide(up, d.inShow, t)>>
    BY <1>2 DEF LoopPromote, up, d
  <2> QED BY <2>4, <2>5, LoopEndSound
<1> QED BY <1>1, <1>2

----------------------------------------------------------------------------
(***************************************************************************)
(* GraphicsSlot: what every session and take goes through.                 *)
(***************************************************************************)
LEMMA CancelAutoOutSound ==
  ASSUME NEW k, NEW c \in Sound(k)
  PROVE  CancelAutoOut(c) \in Sound(k) /\ CancelAutoOut(c).st = c.st
BY Put, Parts DEF CancelAutoOut, Channel

\* A graphic going out has its sweep set by the same step.
LEMMA OutSound ==
  ASSUME NEW k, NEW c \in Sound(k), c.st.active # None
  PROVE  Out(c) \in Sound(k)
<1> DEFINE g == [c.st.active EXCEPT !.phase = "out"]
           w == c.sweeps \cup {c.st.active.at}
           swept == [c EXCEPT !.sweeps = w]
<1>1. c.st.active \in Graphic /\ c.st.active \in Airable(k)
  BY StParts DEF Airable
<1>2. g \in Airable(k) /\ g.at \in w BY <1>1 DEF Airable, Graphic
<1>3. w \in SUBSET Nat BY <1>1, Parts DEF Graphic
<1> HIDE DEF g, w
<1>4. swept \in Sound(k) /\ swept.sweeps = w BY <1>3, Put, Parts DEF Channel, w
<1>5. [swept EXCEPT !.st.active = g] \in Sound(k)
  <2>1. g # None => (g.phase = "out" => g.at \in swept.sweeps) BY <1>2, <1>4
  <2> HIDE DEF swept
  <2> QED BY <1>2, <1>4, <2>1, StPut
<1>6. [swept EXCEPT !.st.active = g]
        = [c EXCEPT !.st.active = g, !.sweeps = w]
  BY Parts DEF Channel
<1> QED BY <1>5, <1>6, EmitSound DEF Out, g, w

\* clearInternal(): the blank of songs and slides.
LEMMA ClearInternalSound ==
  ASSUME NEW k, NEW c \in Sound(k) PROVE ClearInternal(c) \in Sound(k)
<1> DEFINE unowned == [CancelAutoOut(c) EXCEPT !.source = None]
<1>1. unowned \in Sound(k) /\ unowned.st = c.st
  BY CancelAutoOutSound, Put, Parts DEF Channel
<1> HIDE DEF unowned
<1> QED BY <1>1, OutSound DEF ClearInternal, unowned

\* Dropping queues and live scripture touches only their own fields.
LEMMA DropsSound ==
  ASSUME NEW k, NEW c \in Sound(k)
  PROVE  /\ DropSongQueue(c) \in Sound(k)
         /\ DropScriptureQueue(c) \in Sound(k)
         /\ DropScriptureLive(c) \in Sound(k)
         /\ DropScripture(c) \in Sound(k)
         /\ TearDownSong(c) \in Sound(k)
BY Put, StPut DEF DropSongQueue, DropScriptureQueue, DropScriptureLive,
                  DropScripture, TearDownSong

\* releaseMedia() clears only a slide's own media.
LEMMA ReleaseMediaSound ==
  ASSUME NEW k, NEW c \in Sound(k), NEW row
  PROVE  ReleaseMedia(c, row) \in Sound(k)
BY MediaClearSound DEF ReleaseMedia

\* slidesSession.dropAll() and the summary under it.
LEMMA SlidesDropAllSound ==
  ASSUME NEW k, NEW c \in Sound(k) PROVE SlidesDropAll(c) \in Sound(k)
BY Put, ReleaseMediaSound, ShowLoopSummarySound DEF SlidesDropAll

\* clear() once the song session is gone.
LEMMA ClearSlotSound ==
  ASSUME NEW k, NEW c \in Sound(k), NEW keep \in BOOLEAN
  PROVE  ClearSlot(c, keep) \in Sound(k)
<1>1. SlidesDropAll(DropScriptureLive(c)) \in Sound(k)
  BY DropsSound, SlidesDropAllSound
<1>2. DropSongQueue(DropScriptureQueue(SlidesDropAll(DropScriptureLive(c))))
        \in Sound(k)
  BY <1>1, DropsSound
<1> QED BY <1>1, <1>2, ClearInternalSound, EmitSound DEF ClearSlot

\* songSession.end() of a live song.
LEMMA EndLiveSongSound ==
  ASSUME NEW k, NEW c \in Sound(k) PROVE EndLiveSong(c) \in Sound(k)
BY DropsSound, ClearSlotSound, EmitSound DEF EndLiveSong

\* clear(), the panic clear included.
LEMMA ClearSound ==
  ASSUME NEW k, NEW c \in Sound(k), NEW keep \in BOOLEAN
  PROVE  Clear(c, keep) \in Sound(k)
BY EndLiveSongSound, ClearSlotSound DEF Clear

\* A graphic that passed the draft gate may be mounted.
LEMMA MountSound ==
  ASSUME NEW k, NEW c \in Sound(k), NEW tpl \in Templates,
         k # Preview => tpl \notin Drafts,
         NEW ctx \in Contexts, NEW shows \in Text, NEW t \in Nat
  PROVE  Mount(c, tpl, ctx, shows, t) \in Sound(k)
<1> DEFINE g == [tpl |-> tpl, at |-> t, phase |-> "in", ctx |-> ctx,
                 shows |-> shows]
<1>1. g \in Airable(k) /\ g.phase = "in" BY DEF Airable, Graphic
<1> HIDE DEF g
<1>2. [CancelAutoOut(c) EXCEPT !.st.active = g] \in Sound(k)
  BY <1>1, CancelAutoOutSound, StPut
<1> QED BY <1>2 DEF Mount, g

\* What a take from outside the sessions puts up.
TakePick == [tpl : Templates, ctx : Contexts, shows : Text,
             row : Rows \cup {None}, scr : ScriptureSession \cup {None},
             scrQ : ScriptureRows \cup {None}]

\* take() refuses drafts before it changes anything.
LEMMA TakeSound ==
  ASSUME NEW k, NEW c \in Sound(k), NEW m \in TakePick, NEW t \in Nat
  PROVE  Take(c, m, t) \in Sound(k)
<1> DEFINE free == SlidesDropAll(DropSongQueue(TearDownSong(c)))
           up == Mount(DropScripture(free), m.tpl, m.ctx, m.shows, t)
           row == IF m.row = None THEN c.st.liveRow ELSE m.row
           reads == IF m.scr = None /\ m.tpl \in AutoOut
                      THEN up.lookups \cup {[tpl |-> m.tpl, at |-> t]}
                      ELSE up.lookups
           aired == [up EXCEPT !.st.scr = m.scr, !.st.scrQ = m.scrQ,
                       !.source = m.row, !.st.liveRow = row, !.lookups = reads]
<1>1. CASE RefusesDraft(c, m.tpl) BY <1>1 DEF Take
<1>2. CASE ~RefusesDraft(c, m.tpl)
  <2>1. k # Preview => m.tpl \notin Drafts BY <1>2, Parts DEF RefusesDraft
  <2>2. free \in Sound(k) BY DropsSound, SlidesDropAllSound
  <2> HIDE DEF free
  <2>3. up \in Sound(k) BY <2>1, <2>2, DropsSound, MountSound DEF TakePick
  <2> HIDE DEF up
  <2>4. row \in Rows \cup {None} BY StParts DEF TakePick
  <2>5. reads \in SUBSET TakeRef BY <2>3, Parts DEF TakePick, TakeRef
  <2> HIDE DEF row, reads
  <2>6. aired \in Sound(k) BY <2>3, <2>4, <2>5, Put, StPut DEF TakePick
  <2>7. Take(c, m, t) = Emit(aired)
    BY <1>2 DEF Take, up, free, row, reads
  <2> HIDE DEF aired
  <2> QED BY <2>6, <2>7, EmitSound
<1> QED BY <1>1, <1>2

\* What a graphic says is a text.
LEMMA SaysType ==
  ASSUME NEW row \in Rows \cup {None}, NEW sec \in Nat, NEW slide \in Nat
  PROVE  Says(row, sec, slide) \in Text
BY DEF Says, Text

\* Takes of graphics, intros and outros.
LEMMA TakeGraphicSound ==
  ASSUME NEW k, NEW c \in Sound(k), NEW tpl \in Templates,
         NEW row \in Rows \cup {None}, NEW ctx \in Contexts, NEW t \in Nat
  PROVE  TakeGraphic(c, tpl, row, ctx, t) \in Sound(k)
<1> DEFINE m == [tpl |-> tpl, ctx |-> ctx, shows |-> Says(row, 0, 0),
                 row |-> row, scr |-> None, scrQ |-> None]
<1>1. m \in TakePick BY SaysType DEF TakePick
<1> HIDE DEF m
<1> QED BY <1>1, TakeSound DEF TakeGraphic, m

\* takeInternal() passes the same gate.
LEMMA TakeInternalSound ==
  ASSUME NEW k, NEW c \in Sound(k), NEW tpl \in Templates, NEW shows \in Text,
         NEW t \in Nat
  PROVE  TakeInternal(c, tpl, shows, t) \in Sound(k)
<1>1. CASE RefusesDraft(c, tpl) BY <1>1 DEF TakeInternal
<1>2. CASE ~RefusesDraft(c, tpl)
  <2>1. k # Preview => tpl \notin Drafts BY <1>2, Parts DEF RefusesDraft
  <2>2. Mount(DropScripture(c), tpl, "none", shows, t) \in Sound(k)
    BY <2>1, DropsSound, MountSound DEF Contexts
  <2> QED BY <1>2, <2>2, EmitSound DEF TakeInternal
<1> QED BY <1>1, <1>2

\* update() changes fields of the graphic and not its phase.
LEMMA UpdateSound ==
  ASSUME NEW k, NEW c \in Sound(k), NEW shows \in Text
  PROVE  Update(c, shows) \in Sound(k)
<1> DEFINE g == [c.st.active EXCEPT !.shows = shows]
<1>1. CASE c.st.active = None BY <1>1 DEF Update
<1>2. CASE c.st.active # None
  <2>1. c.st.active \in Airable(k) BY <1>2, StParts
  <2>2. g \in Airable(k) /\ g.phase = c.st.active.phase /\ g.at = c.st.active.at
    BY <2>1 DEF Airable, Graphic
  <2> HIDE DEF g
  <2>3. [c EXCEPT !.st.active = g] \in Sound(k)
    BY <1>2, <2>2, Parts, StPut DEF Swept
  <2> QED BY <1>2, <2>3, EmitSound DEF Update, g
<1> QED BY <1>1, <1>2

\* An operator's live edit of the fields.
LEMMA EditFieldsSound ==
  ASSUME NEW k, NEW c \in Sound(k) PROVE EditFields(c) \in Sound(k)
<1>1. c.st.active # None =>
        [c.st.active.shows EXCEPT !.edited = TRUE] \in Text
  BY StParts DEF Airable, Graphic, Text
<1> QED BY <1>1, UpdateSound DEF EditFields

\* The auto-out's template read and its timer.
LEMMA AutoOutSound ==
  ASSUME NEW k, NEW c \in Sound(k)
  PROVE  /\ \A ref \in TakeRef : AutoOutAnswer(c, ref) \in Sound(k)
         /\ AutoOutFires(c) \in Sound(k)
<1>1. ASSUME NEW ref \in TakeRef PROVE AutoOutAnswer(c, ref) \in Sound(k)
  <2>1. c.lookups \ {ref} \in SUBSET TakeRef BY Parts
  <2> QED BY <2>1, Put DEF AutoOutAnswer
<1>2. AutoOutFires(c) \in Sound(k)
  BY CancelAutoOutSound, ClearSound DEF AutoOutFires
<1> QED BY <1>1, <1>2

\* A sweep removes the graphic it was set for, and itself.
LEMMA SweepSound ==
  ASSUME NEW k, NEW c \in Sound(k), NEW at PROVE Sweep(c, at) \in Sound(k)
<1> DEFINE w == c.sweeps \ {at}
           gone == [c EXCEPT !.st.active = None]
<1>1. w \in SUBSET Nat BY Parts
<1>2. CASE c.st.active # None /\ c.st.active.phase = "out" /\ c.st.active.at = at
  <2>1. gone \in Sound(k) BY StPut
  <2>2. gone.st.active = None BY Parts DEF Channel, State
  <2>3. gone.sweeps = c.sweeps BY Parts DEF Channel
  <2>4. [gone EXCEPT !.sweeps = w] = [c EXCEPT !.sweeps = w, !.st.active = None]
    BY Parts DEF Channel
  <2> HIDE DEF gone
  <2>5. [gone EXCEPT !.sweeps = w] \in Channel BY <2>1, <1>1, Parts, ChannelPut
  <2> HIDE DEF w
  <2>6. [gone EXCEPT !.sweeps = w] \in Sound(k)
    BY <2>1, <2>2, <2>5, Parts DEF Sound, Swept, Channel
  <2>7. [[c EXCEPT !.sweeps = w] EXCEPT !.st.active = None]
          = [gone EXCEPT !.sweeps = w]
    BY <2>4
  <2> QED BY <1>2, <2>6, <2>7, EmitSound DEF Sweep, w
<1>3. CASE c.st.active = None \/ c.st.active.phase # "out" \/ c.st.active.at # at
  <2>1. [c EXCEPT !.sweeps = w] \in Channel BY <1>1, Parts, ChannelPut
  <2>2. c.st.active # None => (c.st.active.phase = "out" => c.st.active.at \in w)
    BY <1>3, Parts DEF Swept
  <2> HIDE DEF w
  <2>3. [c EXCEPT !.sweeps = w] \in Sound(k)
    BY <2>1, <2>2, Parts DEF Sound, Swept, Channel
  <2> QED BY <1>3, <2>3 DEF Sweep, w
<1> QED BY <1>2, <1>3

----------------------------------------------------------------------------
(***************************************************************************)
(* songSession.ts.                                                         *)
(***************************************************************************)
LEMMA SongParts ==
  ASSUME NEW row \in SongRows
  PROVE  /\ row \in Rows /\ SongInfo[row].song \in Songs
         /\ SongInfo[row].lyric \in Templates
         /\ SongInfo[row].intro \in Templates
         /\ SongInfo[row].outro \in Templates
         /\ SongInfo[row].arr \in Seq(Sections)
         /\ SongInfo[row].trust \in BOOLEAN
BY SongsAssumption DEF Rows

\* A fresh song session has the type of one.
LEMMA NewSongType ==
  ASSUME NEW row \in SongRows, NEW arr \in Seq(Sections), NEW cur \in Cursor,
         NEW trust \in BOOLEAN
  PROVE  NewSong(row, arr, cur, trust) \in SongSession
BY DEF NewSong, SongSession

\* Updates of a song session that keep it one.
LEMMA SongPut ==
  ASSUME NEW s \in SongSession
  PROVE  /\ \A x \in Cursor : [s EXCEPT !.cur = x] \in SongSession
         /\ \A x \in Seq(Sections) : [s EXCEPT !.arr = x] \in SongSession
         /\ \A x \in BOOLEAN : [s EXCEPT !.blanked = x] \in SongSession
         /\ \A x \in BOOLEAN : [s EXCEPT !.trust = x] \in SongSession
         /\ s.row \in SongRows /\ s.arr \in Seq(Sections) /\ s.cur \in Cursor
         /\ s.blanked \in BOOLEAN /\ s.trust \in BOOLEAN
         /\ Len(s.arr) \in Nat /\ DOMAIN s.arr \subseteq Nat
BY DEF SongSession

\* songSession's render(): blank, nothing, update or take.
LEMMA RenderSongSound ==
  ASSUME NEW k, NEW c \in Sound(k), c.song \in SongSession, NEW force \in BOOLEAN,
         NEW t \in Nat
  PROVE  RenderSong(c, force, t) \in Sound(k)
<1> DEFINE s == c.song
           lyric == SongInfo[s.row].lyric
           text == Says(s.row, s.cur.sec, s.cur.slide)
           told == Emit([c EXCEPT !.st.song = s])
<1>1. lyric \in Templates BY SongPut, SongParts
<1>2. text \in Text BY SongPut, SongParts, SaysType DEF Cursor
<1>3. told \in Sound(k) BY StPut, EmitSound
<1> HIDE DEF told, text, lyric
<1>4. /\ ClearInternal(told) \in Sound(k)
      /\ Update(told, text) \in Sound(k)
      /\ TakeInternal(told, lyric, text, t) \in Sound(k)
  BY <1>1, <1>2, <1>3, ClearInternalSound, UpdateSound, TakeInternalSound
<1> QED BY <1>3, <1>4 DEF RenderSong, told, text, lyric

\* songSession.start().
LEMMA SongStartSound ==
  ASSUME NEW k, NEW c \in Sound(k), NEW row \in SongRows,
         NEW arr \in Seq(Sections), NEW cur \in Cursor, NEW t \in Nat
  PROVE  SongStart(c, row, arr, cur, t) \in Sound(k)
<1> DEFINE s == NewSong(row, arr, cur, SongInfo[row].trust)
           free == SlidesDropAll(DropSongQueue(c))
           up == [free EXCEPT !.song = s, !.heard = Len(arr)]
<1>1. s \in SongSession BY SongParts, NewSongType
<1>2. free \in Sound(k) BY DropsSound, SlidesDropAllSound
<1> HIDE DEF s, free
<1>3. Len(arr) \in Nat OBVIOUS
<1>4. up \in Sound(k) /\ up.song = s
  <2>1. up \in Sound(k) BY <1>1, <1>2, <1>3, Put
  <2>2. free \in Channel BY <1>2, Parts
  <2> QED BY <2>1, <2>2 DEF Channel
<1> HIDE DEF up
<1>5. RenderSong(up, TRUE, t) \in Sound(k) BY <1>1, <1>4, RenderSongSound
<1> QED BY <1>5 DEF SongStart, up, s, free

\* The first slide is a cursor.
LEMMA FirstSlideType == FirstSlide \in Cursor
BY DEF FirstSlide, Cursor

\* The song_take message.
LEMMA SongTakeSound ==
  ASSUME NEW k, NEW c \in Sound(k), NEW row \in SongRows, NEW t \in Nat
  PROVE  SongTake(c, row, t) \in Sound(k)
BY SongParts, FirstSlideType, SongStartSound, SetLiveRowSound DEF SongTake

\* Moving the cursor of a live song.
LEMMA SongToSound ==
  ASSUME NEW k, NEW c \in Sound(k), c.song \in SongSession, NEW cur \in Cursor,
         NEW t \in Nat
  PROVE  SongTo(c, cur, t) \in Sound(k)
<1> DEFINE s == [c.song EXCEPT !.cur = cur]
<1>1. s \in SongSession BY SongPut
<1> HIDE DEF s
<1>2. [c EXCEPT !.song = s] \in Sound(k) /\ [c EXCEPT !.song = s].song = s
  BY <1>1, Put, Parts DEF Channel
<1>3. RenderSong([c EXCEPT !.song = s], TRUE, t) \in Sound(k)
  BY <1>1, <1>2, RenderSongSound
<1> QED BY <1>3 DEF SongTo, s

\* songSession.advance(), a queued song included.
LEMMA SongAdvanceSound ==
  ASSUME NEW k, NEW c \in Sound(k), NEW d \in {-1, 1}, NEW t \in Nat
  PROVE  SongAdvance(c, d, t) \in Sound(k)
<1> DEFINE next == StepCursor(SongInfo[c.song.row].song, c.song.arr, c.song.cur, d)
<1>1. c.song # None => c.song \in SongSession /\ next \in Cursor
  BY Parts, SongPut, SongParts, StepCursorType
<1>2. c.song # None => SongTo(c, next, t) \in Sound(k) BY <1>1, SongToSound
<1>3. c.songQ # None =>
        SongStart(c, c.songQ, SongInfo[c.songQ].arr, FirstSlide, t) \in Sound(k)
  BY Parts, SongParts, FirstSlideType, SongStartSound
<1> HIDE DEF next
<1> QED BY <1>2, <1>3 DEF SongAdvance, next

\* songSession.jump(), an appended section included.
LEMMA SongJumpSound ==
  ASSUME NEW k, NEW c \in Sound(k), NEW section \in Sections, NEW slide \in Nat,
         NEW t \in Nat
  PROVE  SongJump(c, section, slide, t) \in Sound(k)
<1> DEFINE row == IF c.song = None THEN c.songQ ELSE c.song.row
           arr == IF c.song = None THEN SongInfo[row].arr ELSE c.song.arr
           i == IF c.song = None THEN 0 ELSE c.song.cur.sec
           found == OccurrenceFor(arr, section, i)
           target == IF found = 0 THEN Append(arr, section) ELSE arr
           cur == [sec |-> IF found = 0 THEN Len(arr) + 1 ELSE found,
                   slide |-> slide]
           s == [c.song EXCEPT !.arr = target]
<1>1. CASE row = None BY <1>1 DEF SongJump
<1>2. CASE row # None
  <2>1. row \in SongRows /\ (c.song # None => c.song \in SongSession)
    BY <1>2, Parts, SongPut
  <2>2. arr \in Seq(Sections) /\ i \in Nat
    BY <2>1, SongParts, SongPut DEF Cursor
  <2> HIDE DEF arr, i
  <2>3. found \in Nat BY <2>2, OccurrenceForType
  <2> HIDE DEF found
  <2>4. target \in Seq(Sections) /\ Len(arr) \in Nat BY <2>2
  <2>5. cur \in Cursor BY <2>3, <2>4 DEF Cursor
  <2> HIDE DEF cur, target, row
  <2>6. SongStart(c, row, target, cur, t) \in Sound(k)
    BY <2>1, <2>4, <2>5, SongStartSound
  <2>7. c.song # None => SongTo([c EXCEPT !.song = s], cur, t) \in Sound(k)
    <3> SUFFICES ASSUME c.song # None
                 PROVE  SongTo([c EXCEPT !.song = s], cur, t) \in Sound(k)
      OBVIOUS
    <3>1. s \in SongSession BY <2>1, <2>4, SongPut
    <3> HIDE DEF s
    <3>2. [c EXCEPT !.song = s] \in Sound(k) /\ [c EXCEPT !.song = s].song = s
      BY <3>1, Put, Parts DEF Channel
    <3> QED BY <2>5, <3>1, <3>2, SongToSound
  <2>8. SongJump(c, section, slide, t) =
          CASE row = None -> c
            [] row # None /\ found = 0
                 /\ section \notin DOMAIN SlideCount[SongInfo[row].song] -> c
            [] OTHER -> IF c.song = None THEN SongStart(c, row, target, cur, t)
                        ELSE SongTo([c EXCEPT !.song.arr = target], cur, t)
    BY Zenon DEF SongJump, cur, target, row, found, arr, i
  <2>9. [c EXCEPT !.song.arr = target] = [c EXCEPT !.song = s] OBVIOUS
  <2> QED BY <1>2, <2>6, <2>7, <2>8, <2>9
<1> QED BY <1>1, <1>2

\* clearQueued().
LEMMA ClearQueuedSongSound ==
  ASSUME NEW k, NEW c \in Sound(k) PROVE ClearQueuedSong(c) \in Sound(k)
BY DropsSound, EmitSound DEF ClearQueuedSong

\* songSession.blank().
LEMMA SongBlankSound ==
  ASSUME NEW k, NEW c \in Sound(k), NEW t \in Nat
  PROVE  SongBlank(c, t) \in Sound(k)
<1> DEFINE s == [c.song EXCEPT !.blanked = ~@]
<1>1. CASE c.song = None BY <1>1, ClearQueuedSongSound DEF SongBlank
<1>2. CASE c.song # None
  <2>1. s \in SongSession BY <1>2, Parts, SongPut
  <2> HIDE DEF s
  <2>2. [c EXCEPT !.song = s] \in Sound(k) /\ [c EXCEPT !.song = s].song = s
    BY <2>1, Put, Parts DEF Channel
  <2>3. RenderSong([c EXCEPT !.song = s], FALSE, t) \in Sound(k)
    BY <2>1, <2>2, RenderSongSound
  <2> QED BY <1>2, <2>3 DEF SongBlank, s
<1> QED BY <1>1, <1>2

\* setTrust().
LEMMA SongTrustSound ==
  ASSUME NEW k, NEW c \in Sound(k), NEW trust \in BOOLEAN
  PROVE  SongTrust(c, trust) \in Sound(k)
<1>1. c.song # None => [c.song EXCEPT !.trust = trust] \in SongSession
  BY Parts, SongPut
<1> QED BY <1>1, Put, StPut, EmitSound DEF SongTrust

\* songSession.end(), of a live or a queued song.
LEMMA SongEndSound ==
  ASSUME NEW k, NEW c \in Sound(k) PROVE SongEnd(c) \in Sound(k)
BY ClearQueuedSongSound, EndLiveSongSound DEF SongEnd

\* take_song_sub: intro, outro and lyrics.
LEMMA SubTakesSound ==
  ASSUME NEW k, NEW c \in Sound(k), NEW row \in SongRows, NEW t \in Nat
  PROVE  /\ SongIntro(c, row, t) \in Sound(k)
         /\ SongOutro(c, row, t) \in Sound(k)
         /\ SongLyrics(c, row, t) \in Sound(k)
<1>1. /\ TakeGraphic(c, SongInfo[row].intro, row, "intro", t) \in Sound(k)
      /\ TakeGraphic(c, SongInfo[row].outro, row, "outro", t) \in Sound(k)
  BY SongParts, TakeGraphicSound DEF Contexts
<1>2. SongIntro(c, row, t) \in Sound(k)
  BY <1>1, Put, StPut, EmitSound DEF SongIntro
<1>3. SongStart(c, row, SongInfo[row].arr, FirstSlide, t) \in Sound(k)
  BY SongParts, FirstSlideType, SongStartSound
<1>4. SongLyrics(c, row, t) \in Sound(k)
  BY <1>3, SongParts, SongAdvanceSound, SetLiveRowSound DEF SongLyrics
<1> QED BY <1>1, <1>2, <1>4 DEF SongOutro

\* songSession.promoteTo(): both channels stay sound.
LEMMA SongPromoteSound ==
  ASSUME NEW j, NEW from \in Sound(j), NEW k, NEW to \in Sound(k),
         NEW row \in SongRows, NEW t \in Nat
  PROVE  /\ SongPromote(from, to, row, t)[1] \in Sound(j)
         /\ SongPromote(from, to, row, t)[2] \in Sound(k)
<1> DEFINE src == from.song
           reuse == src # None /\ SongInfo[src.row].song = SongInfo[row].song
           arr == IF reuse THEN src.arr ELSE SongInfo[row].arr
           cur == IF reuse THEN src.cur ELSE FirstSlide
           trust == IF reuse THEN src.trust ELSE SongInfo[row].trust
           s == NewSong(row, arr, cur, trust)
           free == DropSongQueue(to)
           up == [free EXCEPT !.song = s, !.heard = Len(arr)]
<1>1. arr \in Seq(Sections) /\ cur \in Cursor /\ trust \in BOOLEAN
  BY Parts, SongPut, SongParts, FirstSlideType
<1> HIDE DEF arr, cur, trust
<1>2. s \in SongSession /\ Len(arr) \in Nat BY <1>1, NewSongType
<1>3. free \in Sound(k) BY DropsSound
<1> HIDE DEF s, free
<1>4. up \in Sound(k) /\ up.song = s
  <2>1. up \in Sound(k) BY <1>2, <1>3, Put
  <2>2. free \in Channel BY <1>3, Parts
  <2> QED BY <2>1, <2>2 DEF Channel
<1> HIDE DEF up
<1> DEFINE aired == SetLiveRow(RenderSong(up, TRUE, t), row)
<1>5. aired \in Sound(k)
  BY <1>2, <1>4, SongParts, RenderSongSound, SetLiveRowSound
<1>6. SongPromote(from, to, row, t) = <<EndLiveSong(from), aired>>
  BY DEF SongPromote, up, free, s, arr, cur, trust
<1>7. EndLiveSong(from) \in Sound(j) BY EndLiveSongSound
<1> HIDE DEF aired
<1> QED BY <1>5, <1>6, <1>7

\* Slides the matcher proposes are cursors.
LEMMA MatchableType ==
  ASSUME NEW k, NEW c \in Sound(k), c.song # None
  PROVE  Matchable(c) \subseteq Cursor
<1> DEFINE song == SongInfo[c.song.row].song
           arr == SubSeq(c.song.arr, 1, c.heard)
<1>1. c.song \in SongSession /\ song \in Songs BY Parts, SongPut, SongParts
<1>2. DOMAIN arr \subseteq Nat BY <1>1, SongPut, Parts
<1> HIDE DEF song, arr
<1>3. \A d \in {-1, 1} : StepCursor(song, arr, c.song.cur, d) \in Cursor
  BY <1>1, <1>2, SongPut, StepCursorType
<1>4. \A i \in DOMAIN arr : [sec |-> i, slide |-> 1] \in Cursor
  BY <1>2 DEF Cursor
<1>5. c.song.cur \in Cursor BY <1>1, SongPut
<1> DEFINE near == {c.song.cur}
                     \cup {StepCursor(song, arr, c.song.cur, d) : d \in {-1, 1}}
           openings == {[sec |-> i, slide |-> 1] : i \in DOMAIN arr}
<1>6. near \subseteq Cursor BY <1>3, <1>5
<1>7. openings \subseteq Cursor BY <1>4
<1> HIDE DEF near, openings
<1>8. Matchable(c) = {p \in near \cup openings : OnSlide(song, arr, p)}
  BY DEF Matchable, song, arr, near, openings
<1> QED BY <1>6, <1>7, <1>8

\* processSttHypothesis() touches the match and the timer only.
LEMMA HypothesisSound ==
  ASSUME NEW k, NEW c \in Sound(k), NEW p \in Cursor \cup {None},
         NEW sure \in BOOLEAN
  PROVE  Hypothesis(c, p, sure) \in Sound(k)
BY Put DEF Hypothesis

\* The song auto-advance timer.
LEMMA SttFiresSound ==
  ASSUME NEW k, NEW c \in Sound(k), c.stt # None, NEW t \in Nat
  PROVE  SttFires(c, t) \in Sound(k)
<1> DEFINE fired == [c EXCEPT !.stt = None]
<1>1. fired \in Sound(k) /\ fired.song = c.song BY Put, Parts DEF Channel
<1>2. c.stt \in Cursor BY Parts
<1> HIDE DEF fired
<1>3. c.song # None => SongTo(fired, c.stt, t) \in Sound(k)
  BY <1>1, <1>2, Parts, SongToSound
<1> QED BY <1>1, <1>3 DEF SttFires, fired

----------------------------------------------------------------------------
(***************************************************************************)
(* scriptureSession.ts.                                                    *)
(***************************************************************************)
LEMMA ScriptureIntroSound ==
  ASSUME NEW k, NEW c \in Sound(k), NEW row \in ScriptureRows, NEW t \in Nat
  PROVE  ScriptureIntro(c, row, t) \in Sound(k)
<1> DEFINE m == [tpl |-> ScriptureInfo[row].intro, ctx |-> "scrIntro",
                 shows |-> Says(row, 0, 0), row |-> row,
                 scr |-> None, scrQ |-> row]
<1>1. m \in TakePick
  BY ScriptureAssumption, SaysType DEF TakePick, Contexts, Rows
<1> HIDE DEF m
<1>2. Take(c, m, t) \in Sound(k) BY <1>1, TakeSound
<1> QED BY <1>2, Put DEF ScriptureIntro, m

\* scriptureSession.takeSlide() refuses slides the row lacks.
LEMMA ScriptureSlideSound ==
  ASSUME NEW k, NEW c \in Sound(k), NEW row \in ScriptureRows, NEW i \in Int,
         NEW t \in Nat
  PROVE  ScriptureSlide(c, row, i, t) \in Sound(k)
<1> DEFINE session == [row |-> row, slide |-> i]
           m == [tpl |-> ScriptureInfo[row].tpl, ctx |-> "scrSlide",
                 shows |-> Says(row, 0, i), row |-> row,
                 scr |-> session, scrQ |-> None]
<1>1. CASE i \notin 1..ScriptureInfo[row].count BY <1>1 DEF ScriptureSlide
<1>2. CASE i \in 1..ScriptureInfo[row].count
  <2>1. i \in Nat BY <1>2, ScriptureAssumption
  <2>2. session \in ScriptureSession BY <2>1 DEF ScriptureSession
  <2> HIDE DEF session
  <2>3. m \in TakePick
    BY <2>1, <2>2, ScriptureAssumption, SaysType DEF TakePick, Contexts, Rows
  <2> HIDE DEF m
  <2>4. Take(c, m, t) \in Sound(k) BY <2>3, TakeSound
  <2> QED BY <1>2, <2>2, <2>4, Put DEF ScriptureSlide, m, session
<1> QED BY <1>1, <1>2

\* The other scripture commands, all by way of takeSlide() and clear().
LEMMA ScriptureStepsSound ==
  ASSUME NEW k, NEW c \in Sound(k), NEW t \in Nat
  PROVE  /\ \A d \in {-1, 1} : ScriptureAdvance(c, d, t) \in Sound(k)
         /\ \A i \in Nat : ScriptureGoTo(c, i, t) \in Sound(k)
         /\ ScriptureEnd(c) \in Sound(k)
<1>1. c.scr # None => c.scr.row \in ScriptureRows /\ c.scr.slide \in Nat
  BY Parts DEF ScriptureSession
<1>2. c.scrQ # None => c.scrQ \in ScriptureRows BY Parts
<1>3. ASSUME NEW d \in {-1, 1} PROVE ScriptureAdvance(c, d, t) \in Sound(k)
  <2>1. c.scr # None => c.scr.slide + d \in Int BY <1>1
  <2>2. c.scr # None =>
          ScriptureSlide(c, c.scr.row, c.scr.slide + d, t) \in Sound(k)
    BY <1>1, <2>1, ScriptureSlideSound
  <2>3. c.scrQ # None => ScriptureSlide(c, c.scrQ, 1, t) \in Sound(k)
    BY <1>2, ScriptureSlideSound
  <2> QED BY <2>2, <2>3 DEF ScriptureAdvance
<1>4. ASSUME NEW i \in Nat PROVE ScriptureGoTo(c, i, t) \in Sound(k)
  BY <1>1, <1>2, ScriptureSlideSound DEF ScriptureGoTo
<1>5. ScriptureEnd(c) \in Sound(k)
  BY ClearSound, DropsSound, EmitSound DEF ScriptureEnd
<1> QED BY <1>3, <1>4, <1>5

----------------------------------------------------------------------------
(***************************************************************************)
(* slidesSession.ts.                                                       *)
(***************************************************************************)
LEMMA DeckParts ==
  ASSUME NEW s \in DeckLive
  PROVE  /\ s \in SlidesSession /\ s.row \in DeckRows /\ s.row \in Rows
         /\ s.idx \in DOMAIN Slides(s.row) /\ s.idx \in Nat
         /\ DOMAIN Slides(s.row) = 1..Len(Slides(s.row))
         /\ Len(Slides(s.row)) \in Nat
         /\ Slides(s.row)[s.idx] \in DeckSlide
         /\ s.failed \in SUBSET Nat
<1>1. s \in SlidesSession /\ s.idx \in DOMAIN Slides(s.row) BY DEF DeckLive
<1>2. s.row \in DeckRows BY <1>1 DEF SlidesSession
<1>3. Slides(s.row) \in Seq(DeckSlide) BY <1>2, DecksAssumption DEF Slides
<1> QED BY <1>1, <1>2, <1>3 DEF SlidesSession, Rows

\* Updates of a live slides deck that keep it one.
LEMMA DeckPut ==
  ASSUME NEW s \in DeckLive
  PROVE  /\ \A x \in DOMAIN Slides(s.row) : [s EXCEPT !.idx = x] \in DeckLive
         /\ \A x \in BOOLEAN : [s EXCEPT !.atEnd = x] \in DeckLive
         /\ \A x \in BOOLEAN : [s EXCEPT !.blanked = x] \in DeckLive
         /\ \A x \in BOOLEAN : [s EXCEPT !.autoEnded = x] \in DeckLive
         /\ \A x \in BOOLEAN : [s EXCEPT !.armed = x] \in DeckLive
         /\ \A x \in BOOLEAN : [s EXCEPT !.playedOut = x] \in DeckLive
         /\ \A x \in Nat \cup {None} : [s EXCEPT !.mediaAt = x] \in DeckLive
         /\ \A x \in SUBSET Nat : [s EXCEPT !.failed = x] \in DeckLive
<1>1. DOMAIN Slides(s.row) \subseteq Nat BY DeckParts
<1> QED BY <1>1 DEF DeckLive, SlidesSession

\* The slide a live deck is on is one of its row's slides.
LEMMA SlideParts ==
  ASSUME NEW x \in DeckSlide
  PROVE  /\ x.kind \in {"graphic", "image", "video"} /\ x.tpl \in Templates
         /\ x.hold \in BOOLEAN /\ x.onEnd \in BOOLEAN
BY DEF DeckSlide

\* arm() (slides deck) changes the hold timer alone.
LEMMA ArmSlidesSound ==
  ASSUME NEW k, NEW c \in Sound(k), c.slides \in DeckLive
  PROVE  ArmSlides(c) \in Sound(k) /\ ArmSlides(c).slides \in DeckLive
<1> DEFINE b == /\ c.name # Preview
                /\ ~c.slides.blanked /\ ~c.slides.atEnd
                /\ ~AdvancesOnEnd(Airing(c)) /\ Airing(c).hold
           s == [c.slides EXCEPT !.armed = b]
<1>1. b \in BOOLEAN OBVIOUS
<1> HIDE DEF b
<1>2. s \in DeckLive BY <1>1, DeckPut
<1> HIDE DEF s
<1>3. [c EXCEPT !.slides = s] \in Sound(k) /\ [c EXCEPT !.slides = s].slides = s
  BY <1>2, Put, Parts DEF Channel
<1> QED BY <1>2, <1>3 DEF ArmSlides, b, s

\* setSlidesSessionSummary().
LEMMA PublishSlidesSound ==
  ASSUME NEW k, NEW c \in Sound(k), c.slides \in DeckLive
  PROVE  PublishSlides(c) \in Sound(k) /\ PublishSlides(c).slides = c.slides
<1>1. DeckSummary(c.slides) \in SlidesSummary BY DeckParts, SummaryTypes
<1> QED BY <1>1, StPut, Parts DEF PublishSlides, Channel

\* renderMedia(): a photo or video slide.
LEMMA RenderMediaSlideSound ==
  ASSUME NEW k, NEW c \in Sound(k), c.slides \in DeckLive,
         Airing(c).kind # "graphic", NEW t \in Nat
  PROVE  RenderMediaSlide(c, t) \in Sound(k)
<1> DEFINE s == c.slides
           bare == DropScripture(c)
           m == [row |-> s.row, item |-> s.idx, kind |-> Airing(c).kind,
                 loop |-> FALSE, endAction |-> "hold",
                 owner |-> <<"slides", s.row>>]
           taken == MediaTake(bare, m, FALSE, t)
           e == [taken.slides EXCEPT !.mediaAt = taken.st.media.at,
                                     !.playedOut = FALSE]
           noted == [taken EXCEPT !.slides = e]
<1>1. Airing(c).kind \in {"image", "video"} BY DeckParts, SlideParts DEF Airing
<1>2. m \in MediaPick BY <1>1, DeckParts DEF MediaPick
<1>3. bare \in Sound(k) /\ bare.slides = s
  <2>1. c \in Channel BY Parts
  <2>2. bare.slides = s BY <2>1 DEF DropScripture, Channel
  <2> QED BY <2>2, DropsSound
<1> HIDE DEF m, bare
<1>4. taken \in Sound(k) /\ taken.st.media \in Media /\ taken.slides = s
  BY <1>2, <1>3, MediaTakeSound
<1> HIDE DEF taken
<1>5. e \in DeckLive BY <1>4, DeckPut DEF Media
<1> HIDE DEF e
<1>6. noted \in Sound(k) BY <1>4, <1>5, Put
<1>7. RenderMediaSlide(c, t) =
        IF OnScreen(noted) THEN ClearInternal(noted) ELSE noted
  <2> DEFINE n == [taken EXCEPT !.slides.mediaAt = taken.st.media.at,
                                !.slides.playedOut = FALSE]
  <2>1. RenderMediaSlide(c, t) = IF OnScreen(n) THEN ClearInternal(n) ELSE n
    BY DEF RenderMediaSlide, taken, m, bare
  <2>2. n = noted BY DEF e
  <2> HIDE DEF n, noted
  <2> QED BY <2>1, <2>2
<1> HIDE DEF noted
<1> QED BY <1>6, <1>7, ClearInternalSound

\* slidesSession's render(): blank, media, update or take.
LEMMA RenderSlidesSound ==
  ASSUME NEW k, NEW c \in Sound(k), c.slides \in DeckLive, NEW force \in BOOLEAN,
         NEW t \in Nat
  PROVE  RenderSlides(c, force, t) \in Sound(k)
<1> DEFINE slide == Airing(c)
           text == Says(c.slides.row, 0, c.slides.idx)
           told == PublishSlides(c)
           free == ReleaseMedia(told, c.slides.row)
<1>1. slide.tpl \in Templates BY DeckParts, SlideParts DEF Airing
<1>2. text \in Text BY DeckParts, SaysType
<1>3. told \in Sound(k) /\ told.slides = c.slides BY PublishSlidesSound
<1>4. Airing(told) = slide BY <1>3 DEF Airing
<1> HIDE DEF told, text, slide
<1>5. free \in Sound(k) BY <1>3, ReleaseMediaSound
<1> HIDE DEF free
<1>6. /\ Emit(ClearInternal(free)) \in Sound(k)
      /\ Update(free, text) \in Sound(k)
      /\ TakeInternal(free, slide.tpl, text, t) \in Sound(k)
  BY <1>1, <1>2, <1>5, ClearInternalSound, EmitSound, UpdateSound,
     TakeInternalSound
<1>7. slide.kind # "graphic" => RenderMediaSlide(told, t) \in Sound(k)
  BY <1>3, <1>4, RenderMediaSlideSound
<1> QED BY <1>6, <1>7 DEF RenderSlides, told, text, slide, free

\* A session that starts at a slide of its row is within it.
LEMMA NewDeckLive ==
  ASSUME NEW row \in DeckRows, NEW i \in DOMAIN Slides(row), NEW atEnd \in BOOLEAN
  PROVE  NewDeck(row, i, atEnd) \in DeckLive
<1>1. Slides(row) \in Seq(DeckSlide) BY DecksAssumption DEF Slides
<1>2. i \in Nat BY <1>1
<1> QED BY <1>2 DEF NewDeck, DeckLive, SlidesSession

\* A deck's first render, and its row as live row.
LEMMA SlidesUpSound ==
  ASSUME NEW k, NEW c \in Sound(k), NEW deck \in DeckLive, NEW t \in Nat
  PROVE  SlidesUp(c, deck, t) \in Sound(k)
<1> DEFINE free == Replaced(c, Slides(deck.row)[deck.idx])
           up == [free EXCEPT !.slides = deck]
<1>1. free \in Sound(k) BY ReleaseMediaSound DEF Replaced
<1> HIDE DEF free
<1>2. up \in Sound(k) /\ up.slides = deck BY <1>1, Put, Parts DEF Channel
<1> HIDE DEF up
<1>3. ArmSlides(up) \in Sound(k) /\ ArmSlides(up).slides \in DeckLive
  BY <1>2, ArmSlidesSound
<1>4. RenderSlides(ArmSlides(up), TRUE, t) \in Sound(k)
  BY <1>3, RenderSlidesSound
<1>5. deck.row \in Rows BY DeckParts
<1> QED BY <1>4, <1>5, SetLiveRowSound DEF SlidesUp, up, free

\* slidesSession.start() refuses a slide the row lacks.
LEMMA SlidesStartSound ==
  ASSUME NEW k, NEW c \in Sound(k), NEW row \in DeckRows, NEW i \in Nat,
         NEW t \in Nat
  PROVE  SlidesStart(c, row, i, t) \in Sound(k)
<1> DEFINE noSong == IF c.song = None THEN c ELSE Emit(TearDownSong(c))
<1>1. noSong \in Sound(k) BY DropsSound, EmitSound
<1> HIDE DEF noSong
<1>2. ClearQueuedSong(noSong) \in Sound(k) BY <1>1, ClearQueuedSongSound
<1>3. i \in DOMAIN Slides(row) =>
        SlidesUp(ClearQueuedSong(noSong), NewDeck(row, i, FALSE), t) \in Sound(k)
  BY <1>2, NewDeckLive, SlidesUpSound
<1> QED BY <1>3 DEF SlidesStart, noSong

\* slidesSession.end().
LEMMA SlidesEndSound ==
  ASSUME NEW k, NEW c \in Sound(k) PROVE SlidesEnd(c) \in Sound(k)
<1> DEFINE gone == ShowLoopSummary([c EXCEPT !.slides = None])
           cleared == Clear(ReleaseMedia(gone, c.slides.row), FALSE)
<1>1. gone \in Sound(k) BY Put, ShowLoopSummarySound
<1> HIDE DEF gone
<1>2. cleared \in Sound(k) BY <1>1, ReleaseMediaSound, ClearSound
<1> HIDE DEF cleared
<1>3. Emit(cleared) \in Sound(k) BY <1>2, EmitSound
<1> QED BY <1>2, <1>3 DEF SlidesEnd, cleared, gone

\* Moving a live deck to slide i of its row.
LEMMA SlidesToSound ==
  ASSUME NEW k, NEW c \in Sound(k), c.slides \in DeckLive,
         NEW i \in DOMAIN Slides(c.slides.row), NEW t \in Nat
  PROVE  SlidesTo(c, i, t) \in Sound(k)
<1> DEFINE s == [c.slides EXCEPT !.idx = i, !.atEnd = FALSE,
                                 !.blanked = FALSE, !.autoEnded = FALSE]
           put == [c EXCEPT !.slides = s]
<1>1. s \in DeckLive BY DeckPut
<1>2. c.slides.blanked \in BOOLEAN BY DeckParts DEF SlidesSession
<1> HIDE DEF s
<1>3. put \in Sound(k) /\ put.slides = s BY <1>1, Put, Parts DEF Channel
<1> HIDE DEF put
<1>4. ArmSlides(put) \in Sound(k) /\ ArmSlides(put).slides \in DeckLive
  BY <1>1, <1>3, ArmSlidesSound
<1>5. RenderSlides(ArmSlides(put), c.slides.blanked, t) \in Sound(k)
  BY <1>2, <1>4, RenderSlidesSound
<1> QED BY <1>5 DEF SlidesTo, put, s

\* slidesSession.advance() stays within the row at both ends.
LEMMA SlidesAdvanceSound ==
  ASSUME NEW k, NEW c \in Sound(k), NEW d \in {-1, 1}, NEW t \in Nat
  PROVE  SlidesAdvance(c, d, t) \in Sound(k)
<1> DEFINE s == c.slides
           last == Len(Slides(s.row))
           e == [s EXCEPT !.atEnd = TRUE, !.autoEnded = FALSE, !.armed = FALSE]
           n == [s EXCEPT !.autoEnded = FALSE]
           ended == [c EXCEPT !.slides = e]
           back == IF s.idx > 1 THEN s.idx - 1 ELSE 1
<1>1. CASE c.slides = None BY <1>1 DEF SlidesAdvance
<1>2. CASE c.slides # None
  <2>1. s \in DeckLive BY <1>2, Parts
  <2>2. s.idx \in 1..last /\ last \in Nat /\ DOMAIN Slides(s.row) = 1..last
    BY <2>1, DeckParts
  <2>3. s.idx < last => SlidesTo(c, s.idx + 1, t) \in Sound(k)
    BY <2>1, <2>2, SlidesToSound
  <2>4. SlidesTo(c, 1, t) \in Sound(k) BY <2>1, <2>2, SlidesToSound
  <2>5. SlidesTo(c, back, t) \in Sound(k) BY <2>1, <2>2, SlidesToSound
  <2>6. e \in DeckLive /\ n \in DeckLive BY <2>1, DeckPut
  <2> HIDE DEF e, n
  <2>7. [c EXCEPT !.slides = n] \in Sound(k) BY <2>6, Put
  <2>8. ended \in Sound(k) /\ ended.slides = e BY <2>6, Put, Parts DEF Channel
  <2> HIDE DEF ended
  <2>9. Emit(PublishSlides(ended)) \in Sound(k)
    BY <2>6, <2>8, PublishSlidesSound, EmitSound
  <2>10. SlidesAdvance(c, d, t) =
           CASE d > 0 /\ s.idx < last -> SlidesTo(c, s.idx + 1, t)
             [] d > 0 /\ s.idx = last /\ DeckInfo[s.row].loop -> SlidesTo(c, 1, t)
             [] d > 0 /\ s.idx = last /\ ~DeckInfo[s.row].loop /\ ~s.atEnd ->
                  Emit(PublishSlides(ended))
             [] d > 0 /\ s.idx = last /\ ~DeckInfo[s.row].loop /\ s.atEnd ->
                  SlidesEnd(c)
             [] d < 0 /\ (s.idx > 1 \/ s.atEnd) -> SlidesTo(c, back, t)
             [] OTHER -> [c EXCEPT !.slides = n]
    BY <1>2 DEF SlidesAdvance, ended, e, n
  <2> HIDE DEF back, last
  <2> QED BY <2>3, <2>4, <2>5, <2>7, <2>9, <2>10, SlidesEndSound
<1> QED BY <1>1, <1>2

\* slidesSession.goTo() refuses a slide the row lacks.
LEMMA SlidesGoToSound ==
  ASSUME NEW k, NEW c \in Sound(k), NEW i \in Nat, NEW t \in Nat
  PROVE  SlidesGoTo(c, i, t) \in Sound(k)
<1> DEFINE s == [c.slides EXCEPT !.failed = @ \ {i}]
<1>1. CASE c.slides = None \/ i \notin DOMAIN Slides(c.slides.row)
  BY <1>1 DEF SlidesGoTo
<1>2. CASE c.slides # None /\ i \in DOMAIN Slides(c.slides.row)
  <2>1. c.slides \in DeckLive BY <1>2, Parts
  <2>2. s \in DeckLive /\ s.row = c.slides.row
    <3>1. s \in DeckLive BY <2>1, DeckPut, DeckParts
    <3>2. c.slides \in SlidesSession BY <2>1, DeckParts
    <3> QED BY <3>1, <3>2 DEF SlidesSession
  <2> HIDE DEF s
  <2>3. [c EXCEPT !.slides = s] \in Sound(k) /\ [c EXCEPT !.slides = s].slides = s
    BY <2>2, Put, Parts DEF Channel
  <2>4. SlidesTo([c EXCEPT !.slides = s], i, t) \in Sound(k)
    BY <1>2, <2>2, <2>3, SlidesToSound
  <2> QED BY <1>2, <2>4 DEF SlidesGoTo, s
<1> QED BY <1>1, <1>2

\* slidesSession.blank().
LEMMA SlidesBlankSound ==
  ASSUME NEW k, NEW c \in Sound(k), NEW t \in Nat
  PROVE  SlidesBlank(c, t) \in Sound(k)
<1> DEFINE s == [c.slides EXCEPT !.blanked = ~@]
           put == [c EXCEPT !.slides = s]
<1>1. CASE c.slides = None BY <1>1 DEF SlidesBlank
<1>2. CASE c.slides # None
  <2>1. s \in DeckLive BY <1>2, Parts, DeckPut
  <2> HIDE DEF s
  <2>2. put \in Sound(k) /\ put.slides = s BY <2>1, Put, Parts DEF Channel
  <2> HIDE DEF put
  <2>3. ArmSlides(put) \in Sound(k) /\ ArmSlides(put).slides \in DeckLive
    BY <2>1, <2>2, ArmSlidesSound
  <2>4. RenderSlides(ArmSlides(put), TRUE, t) \in Sound(k)
    BY <2>3, RenderSlidesSound
  <2> QED BY <1>2, <2>4 DEF SlidesBlank, put, s
<1> QED BY <1>1, <1>2

\* Auto-advance lands on a slide of the deck, whatever it skips.
LEMMA NextSlideInDeck ==
  ASSUME NEW s \in DeckLive, StepsAhead(s) # {}
  PROVE  ((s.idx - 1 + Min(StepsAhead(s))) % Len(Slides(s.row))) + 1
           \in DOMAIN Slides(s.row)
<1> DEFINE n == Len(Slides(s.row))
           j == s.idx - 1 + Min(StepsAhead(s))
<1>1. n \in Nat /\ s.idx \in 1..n /\ DOMAIN Slides(s.row) = 1..n
  BY DeckParts
<1>2. StepsAhead(s) \subseteq 1..n BY DEF StepsAhead
<1>3. Min(StepsAhead(s)) \in 1..n BY <1>1, <1>2, MinOfNat
<1>4. j \in Int /\ n \in Nat /\ n > 0 BY <1>1, <1>3
<1> HIDE DEF n, j
<1>5. j % n \in 0..(n - 1) BY <1>4
<1>6. (j % n) + 1 \in 1..n BY <1>4, <1>5
<1> QED BY <1>1, <1>6 DEF n, j

\* autoAdvance() wraps or stops within the row.
LEMMA SlidesAutoAdvanceSound ==
  ASSUME NEW k, NEW c \in Sound(k), c.slides \in DeckLive, NEW t \in Nat
  PROVE  SlidesAutoAdvance(c, t) \in Sound(k)
<1> DEFINE next == ((c.slides.idx - 1 + Min(StepsAhead(c.slides)))
                      % Len(Slides(c.slides.row))) + 1
           e == [c.slides EXCEPT !.atEnd = TRUE, !.autoEnded = TRUE,
                                 !.armed = FALSE]
           s == [c.slides EXCEPT !.idx = next]
           ended == [c EXCEPT !.slides = e]
           put == [c EXCEPT !.slides = s]
<1>1. e \in DeckLive BY DeckPut
<1> HIDE DEF e
<1>2. ended \in Sound(k) /\ ended.slides = e BY <1>1, Put, Parts DEF Channel
<1> HIDE DEF ended
<1>3. Emit(PublishSlides(ended)) \in Sound(k)
  BY <1>1, <1>2, PublishSlidesSound, EmitSound
<1>4. ASSUME StepsAhead(c.slides) # {}
      PROVE  RenderSlides(ArmSlides(put), FALSE, t) \in Sound(k)
  <2>1. next \in DOMAIN Slides(c.slides.row) BY <1>4, NextSlideInDeck
  <2> HIDE DEF next
  <2>2. s \in DeckLive BY <2>1, DeckPut
  <2> HIDE DEF s
  <2>3. put \in Sound(k) /\ put.slides = s BY <2>2, Put, Parts DEF Channel
  <2> HIDE DEF put
  <2>4. ArmSlides(put) \in Sound(k) /\ ArmSlides(put).slides \in DeckLive
    BY <2>2, <2>3, ArmSlidesSound
  <2> QED BY <2>4, RenderSlidesSound
<1> QED BY <1>3, <1>4 DEF SlidesAutoAdvance, ended, e

\* The hold timer of a slides deck.
LEMMA SlidesTimerSound ==
  ASSUME NEW k, NEW c \in Sound(k), c.slides # None, NEW t \in Nat
  PROVE  SlidesTimer(c, t) \in Sound(k)
<1> DEFINE s == [c.slides EXCEPT !.armed = FALSE]
<1>1. s \in DeckLive BY Parts, DeckPut
<1> HIDE DEF s
<1>2. [c EXCEPT !.slides = s] \in Sound(k) /\ [c EXCEPT !.slides = s].slides = s
  BY <1>1, Put, Parts DEF Channel
<1>3. SlidesAutoAdvance([c EXCEPT !.slides = s], t) \in Sound(k)
  BY <1>1, <1>2, SlidesAutoAdvanceSound
<1> QED BY <1>3 DEF SlidesTimer, s

\* A renderer's ended, playing and error reports to a slides deck.
LEMMA SlidesReportsSound ==
  ASSUME NEW k, NEW c \in Sound(k), NEW at, NEW t \in Nat
  PROVE  /\ SlidesMediaEnded(c, at, t) \in Sound(k)
         /\ SlidesMediaFailed(c, at, t) \in Sound(k)
         /\ SlidesMediaPlaying(c, at) \in Sound(k)
<1> DEFINE d == [c.slides EXCEPT !.playedOut = TRUE]
           p == [c.slides EXCEPT !.playedOut = FALSE]
           f == [c.slides EXCEPT !.playedOut = TRUE,
                                 !.failed = @ \cup {c.slides.idx}]
<1>1. CASE c.slides = None
  BY <1>1 DEF SlidesMediaEnded, SlidesMediaFailed, SlidesMediaPlaying, MovesOnEnd
<1>2. CASE c.slides # None
  <2>1. c.slides \in DeckLive BY <1>2, Parts
  <2>2. d \in DeckLive /\ p \in DeckLive BY <2>1, DeckPut
  <2>3. f \in DeckLive
    <3>1. d.failed = c.slides.failed BY <2>1, DeckParts DEF SlidesSession
    <3>2. c.slides.failed \cup {c.slides.idx} \in SUBSET Nat BY <2>1, DeckParts
    <3> QED BY <2>1, <2>2, <3>1, <3>2, DeckPut
  <2> HIDE DEF d, p, f
  <2>4. /\ [c EXCEPT !.slides = d] \in Sound(k)
        /\ [c EXCEPT !.slides = d].slides = d
        /\ [c EXCEPT !.slides = p] \in Sound(k)
        /\ [c EXCEPT !.slides = f] \in Sound(k)
        /\ [c EXCEPT !.slides = f].slides = f
    BY <2>2, <2>3, Put, Parts DEF Channel
  <2>5. /\ SlidesAutoAdvance([c EXCEPT !.slides = d], t) \in Sound(k)
        /\ SlidesAutoAdvance([c EXCEPT !.slides = f], t) \in Sound(k)
    BY <2>2, <2>3, <2>4, SlidesAutoAdvanceSound
  <2> QED BY <2>4, <2>5
          DEF SlidesMediaEnded, SlidesMediaFailed, SlidesMediaPlaying, d, p, f
<1> QED BY <1>1, <1>2

----------------------------------------------------------------------------
(***************************************************************************)
(* What spans both slots.                                                  *)
(***************************************************************************)
LEMMA SlidesPromoteSound ==
  ASSUME NEW j, NEW from \in Sound(j), from.slides # None,
         NEW k, NEW to \in Sound(k), NEW t \in Nat
  PROVE  /\ SlidesPromote(from, to, t)[1] \in Sound(j)
         /\ SlidesPromote(from, to, t)[2] \in Sound(k)
<1> DEFINE s == from.slides
           deck == NewDeck(s.row, s.idx, s.atEnd)
<1>1. s \in DeckLive BY Parts
<1>2. s.atEnd \in BOOLEAN BY <1>1, DeckParts DEF SlidesSession
<1>3. deck \in DeckLive BY <1>1, <1>2, DeckParts, NewDeckLive
<1> HIDE DEF deck
<1>4. SlidesUp(to, deck, t) \in Sound(k) BY <1>3, SlidesUpSound
<1>5. SlidesPromote(from, to, t) = <<SlidesEnd(from), SlidesUp(to, deck, t)>>
  BY DEF SlidesPromote, deck
<1>6. SlidesEnd(from) \in Sound(j) BY SlidesEndSound
<1> QED BY <1>4, <1>5, <1>6

\* takePvwToPgm()'s graphic passed the gate of its destination.
LEMMA PromoteGraphicSound ==
  ASSUME NEW j, NEW from \in Sound(j), from.st.active # None,
         NEW k, NEW to \in Sound(k), ~RefusesDraft(to, from.st.active.tpl),
         NEW t \in Nat
  PROVE  /\ PromoteGraphic(from, to, t)[1] \in Sound(j)
         /\ PromoteGraphic(from, to, t)[2] \in Sound(k)
<1> DEFINE g == from.st.active
           songQ == IF g.ctx = "intro" THEN from.songQ ELSE None
           scrQ == IF g.ctx = "scrIntro" THEN from.scrQ ELSE None
           queued == [CancelAutoOut(to) EXCEPT !.songQ = songQ, !.st.songQ = songQ]
           free == SlidesDropAll(DropScriptureLive(queued))
           h == [g EXCEPT !.phase = "in", !.at = t]
           row == IF from.source = None THEN free.st.liveRow ELSE from.source
           reads == IF g.tpl \in AutoOut
                      THEN free.lookups \cup {[tpl |-> g.tpl, at |-> t]}
                      ELSE free.lookups
           up == [free EXCEPT !.scrQ = scrQ, !.st.scrQ = scrQ, !.st.active = h,
                              !.st.liveRow = row, !.source = from.source,
                              !.lookups = reads]
           sent == IF songQ = None THEN from ELSE DropSongQueue(from)
           left == IF scrQ = None THEN sent ELSE DropScriptureQueue(sent)
<1>1. g \in Graphic /\ g.tpl \in Templates BY StParts DEF Airable, Graphic
<1>2. k # Preview => g.tpl \notin Drafts BY Parts DEF RefusesDraft
<1>3. h \in Airable(k) /\ h.phase = "in" BY <1>1, <1>2 DEF Airable, Graphic
<1>4. songQ \in SongRows \cup {None} /\ scrQ \in ScriptureRows \cup {None}
  BY Parts
<1> HIDE DEF songQ, scrQ, h
<1>5. queued \in Sound(k) BY <1>4, CancelAutoOutSound, Put, StPut
<1> HIDE DEF queued
<1>6. free \in Sound(k) BY <1>5, DropsSound, SlidesDropAllSound
<1> HIDE DEF free
<1>7. row \in Rows \cup {None} BY <1>6, Parts, StParts
<1>8. reads \in SUBSET TakeRef BY <1>1, <1>6, Parts DEF TakeRef
<1> HIDE DEF row, reads
<1>9. up \in Sound(k)
  <2>1. [free EXCEPT !.scrQ = scrQ, !.st.scrQ = scrQ] \in Sound(k)
    BY <1>4, <1>6, Put, StPut
  <2>2. [free EXCEPT !.scrQ = scrQ, !.st.scrQ = scrQ, !.st.active = h] \in Sound(k)
    BY <1>3, <2>1, StPut
  <2> QED BY <1>7, <1>8, <2>2, Parts, Put, StPut
<1> DEFINE cleared == Clear(left, FALSE)
<1>10. cleared \in Sound(j) BY DropsSound, ClearSound
<1>11. PromoteGraphic(from, to, t) = <<cleared, Emit(up)>>
  BY DEF PromoteGraphic, reads, row, h, free, queued, songQ, scrQ
<1> HIDE DEF up, cleared
<1>12. Emit(up) \in Sound(k) BY <1>9, EmitSound
<1> QED BY <1>10, <1>11, <1>12

\* promoteMedia(): a fresh media take on the destination.
LEMMA PromoteMediaSound ==
  ASSUME NEW j, NEW from \in Sound(j), from.st.media # None,
         NEW k, NEW to \in Sound(k), NEW t \in Nat
  PROVE  /\ PromoteMedia(from, to, t)[1] \in Sound(j)
         /\ PromoteMedia(from, to, t)[2] \in Sound(k)
<1> DEFINE m == from.st.media
           pick == [row |-> m.row, item |-> m.item, kind |-> m.kind,
                    loop |-> m.loop, endAction |-> m.endAction, owner |-> None]
           inShow == from.st.liveRow = m.row
           aired == MediaTake(to, pick, inShow, t)
<1>1. m \in Media BY StParts
<1>2. pick \in MediaPick BY <1>1 DEF MediaPick, Media
<1>3. inShow \in BOOLEAN OBVIOUS
<1> HIDE DEF pick, inShow
<1>4. aired \in Sound(k) BY <1>2, <1>3, MediaTakeSound
<1>5. MediaClear(from) \in Sound(j) BY MediaClearSound
<1>6. PromoteMedia(from, to, t) = <<MediaClear(from), aired>>
  BY DEF PromoteMedia, pick, inShow
<1> HIDE DEF aired
<1> QED BY <1>4, <1>5, <1>6

\* takePvwToPgm(): both channels stay sound.
LEMMA TakePvwToPgmSound ==
  ASSUME NEW j, NEW from \in Sound(j), NEW k, NEW to \in Sound(k),
         NEW present \in SUBSET Files, NEW t \in Nat
  PROVE  /\ TakePvwToPgm(from, to, present, t)[1] \in Sound(j)
         /\ TakePvwToPgm(from, to, present, t)[2] \in Sound(k)
<1> DEFINE moved == LoopPromote(from, to, present, t)
           cued == /\ from.deck = None
                   /\ from.st.media # None /\ ~OwnsMediaOn(from)
           pair == IF cued THEN PromoteMedia(moved[1], moved[2], t) ELSE moved
           src == pair[1]
           g == src.st.active
           deckUp == src.slides # None /\ (g # None \/ OwnsMediaOn(src))
           dest == EndLiveSong(pair[2])
<1>1. moved[1] \in Sound(j) /\ moved[2] \in Sound(k) BY LoopPromoteSound
<1>2. cued => moved[1].st.media # None BY DEF LoopPromote
<1> HIDE DEF moved
<1>3. pair[1] \in Sound(j) /\ pair[2] \in Sound(k)
  BY <1>1, <1>2, PromoteMediaSound
<1> HIDE DEF pair
<1>4. dest \in Sound(k) /\ dest.name = to.name /\ src \in Sound(j)
  BY <1>3, EndLiveSongSound, Parts
<1> HIDE DEF src, dest
<1>5. deckUp => /\ SlidesPromote(src, dest, t)[1] \in Sound(j)
                /\ SlidesPromote(src, dest, t)[2] \in Sound(k)
  BY <1>4, SlidesPromoteSound
<1>6. g # None /\ ~RefusesDraft(to, g.tpl) =>
        /\ PromoteGraphic(src, dest, t)[1] \in Sound(j)
        /\ PromoteGraphic(src, dest, t)[2] \in Sound(k)
  <2>1. RefusesDraft(dest, g.tpl) <=> RefusesDraft(to, g.tpl)
    BY <1>4 DEF RefusesDraft
  <2> QED BY <1>4, <2>1, PromoteGraphicSound
<1>7. TakePvwToPgm(from, to, present, t) =
        CASE g = None /\ ~deckUp -> pair
          [] g # None /\ RefusesDraft(to, g.tpl) -> pair
          [] deckUp /\ ~(g # None /\ RefusesDraft(to, g.tpl)) ->
               SlidesPromote(src, dest, t)
          [] OTHER -> PromoteGraphic(src, dest, t)
  BY DEF TakePvwToPgm, GateRefuses, src, dest, pair, moved
<1> HIDE DEF deckUp
<1> QED BY <1>3, <1>5, <1>6, <1>7

\* mediaStatus() and what it tells both kinds of deck.
LEMMA MediaStatusSound ==
  ASSUME NEW k, NEW c \in Sound(k), NEW at, NEW status \in Reports,
         NEW present \in SUBSET Files, NEW t \in Nat
  PROVE  MediaStatus(c, at, status, present, t) \in Sound(k)
<1> DEFINE m == c.st.media
           x == [m EXCEPT !.status = status]
           y == [m EXCEPT !.status = "playing", !.paused = FALSE]
           told == Emit([c EXCEPT !.st.media = x])
           looped == Emit([c EXCEPT !.st.media = y])
           ended == CASE m.loop -> looped
                      [] ~m.loop /\ m.endAction = "clear" -> MediaClear(c)
                      [] OTHER -> Emit([told EXCEPT !.st.media.paused = TRUE])
<1>1. CASE m = None \/ m.at # at BY <1>1 DEF MediaStatus
<1>2. CASE m # None /\ m.at = at
  <2>1. m \in Media BY <1>2, StParts
  <2>2. x \in Media /\ y \in Media BY <2>1 DEF Media, Reports
  <2>3. [x EXCEPT !.paused = TRUE] \in Media BY <2>2 DEF Media
  <2>4. told \in Sound(k) /\ told.st.media = x
    <3> DEFINE put == [c EXCEPT !.st.media = x]
    <3> HIDE DEF x
    <3>1. put \in Sound(k) BY <2>2, StPut
    <3>2. put.st.media = x
      <4>1. c \in Channel /\ c.st \in State BY Parts
      <4>2. [c.st EXCEPT !.media = x].media = x BY <4>1 DEF State
      <4>3. put.st = [c.st EXCEPT !.media = x] BY <4>1 DEF Channel
      <4> QED BY <4>2, <4>3
    <3>3. told = Emit(put) OBVIOUS
    <3> HIDE DEF put
    <3>4. Emit(put).st = put.st BY <3>1, Parts DEF Emit, Channel
    <3> HIDE DEF told
    <3> QED BY <3>1, <3>2, <3>3, <3>4, EmitSound
  <2>5. looped \in Sound(k)
    <3> HIDE DEF y
    <3> QED BY <2>2, StPut, EmitSound
  <2> HIDE DEF told, looped
  <2>6. Emit([told EXCEPT !.st.media.paused = TRUE]) \in Sound(k)
    BY <2>3, <2>4, StPut, EmitSound
  <2>7. ended \in Sound(k) BY <2>5, <2>6, MediaClearSound
  <2> HIDE DEF ended
  <2>8. SlidesMediaEnded(LoopMediaEnded(ended, at, present, t), at, t) \in Sound(k)
    BY <2>7, LoopReportsSound, SlidesReportsSound
  <2>9. SlidesMediaFailed(LoopMediaFailed(told, at, present, t), at, t) \in Sound(k)
    BY <2>4, LoopReportsSound, SlidesReportsSound
  <2>10. SlidesMediaPlaying(LoopMediaPlaying(told, at), at) \in Sound(k)
    BY <2>4, LoopReportsSound, SlidesReportsSound
  <2> QED BY <1>2, <2>8, <2>9, <2>10 DEF MediaStatus, ended, told, looped
<1> QED BY <1>1, <1>2

\* clear_all_channels, for one channel.
LEMMA ClearAllSound ==
  ASSUME NEW k, NEW c \in Sound(k), NEW cut \in BOOLEAN
  PROVE  ClearAll(c, cut) \in Sound(k)
BY ClearSound, DropLoopSound, MediaClearSound DEF ClearAll

----------------------------------------------------------------------------
(***************************************************************************)
(* The inductive invariant, and what follows from it.                      *)
(***************************************************************************)
IInv == /\ DOMAIN ch = Channels /\ ch = [k \in Channels |-> ch[k]]
        /\ \A k \in Channels : ch[k] \in Sound(k)
        /\ now \in Nat \ {0}
        /\ files \in SUBSET Files

\* Channels start sound.
LEMMA InitIInv == Init => IInv
BY InitSound, InputsAssumption DEF Init, IInv

\* An action that replaces one channel's record, or two, by sound ones.
LEMMA BecomeIInv ==
  ASSUME IInv, NEW k \in Channels, NEW c \in Sound(k), Become(k, c)
  PROVE  IInv'
BY DEF IInv, Become

\* A step that replaces two channels by sound records keeps all sound.
LEMMA BecomeBothIInv ==
  ASSUME IInv, NEW p \in Promotions, NEW pair,
         pair[1] \in Sound(p[1]), pair[2] \in Sound(p[2]), BecomeBoth(p, pair)
  PROVE  IInv'
<1>1. p[1] \in Channels /\ p[2] \in Channels /\ p[1] # p[2]
  BY InputsAssumption
<1> QED BY <1>1 DEF IInv, BecomeBoth

\* Each action of a client message keeps the invariant.
LEMMA ClientMessageIInv ==
  ASSUME IInv, NEW k \in Channels, ClientMessage(k)
  PROVE  IInv'
<1>c. /\ ch[k] \in Sound(k) /\ now \in Nat /\ files \in SUBSET Files
  BY DEF IInv
<1>1. CASE TakeOn(k)
  <2>1. \A g \in GraphicTakes : g.tpl \in Templates /\ g.row \in Rows \cup {None}
    BY InputsAssumption DEF Rows
  <2>2. \A g \in GraphicTakes :
          TakeGraphic(ch[k], g.tpl, g.row, "none", now) \in Sound(k)
    BY <1>c, <2>1, TakeGraphicSound DEF Contexts
  <2> QED BY <1>1, <2>2, BecomeIInv DEF TakeOn
<1>2. CASE ClearOn(k) BY <1>c, <1>2, ClearSound, BecomeIInv DEF ClearOn
<1>3. CASE UpdateOn(k) BY <1>c, <1>3, EditFieldsSound, BecomeIInv DEF UpdateOn
<1>4. CASE SongTakeOn(k)
  BY <1>c, <1>4, SongTakeSound, BecomeIInv DEF SongTakeOn
<1>5. CASE SongAdvanceOn(k)
  BY <1>c, <1>5, SongAdvanceSound, BecomeIInv DEF SongAdvanceOn
<1>6. CASE SongJumpOn(k)
  <2>1. \A i \in SlidePicks : i \in Nat BY InputsAssumption
  <2> QED BY <1>c, <1>6, <2>1, SongJumpSound, BecomeIInv DEF SongJumpOn
<1>7. CASE SongBlankOn(k)
  BY <1>c, <1>7, SongBlankSound, BecomeIInv DEF SongBlankOn
<1>8. CASE SongTrustOn(k)
  BY <1>c, <1>8, SongTrustSound, BecomeIInv DEF SongTrustOn
<1>9. CASE SongEndOn(k) BY <1>c, <1>9, SongEndSound, BecomeIInv DEF SongEndOn
<1>10. CASE SongIntroOn(k)
  BY <1>c, <1>10, SubTakesSound, BecomeIInv DEF SongIntroOn
<1>11. CASE SongOutroOn(k)
  BY <1>c, <1>11, SubTakesSound, BecomeIInv DEF SongOutroOn
<1>12. CASE SongLyricsOn(k)
  BY <1>c, <1>12, SubTakesSound, BecomeIInv DEF SongLyricsOn
<1>13. CASE ScriptureIntroOn(k)
  BY <1>c, <1>13, ScriptureIntroSound, BecomeIInv DEF ScriptureIntroOn
<1>14. CASE ScriptureSlideOn(k)
  <2>1. \A i \in SlidePicks : i \in Int BY InputsAssumption
  <2> QED BY <1>c, <1>14, <2>1, ScriptureSlideSound, BecomeIInv
          DEF ScriptureSlideOn
<1>15. CASE ScriptureAdvanceOn(k)
  BY <1>c, <1>15, ScriptureStepsSound, BecomeIInv DEF ScriptureAdvanceOn
<1>16. CASE ScriptureGoToOn(k)
  <2>1. \A i \in SlidePicks : i \in Nat BY InputsAssumption
  <2> QED BY <1>c, <1>16, <2>1, ScriptureStepsSound, BecomeIInv
          DEF ScriptureGoToOn
<1>17. CASE ScriptureEndOn(k)
  BY <1>c, <1>17, ScriptureStepsSound, BecomeIInv DEF ScriptureEndOn
<1>18. CASE SlidesTakeOn(k)
  <2>1. \A i \in SlidePicks : i \in Nat BY InputsAssumption
  <2>2. \A i \in SlidePicks, r \in DeckRows :
          SlidesStart(ch[k], r, i, now) \in Sound(k)
    BY <1>c, <2>1, SlidesStartSound
  <2>3. \A i \in SlidePicks, r \in LoopRows :
          LoopStart(ch[k], r, i, files, now) \in Sound(k)
    BY <1>c, <2>1, LoopStartSound
  <2> QED BY <1>18, <2>2, <2>3, BecomeIInv DEF SlidesTakeOn
<1>19. CASE SlidesAdvanceOn(k)
  <2>1. \A d \in {-1, 1} : /\ LoopStep(ch[k], d, files, now) \in Sound(k)
                           /\ SlidesAdvance(ch[k], d, now) \in Sound(k)
    BY <1>c, LoopStepSound, SlidesAdvanceSound
  <2> QED BY <1>19, <2>1, BecomeIInv DEF SlidesAdvanceOn
<1>20. CASE SlidesGoToOn(k)
  <2>1. \A i \in SlidePicks : i \in Nat BY InputsAssumption
  <2>2. \A i \in SlidePicks : /\ LoopGoTo(ch[k], i, files, now) \in Sound(k)
                              /\ SlidesGoTo(ch[k], i, now) \in Sound(k)
    BY <1>c, <2>1, LoopGoToSound, SlidesGoToSound
  <2> QED BY <1>20, <2>2, BecomeIInv DEF SlidesGoToOn
<1>21. CASE SlidesBlankOn(k)
  BY <1>c, <1>21, SlidesBlankSound, BecomeIInv DEF SlidesBlankOn
<1>22. CASE SlidesEndOn(k)
  BY <1>c, <1>22, LoopEndSound, SlidesEndSound, BecomeIInv DEF SlidesEndOn
<1>23. CASE MediaTakeOn(k)
  <2> DEFINE Pick(m) == [row |-> m.row, item |-> 0, kind |-> m.kind,
                         loop |-> m.loop, endAction |-> m.endAction,
                         owner |-> None]
  <2>1. \A m \in MediaTakes : Pick(m) \in MediaPick /\ m.inShow \in BOOLEAN
    BY InputsAssumption DEF MediaPick, Rows
  <2> HIDE DEF Pick
  <2>2. \A m \in MediaTakes :
          MediaTake(ch[k], Pick(m), m.inShow, now) \in Sound(k)
    BY <1>c, <2>1, MediaTakeSound
  <2> QED BY <1>23, <2>2, BecomeIInv DEF MediaTakeOn, Pick
<1>24. CASE MediaClearOn(k)
  BY <1>c, <1>24, MediaClearSound, BecomeIInv DEF MediaClearOn
<1>25. CASE MediaControlOn(k)
  BY <1>c, <1>25, MediaControlSound, BecomeIInv DEF MediaControlOn
<1>26. CASE MediaStatusOn(k)
  BY <1>c, <1>26, MediaStatusSound, BecomeIInv DEF MediaStatusOn
<1> QED BY <1>1, <1>2, <1>3, <1>4, <1>5, <1>6, <1>7, <1>8, <1>9, <1>10, <1>11,
           <1>12, <1>13, <1>14, <1>15, <1>16, <1>17, <1>18, <1>19, <1>20,
           <1>21, <1>22, <1>23, <1>24, <1>25, <1>26 DEF ClientMessage

\* So do the timers and template reads.
LEMMA InternalIInv ==
  ASSUME IInv, NEW k \in Channels, Internal(k)
  PROVE  IInv'
<1>c. /\ ch[k] \in Sound(k) /\ now \in Nat /\ files \in SUBSET Files
  BY DEF IInv
<1>1. CASE AutoOutLookup(k)
  <2>1. ch[k].lookups \in SUBSET TakeRef BY <1>c, Parts
  <2> QED BY <1>c, <1>1, <2>1, AutoOutSound, BecomeIInv DEF AutoOutLookup
<1>2. CASE AutoOutTimer(k)
  BY <1>c, <1>2, AutoOutSound, BecomeIInv DEF AutoOutTimer
<1>3. CASE SweepTimer(k) BY <1>c, <1>3, SweepSound, BecomeIInv DEF SweepTimer
<1>4. CASE SttTimer(k) BY <1>c, <1>4, SttFiresSound, BecomeIInv DEF SttTimer
<1>5. CASE DeckTimer(k)
  BY <1>c, <1>5, SlidesTimerSound, BecomeIInv DEF DeckTimer
<1>6. CASE MediaDeckTimer(k)
  BY <1>c, <1>6, LoopTimerSound, BecomeIInv DEF MediaDeckTimer
<1> QED BY <1>1, <1>2, <1>3, <1>4, <1>5, <1>6 DEF Internal

\* Every step keeps every channel sound.
LEMMA NextIInv == IInv /\ [Next]_vars => IInv'
<1> SUFFICES ASSUME IInv, [Next]_vars PROVE IInv' OBVIOUS
<1>c. /\ \A k \in Channels : ch[k] \in Sound(k)
      /\ now \in Nat /\ files \in SUBSET Files
  BY DEF IInv
<1>p. \A p \in Promotions : p[1] \in Channels /\ p[2] \in Channels
  BY InputsAssumption
<1>1. CASE \E k \in Channels : ClientMessage(k) \/ Internal(k)
  BY <1>1, ClientMessageIInv, InternalIInv
<1>2. CASE ClearAllChannels BY <1>c, <1>2, ClearAllSound DEF ClearAllChannels, IInv
<1>3. CASE PvwToPgm
  BY <1>c, <1>p, <1>3, TakePvwToPgmSound, BecomeBothIInv DEF PvwToPgm
<1>4. CASE SongPvwToPgm
  BY <1>c, <1>p, <1>4, SongPromoteSound, BecomeBothIInv DEF SongPvwToPgm
<1>5. CASE SttHypothesis
  <2> DEFINE live == {k \in Channels : ch[k].song # None}
             heard == {None} \cup UNION {Matchable(ch[k]) : k \in live}
  <2>1. PICK p \in [live -> heard], sure \in [live -> BOOLEAN] :
          /\ \A k \in live : p[k] \in {None} \cup Matchable(ch[k])
          /\ ch' = [k \in Channels |->
                      IF k \in live THEN Hypothesis(ch[k], p[k], sure[k])
                                    ELSE ch[k]]
    BY <1>5 DEF SttHypothesis
  <2>2. \A k \in live : p[k] \in Cursor \cup {None} /\ sure[k] \in BOOLEAN
    BY <1>c, <2>1, MatchableType
  <2>3. \A k \in live : Hypothesis(ch[k], p[k], sure[k]) \in Sound(k)
    BY <1>c, <2>2, HypothesisSound
  <2>4. UNCHANGED <<now, files>> BY <1>5 DEF SttHypothesis
  <2> QED BY <1>c, <2>1, <2>3, <2>4 DEF IInv
<1>6. CASE FolderChange
  <2>1. PICK present \in FolderContents :
          /\ files' = present /\ now' = now
          /\ ch' = [k \in Channels |-> LoopFolderChange(ch[k], present, now)]
    BY <1>6 DEF FolderChange
  <2>2. present \in SUBSET Files BY InputsAssumption
  <2> QED BY <1>c, <2>1, <2>2, LoopFolderChangeSound DEF IInv
<1>7. CASE Tick BY <1>7 DEF Tick, IInv
<1>8. CASE UNCHANGED vars BY <1>8 DEF vars, IInv
<1> QED BY <1>1, <1>2, <1>3, <1>4, <1>5, <1>6, <1>7, <1>8 DEF Next

\* In every reachable state every channel is sound: no order of client
\* messages, timers, template reads, folder events and reports breaks it.
THEOREM Inductive == Spec => []IInv
BY InitIInv, NextIInv, PTL DEF Spec

\* A sound system is typed, draft-free off preview and swept.
LEMMA Consequences == IInv => TypeOK /\ NoDraftOnAir /\ OutgoingIsSwept
<1> SUFFICES ASSUME IInv PROVE TypeOK /\ NoDraftOnAir /\ OutgoingIsSwept
  OBVIOUS
<1>1. TypeOK
  <2>1. \A k \in Channels : ch[k] \in Channel BY Parts DEF IInv
  <2> QED BY <2>1 DEF IInv, TypeOK
<1>2. NoDraftOnAir
  BY Parts, StParts DEF IInv, NoDraftOnAir, NoDraft, Airable
<1>3. OutgoingIsSwept BY Parts DEF IInv, OutgoingIsSwept
<1> QED BY <1>1, <1>2, <1>3

\* Every variable keeps its type, whatever clients send and in whatever order
\* timers, template reads and renderer reports arrive.
THEOREM TypeCorrect == Spec => []TypeOK
BY Inductive, Consequences, PTL

\* An unsaved designer draft is never on a channel other than preview: no
\* take, session, promotion or update gets round the gate of channels.ts.
THEOREM DraftsStayOnPreview == Spec => []NoDraftOnAir
BY Inductive, Consequences, PTL

\* Whatever goes out has its drop to null pending: no take, clear, promotion
\* or earlier drop leaves a graphic of any channel going out for good.
THEOREM NothingLingers == Spec => []OutgoingIsSwept
BY Inductive, Consequences, PTL
===============================================================================
