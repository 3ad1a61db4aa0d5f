------------------------------- MODULE MCLive -------------------------------
(***************************************************************************)
(* Instances of the live control plane.  The rundown is shared by the      *)
(* configurations; each names the channels, rows and inputs it works with. *)
(***************************************************************************)
EXTENDS LiveSafety, SequencesExt

CONSTANTS title, intro, words, verse, sheet, draft,  \* templates
          card,                              \* a graphic row
          hymn, reprise, psalmSong,          \* song rows
          passage,                           \* a scripture row
          deck, loopDeck,                    \* graphics-slot decks
          clip,                              \* a media row
          mediaDeck, folder                  \* media-slot decks

MCTemplates == {title, intro, words, verse, sheet, draft}
MCDrafts == {draft}

MCSongs == {"A", "B"}
\* Song A: a verse of two slides and a chorus; bridge only by audible.
\* Song B's arrangement opens with a chorus the song no longer has.
MCSlideCount == [s \in MCSongs |->
  IF s = "A" THEN [x \in {"v1", "c", "b"} |-> IF x = "v1" THEN 2 ELSE 1]
             ELSE [x \in {"v1"} |-> 1]]
Song(song, arr) ==
  [song |-> song, lyric |-> words, intro |-> intro, outro |-> title,
   arr |-> arr, trust |-> TRUE]
MCSongInfo == [r \in {hymn, reprise, psalmSong} |->
  CASE r = hymn -> Song("A", <<"v1", "c", "v1">>)
    [] r = reprise -> Song("A", <<"c">>)
    [] OTHER -> Song("B", <<"c", "v1">>)]

MCScriptureInfo ==
  [r \in {passage} |-> [tpl |-> verse, intro |-> intro, count |-> 2]]

Slide(kind, hold, onEnd) ==
  [kind |-> kind, tpl |-> sheet, hold |-> hold, onEnd |-> onEnd]
MCDeckInfo == [r \in {deck, loopDeck} |->
  IF r = deck
    THEN [slides |-> <<Slide("graphic", TRUE, FALSE), Slide("image", TRUE, FALSE)>>,
          loop |-> FALSE]
    ELSE [slides |-> <<Slide("video", FALSE, TRUE), Slide("graphic", TRUE, FALSE)>>,
          loop |-> TRUE]]

\* Files of the media-slot decks, in name order: 1 and 3 photos, 2 a video.
MCFiles == 1..3
MCFileInfo == [f \in MCFiles |-> IF f = 2
  THEN [kind |-> "video", hold |-> FALSE, onEnd |-> TRUE]
  ELSE [kind |-> "image", hold |-> TRUE, onEnd |-> FALSE]]
MCOrders == SetToAllKPermutations(MCFiles)
MCNextFolderOrder == [p \in MCOrders \X SUBSET MCFiles |->
  p[1] \o SetToSortSeq(p[2] \ Range(p[1]), <)]
MCFolderSlides == [p \in MCOrders \X SUBSET MCFiles |->
  SelectSeq(p[1], LAMBDA f : f \in p[2])]
MCLoopInfo == [r \in {mediaDeck, folder} |->
  IF r = mediaDeck
    THEN [folder |-> FALSE, order |-> <<1, 2>>, loop |-> FALSE, inShow |-> TRUE]
    ELSE [folder |-> TRUE, order |-> <<>>, loop |-> TRUE, inShow |-> FALSE]]

\* A hotcard has no row; a clip aired from the library belongs to no show.
Card == [tpl |-> title, row |-> card]
Hotcard == [tpl |-> title, row |-> None]
Draft == [tpl |-> draft, row |-> None]
OneHotcard == {Hotcard}
Cards == {Card, Hotcard}
CardAndDraft == {Card, Draft}
Clip(inShow) == [row |-> clip, kind |-> "video", loop |-> FALSE,
                 endAction |-> "clear", inShow |-> inShow]
RowClip == {Clip(TRUE)}
LibraryClip == {Clip(FALSE)}
Nothing == {}
PvwPgm == {<<"preview", "program">>}
OneFolder == {{}}
Folder == {{}, {1, 2}}
FilesOfFolder == SUBSET {1, 2}

CardOn(k) == Become(k, TakeGraphic(ch[k], title, card, "none", now))
=============================================================================
