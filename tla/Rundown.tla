------------------------------ MODULE Rundown ------------------------------
(***************************************************************************)
(* The show data the live control plane works on, as constants: templates, *)
(* and the rundown rows of each kind with what the server resolves from    *)
(* them when a row is taken.  Wording, layout and field values are left    *)
(* out: what matters is which row and which slide of it is shown.          *)
(* Indexes are 1-based here and 0-based in the code.                       *)
(***************************************************************************)
EXTENDS Integers, Sequences, FiniteSets, FiniteSetsExt, Functions

CONSTANTS
  None,           \* absence of a value (undefined, null or a missing map key)
  Channels,       \* output channels; "preview" is the one nobody airs
  Templates,      \* template ids, the unsaved designer drafts included
  Drafts,         \* template ids carrying the draft prefix
  AutoOut,        \* templates with a positive autoOutMs
  GraphicRows,    \* graphic rows of the rundown
  SongRows,       \* song rows
  SongInfo,       \* song row -> [song, lyric, intro, outro, arr, trust]
  Songs,          \* song ids
  SlideCount,     \* song -> [its section ids -> number of slides]
  ScriptureRows,  \* scripture rows
  ScriptureInfo,  \* scripture row -> [tpl, intro, count]
  DeckRows,       \* slides rows that play in the graphics slot
  DeckInfo,       \* slides row -> [slides, loop]
  MediaRows,      \* media rows (one photo or video)
  LoopRows,       \* media-only decks and live folders (media slot)
  LoopInfo,       \* its row -> [folder, order, loop, inShow]
  Files,          \* media files of those decks, named by their sort order
  FileInfo,       \* file -> [kind, hold, onEnd]
  Orders,         \* every play order of Files the folder code can build
  NextFolderOrder,    \* <<order, files present>> -> order with new files
  FolderSlides        \* <<order, files present>> -> the files that play

Preview == "preview"
Rows == GraphicRows \cup SongRows \cup ScriptureRows \cup DeckRows
          \cup MediaRows \cup LoopRows

Sections == UNION {DOMAIN SlideCount[s] : s \in Songs}

DeckSlide == [kind : {"graphic", "image", "video"},
              tpl : Templates \ Drafts, hold : BOOLEAN, onEnd : BOOLEAN]

ASSUME TemplatesAssumption ==
  /\ Drafts \subseteq Templates
  /\ AutoOut \subseteq Templates
  /\ None \notin Templates /\ None \notin Rows /\ None \notin Nat

\* A row is designed with saved templates, never with a draft of one.
ASSUME SongsAssumption ==
  /\ \A s \in Songs : SlideCount[s] \in [DOMAIN SlideCount[s] -> Nat \ {0}]
  /\ \A r \in SongRows :
       /\ SongInfo[r].song \in Songs
       /\ {SongInfo[r].lyric, SongInfo[r].intro, SongInfo[r].outro}
            \subseteq Templates \ Drafts
       /\ SongInfo[r].arr \in Seq(Sections)
       /\ SongInfo[r].trust \in BOOLEAN

ASSUME ScriptureAssumption ==
  \A r \in ScriptureRows :
    /\ {ScriptureInfo[r].tpl, ScriptureInfo[r].intro}
         \subseteq Templates \ Drafts
    /\ ScriptureInfo[r].count \in Nat

ASSUME DecksAssumption ==
  \A r \in DeckRows : /\ DeckInfo[r].slides \in Seq(DeckSlide)
                      /\ DeckInfo[r].loop \in BOOLEAN

ASSUME LoopsAssumption ==
  /\ Files \subseteq Nat \ {0}
  /\ FileInfo \in [Files -> [kind : {"image", "video"}, hold : BOOLEAN,
                             onEnd : BOOLEAN]]
  /\ Orders \subseteq Seq(Files)
  /\ NextFolderOrder \in [Orders \X SUBSET Files -> Orders]
  /\ FolderSlides \in [Orders \X SUBSET Files -> Orders]
  /\ \A o \in Orders, p \in SUBSET Files :
       LET next == NextFolderOrder[<<o, p>>]
           added == SubSeq(next, Len(o) + 1, Len(next))
       IN  /\ SubSeq(next, 1, Len(o)) = o
           /\ Range(added) = p \ Range(o)
           /\ \A i \in 1..(Len(added) - 1) : added[i] < added[i + 1]
           /\ FolderSlides[<<o, p>>] = SelectSeq(o, LAMBDA f : f \in p)
  /\ \A r \in LoopRows : /\ LoopInfo[r].folder \in BOOLEAN
                         /\ LoopInfo[r].order \in Orders
                         /\ LoopInfo[r].loop \in BOOLEAN
                         /\ LoopInfo[r].inShow \in BOOLEAN

----------------------------------------------------------------------------
(***************************************************************************)
(* Song cursors: [sec, slide], an index into an arrangement and an index   *)
(* into the slides of the section found there.                             *)
(***************************************************************************)
Cursor == [sec : Nat, slide : Nat]
FirstSlide == [sec |-> 1, slide |-> 1]

\* Slides of the section at index i of arrangement arr; 0 when there is none.
SlidesAt(song, arr, i) ==
  IF i \in DOMAIN arr /\ arr[i] \in DOMAIN SlideCount[song]
    THEN SlideCount[song][arr[i]] ELSE 0

OnSlide(song, arr, cur) == cur.slide \in 1..SlidesAt(song, arr, cur.sec)

\* A slip, for comparison: steps within the section without its bounds.
StepCursorUnbounded(song, arr, cur, d) == [cur EXCEPT !.slide = cur.slide + d]

\* One step of Next (d = 1) or Previous (d = -1).
StepCursor(song, arr, cur, d) ==
  LET here == SlidesAt(song, arr, cur.sec)
      next == cur.sec + d
  IN  CASE here = 0 -> cur
        [] here > 0 /\ cur.slide + d \in 1..here ->
             [cur EXCEPT !.slide = cur.slide + d]
        [] OTHER ->
             CASE next \notin DOMAIN arr -> cur
               [] next \in DOMAIN arr /\ SlidesAt(song, arr, next) = 0 ->
                    [cur EXCEPT !.sec = next]
               [] OTHER ->
                    [sec |-> next,
                     slide |-> IF d = 1 THEN 1 ELSE SlidesAt(song, arr, next)]

\* The arrangement index a jump to a section lands on; 0 when it has none.
OccurrenceFor(arr, section, i) ==
  LET all == {j \in DOMAIN arr : arr[j] = section}
      later == {j \in all : j > i}
  IN  CASE i \in all -> i
        [] i \notin all /\ later # {} -> Min(later)
        [] i \notin all /\ later = {} /\ all # {} -> Min(all)
        [] OTHER -> 0

\* p is strictly later in the arrangement than q.
IsForward(p, q) == p.sec > q.sec \/ (p.sec = q.sec /\ p.slide > q.slide)
=============================================================================
