---------------------------- MODULE ChannelState ---------------------------
(***************************************************************************)
(* One output channel of the server: `st`, the ChannelState every client   *)
(* of the channel is shown, and the maps the session modules keep beside   *)
(* it, all keyed by channel in the code and gathered here in one record.   *)
(* `sent` is the ChannelState as the last emit left it with the clients.   *)
(*                                                                         *)
(* Handlers run to completion on one event loop, so everything a message   *)
(* changes is an operator from the channel record before to the one after. *)
(***************************************************************************)
EXTENDS Rundown

\* What a graphic displays: slide `slide` of section `sec` of row `row`; an
\* operator's live update of its fields marks it `edited`.
Text == [row : Rows \cup {None}, sec : Nat, slide : Nat, edited : BOOLEAN]
Says(row, sec, slide) ==
  [row |-> row, sec |-> sec, slide |-> slide, edited |-> FALSE]

\* ctx says which sub-take of a song or scripture row put the graphic up.
Contexts == {"none", "intro", "outro", "scrIntro", "scrSlide"}
Graphic == [tpl : Templates, at : Nat, phase : {"in", "out"},
            ctx : Contexts, shows : Text]

Media == [row : Rows, item : Nat, kind : {"image", "video"}, loop : BOOLEAN,
          endAction : {"hold", "clear"},
          owner : ({"slides", "deck"} \X Rows) \cup {None}, at : Nat,
          status : {"loading", "playing", "paused", "ended", "error"},
          paused : BOOLEAN]

\* Live sessions.
SongSession == [row : SongRows, arr : Seq(Sections), cur : Cursor,
                blanked : BOOLEAN, trust : BOOLEAN]
ScriptureSession == [row : ScriptureRows, slide : Nat]
SlidesSession == [row : DeckRows, idx : Nat, blanked : BOOLEAN,
                  atEnd : BOOLEAN, autoEnded : BOOLEAN, armed : BOOLEAN,
                  mediaAt : Nat \cup {None}, playedOut : BOOLEAN,
                  failed : SUBSET Nat]
LoopSession == [row : LoopRows, inShow : BOOLEAN, order : Orders,
                slides : Orders, idx : Nat, atEnd : BOOLEAN,
                starved : BOOLEAN, failed : SUBSET Files, at : Nat,
                onAir : Files \cup {None}, onAirFailed : BOOLEAN,
                playedOut : BOOLEAN, armed : BOOLEAN]

\* The one slidesSession summary a channel publishes, of either kind of deck.
SlidesSummary == [slot : {"graphics", "media"}, row : DeckRows \cup LoopRows,
                  idx : Nat, blanked : BOOLEAN, atEnd : BOOLEAN,
                  autoEnded : BOOLEAN, armed : BOOLEAN]

State == [active : Graphic \cup {None}, liveRow : Rows \cup {None},
          song : SongSession \cup {None}, songQ : SongRows \cup {None},
          scr : ScriptureSession \cup {None},
          scrQ : ScriptureRows \cup {None},
          slides : SlidesSummary \cup {None}, media : Media \cup {None}]

\* An auto-out lookup or timer remembers the take it was made for.
TakeRef == [tpl : Templates, at : Nat]

Channel == [name : Channels, st : State, sent : State,
            source : Rows \cup {None},           \* activeSource
            song : SongSession \cup {None},      \* songSession.sessions
            songQ : SongRows \cup {None},        \* songSession.queued
            stt : Cursor \cup {None},            \* autoAdvanceTimers
            heard : Nat,    \* sections the speech matcher is bound to
            match : Cursor \cup {None},          \* the last stt_match sent
            scr : ScriptureSession \cup {None},  \* scriptureSession.live
            scrQ : ScriptureRows \cup {None},    \* scriptureSession.queued
            slides : SlidesSession \cup {None},  \* slidesSession.sessions
            deck : LoopSession \cup {None},      \* mediaDeckSession.sessions
            autoOut : TakeRef \cup {None},       \* autoOutTimers
            lookups : SUBSET TakeRef,            \* unanswered template reads
            sweeps : SUBSET Nat]                 \* 1500 ms drops to null

\* Absence (undefined, null, a missing key) is none of the things it is the
\* absence of.
ASSUME NoneAssumption ==
  /\ None \notin Graphic /\ None \notin Media /\ None \notin TakeRef
  /\ None \notin SongSession /\ None \notin ScriptureSession
  /\ None \notin SlidesSession /\ None \notin LoopSession
  /\ None \notin {"slides", "deck"} \X Rows

EmptyState == [active |-> None, liveRow |-> None, song |-> None,
               songQ |-> None, scr |-> None, scrQ |-> None,
               slides |-> None, media |-> None]

InitChannel(k) ==
  [name |-> k, st |-> EmptyState, sent |-> EmptyState, source |-> None,
   song |-> None, songQ |-> None, stt |-> None, heard |-> 0,
   match |-> None, scr |-> None, scrQ |-> None, slides |-> None,
   deck |-> None, autoOut |-> None, lookups |-> {}, sweeps |-> {}]

----------------------------------------------------------------------------
\* Every listener of the channel gets the state as it now is.
Emit(c) == [c EXCEPT !.sent = c.st]

\* A slip, for comparison: the take's provenance is not recorded.
SetLiveRowAlone(c, row) == Emit([c EXCEPT !.st.liveRow = row])

SetLiveRow(c, row) ==
  Emit([c EXCEPT !.st.liveRow = row, !.source = row])

\* Only "preview" may show an unsaved designer draft.
RefusesDraft(c, tpl) == c.name # Preview /\ tpl \in Drafts

OnScreen(c) == c.st.active # None /\ c.st.active.phase = "in"

\* A media-slot deck's summary, and the graphics-slot deck's.
LoopSummary(d) ==
  [slot |-> "media", row |-> d.row, idx |-> d.idx, blanked |-> FALSE,
   atEnd |-> d.atEnd, autoEnded |-> FALSE, armed |-> d.armed]

DeckSummary(s) ==
  [slot |-> "graphics", row |-> s.row, idx |-> s.idx, blanked |-> s.blanked,
   atEnd |-> s.atEnd, autoEnded |-> s.autoEnded, armed |-> s.armed]
=============================================================================
