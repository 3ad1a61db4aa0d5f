----------------------------- MODULE MCService -----------------------------
(***************************************************************************)
(* One program channel.  A plan says what its messages are: a whole        *)
(* service without decks, graphics, songs and scripture with nobody        *)
(* listening; its songs alone, followed by a speech listener; or a show of *)
(* decks and media, one card among them.                                   *)
(***************************************************************************)
EXTENDS MCLive

VARIABLE plan

In(p) == plan = p /\ UNCHANGED plan

ServiceMessage(k) ==
  \/ TakeOn(k) \/ UpdateOn(k)
  \/ SongIntroOn(k) \/ SongOutroOn(k)
  \/ ScriptureIntroOn(k) \/ ScriptureSlideOn(k) \/ ScriptureAdvanceOn(k)
  \/ ScriptureGoToOn(k) \/ ScriptureEndOn(k)

SongMessage(k) ==
  \/ SongTakeOn(k) \/ SongAdvanceOn(k) \/ SongJumpOn(k) \/ SongBlankOn(k)
  \/ SongTrustOn(k) \/ SongEndOn(k) \/ SongLyricsOn(k)
  \/ ClearOn(k)

DeckMessage(k) ==
  \/ CardOn(k) \/ ClearOn(k)
  \/ SlidesTakeOn(k) \/ SlidesAdvanceOn(k) \/ SlidesGoToOn(k)
  \/ SlidesBlankOn(k) \/ SlidesEndOn(k)
  \/ MediaTakeOn(k) \/ MediaClearOn(k) \/ MediaControlOn(k)
  \/ MediaStatusOn(k)

ServiceNext ==
  \/ \E k \in Channels :
       \/ ServiceMessage(k) /\ In("service")
       \/ SongMessage(k) /\ plan \in {"service", "songs"} /\ UNCHANGED plan
       \/ DeckMessage(k) /\ In("decks")
       \/ Internal(k) /\ UNCHANGED plan
  \/ ClearAllChannels /\ plan \in {"service", "decks"} /\ UNCHANGED plan
  \/ Tick /\ In("service")
  \/ SttHypothesis /\ In("songs")
  \/ FolderChange /\ In("decks")

ServiceInit == /\ Init
               /\ plan \in {"service", "songs", "decks"}
               /\ plan # "decks" => files = {}

ServiceSpec == ServiceInit /\ [][ServiceNext]_<<vars, plan>>
=============================================================================
