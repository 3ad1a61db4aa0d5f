----------------------------- MODULE MCPromote -----------------------------
(***************************************************************************)
(* Preview and program at work together: the operator cues on preview,     *)
(* promotes, and drives or clears what is on program.  The messages are    *)
(* those of that workflow; handlers, timers and reads are all of them.  A  *)
(* show plans songs and scripture, or decks and media, besides graphics;   *)
(* or it tries drafts of a template beside a song and a deck; or it plays  *)
(* a live folder whose files come and go.                                  *)
(***************************************************************************)
EXTENDS MCLive

VARIABLE plan

DeckTakeOn(k) ==
  \E r \in DeckRows : Become(k, SlidesStart(ch[k], r, 1, now))
LoopTakeOn(k, r) == Become(k, LoopStart(ch[k], r, 1, files, now))

\* Media takes are followed further with the folder alone.
FewTakes ==
  \A k \in Channels : ch'[k].st.media # None => ch'[k].st.media.at <= 2

SongCue(k)   == CardOn(k) \/ SongTakeOn(k) \/ SongIntroOn(k) \/ ScriptureIntroOn(k)
SongDrive(k) == \/ SongTakeOn(k) \/ SongAdvanceOn(k) \/ SongBlankOn(k)
                \/ ScriptureAdvanceOn(k)
DeckCue(k)   == \/ CardOn(k) \/ DeckTakeOn(k) \/ LoopTakeOn(k, mediaDeck)
                \/ MediaTakeOn(k)
DeckDrive(k) == \/ DeckTakeOn(k) \/ LoopTakeOn(k, mediaDeck)
                \/ SlidesAdvanceOn(k) \/ SlidesBlankOn(k) \/ MediaStatusOn(k)
\* A draft still going out under a deck that opens with a photo, too.
DraftCue(k)  == \/ TakeOn(k) \/ SongIntroOn(k)
                \/ \E i \in DOMAIN Slides(deck) :
                     Become(k, SlidesStart(ch[k], deck, i, now))
FolderDrive(k) == SlidesAdvanceOn(k) \/ SlidesGoToOn(k) \/ MediaStatusOn(k)

Workflow ==
  \/ /\ plan = "songs"
     /\ SongCue("preview") \/ SongDrive("program") \/ SongPvwToPgm \/ SttHypothesis
  \/ /\ plan = "decks"
     /\ DeckCue("preview") \/ DeckDrive("program")
  \/ /\ plan = "drafts"
     /\ \/ DraftCue("preview") \/ TakeOn("program") \/ DeckTakeOn("program")
        \/ SongAdvanceOn("program")
  \/ /\ plan = "folder"
     /\ LoopTakeOn("preview", folder) \/ FolderDrive("program") \/ FolderChange

WorkflowNext ==
  /\ \/ Workflow \/ PvwToPgm
     \/ \E k \in Channels : ClearOn(k) \/ Internal(k)
  /\ plan # "folder" => FewTakes
  /\ UNCHANGED plan

WorkflowInit == /\ Init
                /\ plan \in {"songs", "decks", "drafts", "folder"}
                /\ plan # "folder" => files = {}

WorkflowSpec == WorkflowInit /\ [][WorkflowNext]_<<vars, plan>> /\ Fairness
=============================================================================
