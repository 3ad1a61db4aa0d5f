SPECIFICATION WorkflowSpec
CONSTANTS
  None = None
  title = title
  intro = intro
  words = words
  verse = verse
  sheet = sheet
  draft = draft
  card = card
  hymn = hymn
  reprise = reprise
  psalmSong = psalmSong
  passage = passage
  deck = deck
  loopDeck = loopDeck
  clip = clip
  mediaDeck = mediaDeck
  folder = folder
  Channels = {"preview", "program"}
  Templates <- MCTemplates
  Drafts <- MCDrafts
  AutoOut = {intro, verse, words}
  GraphicRows = {card}
  SongRows = {reprise}
  SongInfo <- MCSongInfo
  Songs <- MCSongs
  SlideCount <- MCSlideCount
  ScriptureRows = {passage}
  ScriptureInfo <- MCScriptureInfo
  DeckRows = {deck}
  DeckInfo <- MCDeckInfo
  MediaRows = {clip}
  LoopRows = {mediaDeck, folder}
  LoopInfo <- MCLoopInfo
  Files <- MCFiles
  FileInfo <- MCFileInfo
  Orders <- MCOrders
  NextFolderOrder <- MCNextFolderOrder
  FolderSlides <- MCFolderSlides
  GraphicTakes <- CardAndDraft
  MediaTakes <- RowClip
  SlidePicks = {1}
  Promotions <- PvwPgm
  FolderContents <- FilesOfFolder
  Listening = TRUE
  Controls <- Nothing
  MaxNow = 1
  MaxAt = 3
INVARIANTS
  SummariesMirrorSessions
  SongOnScreen
  NoDraftOnAir
  SlidesOnScreen
  LoopOwnsItsMedia
  NoOrphanedSlideMedia
PROPERTIES
  PlaysWhatCan
  OutgoingGoes
