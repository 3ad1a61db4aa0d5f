SPECIFICATION ServiceSpec
CONSTANTS
  None = None
  title = title
  intro = intro
  words = words
  verse = verse
  sheet = sheet
  draft = draft
  card = card
  hymn = hymn
  reprise = reprise
  psalmSong = psalmSong
  passage = passage
  deck = deck
  loopDeck = loopDeck
  clip = clip
  mediaDeck = mediaDeck
  folder = folder
  Channels = {"program"}
  Templates <- MCTemplates
  Drafts <- MCDrafts
  AutoOut = {intro, verse, words}
  GraphicRows = {card}
  SongRows = {hymn, psalmSong}
  SongInfo <- MCSongInfo
  Songs <- MCSongs
  SlideCount <- MCSlideCount
  ScriptureRows = {passage}
  ScriptureInfo <- MCScriptureInfo
  DeckRows = {deck, loopDeck}
  DeckInfo <- MCDeckInfo
  MediaRows = {clip}
  LoopRows = {mediaDeck, folder}
  LoopInfo <- MCLoopInfo
  Files <- MCFiles
  FileInfo <- MCFileInfo
  Orders <- MCOrders
  NextFolderOrder <- MCNextFolderOrder
  FolderSlides <- MCFolderSlides
  GraphicTakes <- Cards
  MediaTakes <- LibraryClip
  SlidePicks = {0, 1, 2}
  Promotions <- Nothing
  FolderContents <- Folder
  Listening = TRUE
  Controls = {"pause"}
  MaxNow = 2
  MaxAt = 3
INVARIANTS
  TypeOK
  NothingUnsent
  SongOnScreen
  ScriptureOnScreen
  SourceNamesTheGraphic
  AutoOutIsPending
  OutgoingIsSwept
  AdvanceHasASong
  BlankIsDark
  SummariesMirrorSessions
  SlidesOnScreen
  LoopOwnsItsMedia
  NoOrphanedSlideMedia
PROPERTIES
  PlaysWhatCan
