SPECIFICATION Spec
CONSTANTS
  None = None
  title = title
  intro = intro
  words = words
  verse = verse
  sheet = sheet
  draft = draft
  card = card
  hymn = hymn
  reprise = reprise
  psalmSong = psalmSong
  passage = passage
  deck = deck
  loopDeck = loopDeck
  clip = clip
  mediaDeck = mediaDeck
  folder = folder
  Channels = {"preview", "program"}
  Templates <- MCTemplates
  Drafts <- MCDrafts
  AutoOut = {}
  GraphicRows = {card}
  SongRows = {reprise}
  SongInfo <- MCSongInfo
  Songs <- MCSongs
  SlideCount <- MCSlideCount
  ScriptureRows = {}
  ScriptureInfo <- MCScriptureInfo
  DeckRows = {deck}
  DeckInfo <- MCDeckInfo
  MediaRows = {}
  LoopRows = {}
  LoopInfo <- MCLoopInfo
  Files <- MCFiles
  FileInfo <- MCFileInfo
  Orders <- MCOrders
  NextFolderOrder <- MCNextFolderOrder
  FolderSlides <- MCFolderSlides
  GraphicTakes <- Nothing
  MediaTakes <- Nothing
  SlidePicks = {1}
  Promotions <- PvwPgm
  FolderContents <- OneFolder
  Listening = FALSE
  Controls <- Nothing
  MaxNow = 1
  MaxAt = 2
INVARIANTS
  OneSessionPerSlot
