SPECIFICATION Spec
CONSTANTS
  None = None
  title = title
  intro = intro
  words = words
  verse = verse
  sheet = sheet
  draft = draft
  card = card
  hymn = hymn
  reprise = reprise
  psalmSong = psalmSong
  passage = passage
  deck = deck
  loopDeck = loopDeck
  clip = clip
  mediaDeck = mediaDeck
  folder = folder
  Channels = {"program"}
  Templates <- MCTemplates
  Drafts <- MCDrafts
  AutoOut = {title}
  GraphicRows = {card}
  SongRows = {}
  SongInfo <- MCSongInfo
  Songs <- MCSongs
  SlideCount <- MCSlideCount
  ScriptureRows = {}
  ScriptureInfo <- MCScriptureInfo
  DeckRows = {deck}
  DeckInfo <- MCDeckInfo
  MediaRows = {}
  LoopRows = {}
  LoopInfo <- MCLoopInfo
  Files <- MCFiles
  FileInfo <- MCFileInfo
  Orders <- MCOrders
  NextFolderOrder <- MCNextFolderOrder
  FolderSlides <- MCFolderSlides
  GraphicTakes <- OneHotcard
  MediaTakes <- Nothing
  SlidePicks = {2}
  Promotions <- Nothing
  FolderContents <- OneFolder
  Listening = FALSE
  Controls <- Nothing
  MaxNow = 2
  MaxAt = 2
INVARIANTS
  AutoOutSparesSessions
