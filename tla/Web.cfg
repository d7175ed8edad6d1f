SPECIFICATION Spec
CONSTANTS
  Users = {"a", "b"}
  Viewers = {"a"}
  MaxCalls = 2
  MaxFlags = 2
  FlagLimit = 1
  LibraryUsers = {"a", "b", "c"}
  LibraryPlaces = {"p"}
  LibraryWatchers = {}
  LibraryStart <- Chain
  LibraryCollections = 4
  LibrarySpots = 4
  LibraryTx = 2
  SaveUsers = {"v", "f"}
  SavePlaces = {"p"}
  SaveWatchers = {"v"}
  SaveStart <- TwoOfAFriend
  SaveViewer = "v"
  Saveable = {1, 2}
  SaveCollections = 3
  SaveSpots = 4
  SaveTx = 3
  ShareUsers = {"v", "f"}
  SharePlaces = {"p"}
  ShareWatchers = {}
  ShareStart <- OfAStranger
  ShareViewer = "v"
  ShareOwner = "f"
  ShareCollections = 2
  ShareSpots = 1
  ShareTx = 1
  Others = 1
  Pins = {1, 2}
  Ids = {"p"}
  OtherKeys <- Photos
  Hooks = {1}
  TTL = 2
  MaxEntries = 1
  Lag = 1
  Queries = {"a", "b"}
  People = {"x"}
  NoText = ""
  MaxAsked = 2
  SpotPhotos = {"s", "t"}
  PlaceURLs = {"p"}
  NoPhoto = ""
  Numbers = {1, 2}
  Messages = {1, 2, 3, 4, 5}
  Instances = {1, 2}
  Periods = {"p"}
  Thresholds = {1, 2}
  Said <- Published
INVARIANTS WebTypeOK FriendshipIsMutual ReadWasShown LibraryHolds ScreensAreTrue BudgetIsTold
PROPERTIES OnlyUnfriendingEnds
CONSTRAINT Bounded
CHECK_DEADLOCK FALSE
