SPECIFICATION AllSpec
CONSTANTS
  Components = {"builder", "reveal", "userlist", "queries", "lists", "guard", "composer", "editor", "sync", "resets", "resets and runs", "trade", "search", "showcase", "hero", "inbox", "decks", "deck"}
  None = None
  UnderWay = UnderWay
  Bad = Bad
INVARIANTS
  TypesOK
  
  
PROPERTIES
  EditsAreKept
  PagesComeToRest
CHECK_DEADLOCK FALSE
