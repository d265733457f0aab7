CONSTANTS
  Walkers = {1}
  Queriers = {1, 2}
  Users = {1, 2}
  BufferSize = 1
  Files = {"f", "g", "h"}
  Dirs = {"root", "d", "e"}
  Links = {"up", "back"}
  Root = "root"
  Listing <- Tree
  To <- Goals
  Climb <- Heights
  Text <- TextOf
  Language <- LangOf
  Matching = {"f", "h"}
  Sources = {"s"}
  Languages = {"go", "ts"}
  Scopes <- SomeScopes
  MaxOld = 1
  Troubles = {"dir", "stat", "read", "stop"}
  ParseFaults = {"parse"}
SPECIFICATION FileQueryFairSpec
INVARIANTS FileQueryInv TreesOpen QueryComplete
PROPERTY WalkEnds
CHECK_DEADLOCK FALSE
