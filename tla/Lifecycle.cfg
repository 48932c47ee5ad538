SPECIFICATION FairSpec
CONSTANTS
  QueueCap = 1
  IndexMayFail = TRUE
  Requests = {r1}
  MayFail = TRUE
  MaxPosts = 2
  Nil = Nil
  Earlier <- MCEarlier
  Configurations <- MCConfigurations
  PathParts <- MCPathParts
INVARIANTS
  TypeOK
  LinksLeadHome
  EveryPostAccountedFor
  ClosedIsQuiet
PROPERTIES
  QuitExits
