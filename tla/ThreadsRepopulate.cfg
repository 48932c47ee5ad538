SPECIFICATION Spec
CONSTANTS
  mod = mod
  news = news
  Nil = Nil
  Users = {ann}
  Subforums = {chat}
  Texts = {x,y}
  Requests = {r1,r2}
  Loops = {loop1}
  QueueCap = 1
  PathIds = {1}
  MayCrash = TRUE
  MayFail = TRUE
  IndexMayFail = TRUE
  MaxPosts = 3
  Privilege <- MCPrivilege
  ThreadPrivilege <- MCThreadPrivilege
  ReplyPrivilege <- MCReplyPrivilege
SYMMETRY RequestSymmetry
PROPERTY PopulatedIsComplete
