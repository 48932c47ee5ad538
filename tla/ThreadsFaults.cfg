SPECIFICATION Spec
CONSTANTS
  mod = mod
  news = news
  Nil = Nil
  Users = {ann,mod}
  Subforums = {chat}
  Texts = {x}
  Requests = {r1,r2}
  Loops = {loop1}
  QueueCap = 1
  PathIds = {0,1}
  MayCrash = TRUE
  MayFail = TRUE
  IndexMayFail = FALSE
  MaxPosts = 3
  Privilege <- MCPrivilege
  ThreadPrivilege <- MCThreadPrivilege
  ReplyPrivilege <- MCReplyPrivilege
SYMMETRY RequestSymmetry
INVARIANTS
  SearchFindsEveryPost
  PhantomIsNextPost
  IndInv
PROPERTY
  ImplementsBoard
