SPECIFICATION Spec
CONSTANTS
  mod = mod
  news = news
  Nil = Nil
  Users = {ann,mod}
  Subforums = {news,chat}
  Texts = {x}
  Requests = {r1,r2}
  Loops = {loop1}
  QueueCap = 1
  PathIds = {1,2}
  MayCrash = FALSE
  MayFail = FALSE
  IndexMayFail = FALSE
  MaxPosts = 3
  Privilege <- MCPrivilege
  ThreadPrivilege <- MCThreadPrivilege
  ReplyPrivilege <- MCReplyPrivilege
SYMMETRY RequestSymmetry
INVARIANTS
  TypeOK
  PostsAndThreadsAgree
  ListedWhereChecked
  NudgedBeforePosting
PROPERTY
  ImplementsBoard
